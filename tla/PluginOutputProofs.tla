------------------------- MODULE PluginOutputProofs -------------------------
(***************************************************************************)
(* PluginSafe and WrittenAsAsked for any load order, records, alternate    *)
(* textures, requests, and any number of runs and restarts.                *)
(***************************************************************************)
EXTENDS PluginOutput, SequenceTheorems, TLAPS

-----------------------------------------------------------------------------
(* The inductive invariant *)

Names     == Plugins \cup {OutMod}
AltRecord == [alt : Alts, index : Slots, id : 0..MaxFormID]
Splits    == [masters : SUBSET Names, records : SUBSET Records,
              files : UNION {[S -> Nat] : S \in SUBSET Models}, alts : SUBSET AltRecord]

\* A call is made only while patching, records are added only while adding.
Typing ==
  /\ TypeOK /\ masters \in Seq(SUBSET Names) /\ split \in Seq(Splits)
  /\ loaded \in 0..Len(LoadOrder)
  /\ phase # "patching" => Idle
  /\ phase # "adding" => toAdd = {}
  /\ \A k \in cur : \A a \in left : ModelOf[a] = k.model /\ a \notin gone

\* What was looked at of the load order is kept, not there, or bad.
LoadInv ==
  /\ \A p \in kept : \E j \in 1..loaded : LoadOrder[j] = p
  /\ \A j \in 1..loaded : LoadOrder[j] \in install.there => LoadOrder[j] \in kept \cup bad
  /\ MastersLoaded

\* NewTextureSets is the inverse of TextureSets as long as sets are added.
SetInv ==
  /\ NoTwins(sets) /\ NoTwins(base) /\ NoTwins(main) /\ OldIDsKept
  /\ IDs(sets) \subseteq allocated /\ IDs(base) \subseteq allocated
  /\ \A i \in IDs(sets) \cap IDs(base) : sets[i] = base[i]
  /\ phase \in {"ready", "patching"} =>
       /\ \A t \in TextureSets : idOf[t] # 0 => sets[idOf[t]] = t
       /\ \A i \in IDs(sets) : idOf[sets[i]] = i
       /\ \A t \in used : idOf[t] # 0
  /\ \A a \in Alts : id[a] # 0 => sets[id[a]] \in used
  /\ phase = "loading" => \A a \in Alts : id[a] = 0

\* What is in memory is what is in the output directory.
DiskInv ==
  /\ phase = "loading" => base = NoSets
  /\ phase = "ready" => base = main
  /\ phase = "patching" => main = NoSets /\ split = <<>>
  /\ phase \in {"adding", "saved", "failed"} => main = sets

\* A split plugin holds a record, has no master none of its records needs, and
\* is within the limit unless one of them alone is not.
Justified(i) ==
  /\ \E r \in Records : placed[r] = i
  /\ \A x \in masters[i] : \E r \in Records : placed[r] = i /\ x \in curMasterList(r)
  /\ \/ Cardinality(masters[i]) < MaxMasters
     \/ \E r \in Records : placed[r] = i /\ masters[i] = curMasterList(r)

SplitInv ==
  /\ phase \in {"loading", "ready", "patching"} => masters = <<>>
  /\ \A r \in Records :
       placed[r] # 0 => r \in modified /\ curMasterList(r) \subseteq masters[placed[r]]
  /\ \A i \in 1..Len(masters) : Justified(i)
  /\ toAdd # {} => split = <<>>
  /\ \A r \in toAdd : placed[r] = 0
  /\ phase \in {"adding", "saved", "failed"} =>
       /\ Len(split) <= Len(masters)
       /\ \A i \in 1..Len(split) : split[i] = SplitOf(i)
       /\ \A r \in modified \ Uncopied : r \in toAdd \/ placed[r] # 0
  /\ phase \in {"saved", "failed"} => Len(split) = Len(masters)

\* An alternate texture in memory: as it was, or as was asked.
AltAsIs(a) == a \notin gone /\ index[a] = SlotOf[a] /\ id[a] = 0
Shown(a)   == IF id[a] = 0 THEN SetOf[a] ELSE sets[id[a]]
AltDone(k, a) ==
  IF AskedIndex(k, a) = Removed THEN a \in gone
  ELSE a \notin gone /\ index[a] = AskedIndex(k, a) /\ Shown(a) = AskedSet(k, a)
NothingAsked(k, a) == AskedIndex(k, a) = SlotOf[a] /\ AskedSet(k, a) = SetOf[a]
Untouched(m) == file[m] = 0 /\ \A a \in AltsOf(m) : AltAsIs(a)

\* A model without variants is set once, by the call of its mesh.
Plain      == Models \ Weighted
Pending(m) == MeshOf[m] \in toSet \/ \E k \in todo : k.model = m

WaitingInv ==
  \A m \in Plain :
    /\ Pending(m) => Untouched(m) /\ \A k \in asked \cup cur : k.model # m
    /\ \A k \in todo : k.model = m =>
         MeshOf[m] \notin toSet /\ \A l \in todo : l.model = m => l = k
    /\ \A k \in cur : k.model = m => \A l \in asked : l.model # m

AskedInv ==
  \A k \in asked : k.model \in Plain =>
    /\ RecordOf[k.model] \notin Uncopied
    /\ file[k.model] = k.file
    /\ \A a \in AltsOf(k.model) : AltDone(k, a)
    /\ RecordOf[k.model] \notin modified =>
         k.file = 0 /\ \A a \in AltsOf(k.model) : NothingAsked(k, a)

CurInv ==
  \A k \in cur : k.model \in Plain =>
    /\ RecordOf[k.model] \notin Uncopied
    /\ file[k.model] = k.file
    /\ \A a \in AltsOf(k.model) : IF a \in left THEN AltAsIs(a) ELSE AltDone(k, a)
    /\ ~changed => k.file = 0 /\ \A a \in AltsOf(k.model) \ left : NothingAsked(k, a)

\* After an exception the run comes to nothing.
AskInv == (phase = "saved" => ~threw) /\ (~threw => WaitingInv /\ AskedInv /\ CurInv)

IInv == Typing /\ LoadInv /\ SetInv /\ DiskInv /\ SplitInv /\ OutputResolves /\ SplitsFit
               /\ AskInv

-----------------------------------------------------------------------------
(* Types *)

\* What a call may ask for.
LEMMA AskTyped ==
  ASSUME NEW k, k.model \in Models, k \in Asks[k.model]
  PROVE  /\ k.file \in Nat /\ k.slots \subseteq Slots
         /\ k.new \in [Slots -> Slots \cup {Removed}] /\ k.set \in [Slots -> TextureSets]
BY PluginAssumption

LEMMA CacheTyped ==
  ASSUME NEW s \in [FormIDs -> TextureSets \cup {Absent}]
  PROVE  /\ Cache(s) \in [TextureSets -> 0..MaxFormID]
         /\ \A t \in TextureSets : Cache(s)[t] # 0 => s[Cache(s)[t]] = t
         /\ NoTwins(s) => \A i \in IDs(s) : Cache(s)[s[i]] = i
<1>1. \A t \in TextureSets :
        /\ Cache(s)[t] \in 0..MaxFormID
        /\ Cache(s)[t] # 0 => s[Cache(s)[t]] = t
        /\ (\E i \in FormIDs : s[i] = t) => Cache(s)[t] # 0 /\ s[Cache(s)[t]] = t
  <2> TAKE t \in TextureSets
  <2>1. CASE \E i \in FormIDs : s[i] = t
    <3>1. (CHOOSE i \in FormIDs : s[i] = t) \in FormIDs
          /\ s[CHOOSE i \in FormIDs : s[i] = t] = t
      BY <2>1
    <3>2. Cache(s)[t] = CHOOSE i \in FormIDs : s[i] = t BY <2>1 DEF Cache
    <3> QED BY <3>1, <3>2, PluginAssumption DEF FormIDs
  <2>2. CASE ~\E i \in FormIDs : s[i] = t
    <3>1. Cache(s)[t] = 0 BY <2>2 DEF Cache
    <3> QED BY <2>2, <3>1, PluginAssumption
  <2> QED BY <2>1, <2>2
<1>2. Cache(s) \in [TextureSets -> 0..MaxFormID] BY <1>1 DEF Cache
<1>3. ASSUME NoTwins(s), NEW i \in IDs(s) PROVE Cache(s)[s[i]] = i
  <2>1. i \in FormIDs /\ s[i] \in TextureSets BY DEF IDs
  <2>2. Cache(s)[s[i]] # 0 /\ s[Cache(s)[s[i]]] = s[i] BY <1>1, <2>1
  <2>3. Cache(s)[s[i]] \in FormIDs BY <1>1, <2>1, <2>2, PluginAssumption DEF FormIDs
  <2>4. Cache(s)[s[i]] \in IDs(s) BY <2>2, <2>3, <1>3 DEF IDs
  <2> QED BY <2>2, <2>4, <1>3 DEF NoTwins
<1> QED BY <1>1, <1>2, <1>3

LEMMA InUseTyped ==
  ASSUME sets \in [FormIDs -> TextureSets \cup {Absent}]
  PROVE  InUse \in [FormIDs -> TextureSets \cup {Absent}]
BY DEF InUse

LEMMA StartTyped == NoSets \in [FormIDs -> TextureSets \cup {Absent}]
                    /\ NoIDs \in [TextureSets -> 0..MaxFormID]
BY PluginAssumption DEF NoSets, NoIDs

LEMMA InitTyping == Init => Typing
<1> SUFFICES ASSUME Init PROVE Typing OBVIOUS
<1>1. /\ sets = NoSets /\ base = NoSets /\ main = NoSets /\ idOf = NoIDs
      /\ index = SlotOf /\ id = [a \in Alts |-> 0] /\ file = [m \in Models |-> 0]
      /\ placed = [r \in Records |-> 0] /\ masters = <<>> /\ split = <<>>
      /\ loaded = 0 /\ lastUsed = 1 /\ baseLast = 1
  BY DEF Init
<1>2. /\ index \in [Alts -> Slots] /\ id \in [Alts -> 0..MaxFormID] /\ file \in [Models -> Nat]
      /\ 1 \in 1..MaxFormID /\ loaded \in 0..Len(LoadOrder)
      /\ placed \in [Records -> 0..Len(masters)]
  BY <1>1, PluginAssumption
<1>3. masters \in Seq(SUBSET Names) /\ split \in Seq(Splits) BY <1>1
<1> QED BY <1>1, <1>2, <1>3, StartTyped DEF Init, Typing, TypeOK, Idle

-----------------------------------------------------------------------------
\* Each step of the program on the types.

LEMMA LoadTyping == ASSUME Typing, LoadPlugin PROVE Typing'
<1>1. LoadOrder[loaded + 1] \in Plugins /\ loaded + 1 \in 0..Len(LoadOrder)
  BY PluginAssumption DEF Typing, LoadPlugin
<1>2. {q \in PluginMasters[LoadOrder[loaded + 1]] : q \notin install.there \/ q \in bad}
        \subseteq Plugins
  BY <1>1, PluginAssumption
<1>3. /\ kept' \subseteq install.there \cap install.readable /\ bad' \subseteq Plugins
      /\ loaded' = loaded + 1 /\ phase' = phase /\ install' = install
  BY <1>1, <1>2 DEF Typing, TypeOK, LoadPlugin
<1> QED BY <1>1, <1>3
    DEF Typing, TypeOK, LoadPlugin, Idle, txstVars, baseVars, copyVars, callVars, splitVars,
        diskVars

LEMMA PopulateTyping == ASSUME Typing, PopulateObjs PROVE Typing'
<1>1. /\ main \in [FormIDs -> TextureSets \cup {Absent}]
      /\ sets' = main /\ base' = main /\ main' = main
      /\ idOf' = Cache(main) /\ used' = {} /\ allocated' = IDs(main)
      /\ lastUsed' = baseLast' /\ phase' = "ready"
  BY DEF Typing, TypeOK, PopulateObjs, SavePatchingBaseline, diskVars
<1>2. Cache(main) \in [TextureSets -> 0..MaxFormID] BY <1>1, CacheTyped
<1>3. IDs(main) \subseteq FormIDs /\ lastUsed' \in 1..MaxFormID
  BY PluginAssumption DEF IDs, PopulateObjs, FormIDs
<1> QED BY <1>1, <1>2, <1>3
    DEF Typing, TypeOK, PopulateObjs, Idle, loadVars, copyVars, callVars, splitVars, diskVars

LEMMA ResetTyping == ASSUME Typing, ResetPatchingState PROVE Typing'
<1>1. /\ sets' = base /\ base' = base /\ main' = NoSets /\ idOf' = Cache(base) /\ used' = {}
      /\ allocated' = IDs(base) /\ lastUsed' = baseLast /\ baseLast' = baseLast
      /\ phase' = "patching" /\ modified' = {} /\ gone' = {} /\ asked' = {}
      /\ file' = [m \in Models |-> 0] /\ index' = SlotOf /\ id' = [a \in Alts |-> 0]
      /\ placed' = [r \in Records |-> 0] /\ masters' = <<>> /\ split' = <<>>
      /\ toAdd' = toAdd /\ todo' = todo /\ cur' = cur /\ left' = left
  BY DEF ResetPatchingState, baseVars, callVars
<1>2. base \in [FormIDs -> TextureSets \cup {Absent}] /\ baseLast \in 1..MaxFormID
  BY DEF Typing, TypeOK
<1>3. Cache(base) \in [TextureSets -> 0..MaxFormID] BY <1>2, CacheTyped
<1>4. IDs(base) \subseteq FormIDs BY DEF IDs
<1>5. /\ index' \in [Alts -> Slots] /\ id' \in [Alts -> 0..MaxFormID] /\ file' \in [Models -> Nat]
      /\ placed' \in [Records -> 0..Len(masters')]
  BY <1>1, PluginAssumption
<1>6. masters' \in Seq(SUBSET Names) /\ split' \in Seq(Splits) BY <1>1
<1>7. todo = {} /\ cur = {} /\ toAdd = {}
  BY DEF Typing, Idle, ResetPatchingState
<1> QED BY <1>1, <1>2, <1>3, <1>4, <1>5, <1>6, <1>7, StartTyped
    DEF Typing, TypeOK, ResetPatchingState, Idle, loadVars, callVars

LEMMA SetUsesTyping == ASSUME Typing, NEW x, SetModelUses(x) PROVE Typing'
<1>1. \A k \in todo' : k.model \in Models /\ k \in Asks[k.model]
  <2> SUFFICES ASSUME NEW k \in todo' PROVE k.model \in Models /\ k \in Asks[k.model]
    OBVIOUS
  <2>1. PICK m \in GetModelUses(x) : k \in Asks[m] BY DEF SetModelUses
  <2>2. m \in Models BY DEF GetModelUses, GetModelElems
  <2> QED BY <2>1, <2>2, PluginAssumption
<1> QED BY <1>1
    DEF Typing, TypeOK, SetModelUses, Idle, loadVars, txstVars, baseVars, copyVars, splitVars,
        diskVars

\* A call in progress: the run is being patched.
LEMMA Calling ==
  ASSUME Typing, todo # {} \/ cur # {} PROVE phase = "patching" /\ toAdd = {}
BY DEF Typing, Idle

LEMMA StartTyping == ASSUME Typing, NEW k, StartUse(k) PROVE Typing'
<1>1. k \in todo /\ k.model \in Models /\ k \in Asks[k.model] BY DEF Typing, TypeOK, StartUse
<1>2. phase = "patching" BY <1>1, Calling
<1>3. file' \in [Models -> Nat] BY <1>1, AskTyped DEF Typing, TypeOK, StartUse
<1> QED BY <1>1, <1>2, <1>3
    DEF Typing, TypeOK, StartUse, Idle, loadVars, txstVars, baseVars, splitVars, diskVars

LEMMA SkipTyping == ASSUME Typing, NEW k, SkipUse(k) PROVE Typing'
<1>1. k \in todo /\ k.model \in Models /\ k \in Asks[k.model] BY DEF Typing, TypeOK, SkipUse
<1>2. phase = "patching" /\ toAdd = {} BY <1>1, Calling
<1>3. modified' \subseteq Records
  BY <1>1, PluginAssumption DEF Typing, TypeOK, SkipUse
<1> QED BY <1>1, <1>2, <1>3
    DEF Typing, TypeOK, SkipUse, Idle, loadVars, txstVars, baseVars, splitVars, diskVars

\* The use in hand and its alternate textures.
LEMMA InHand ==
  ASSUME Typing, NEW k \in cur, NEW a \in left
  PROVE  /\ k.model \in Models /\ k \in Asks[k.model] /\ a \in Alts /\ ModelOf[a] = k.model
         /\ a \notin gone /\ phase = "patching" /\ toAdd = {}
         /\ index[a] \in Slots /\ id[a] \in 0..MaxFormID
BY Calling DEF Typing, TypeOK

LEMMA StaysTyped ==
  ASSUME Typing, NEW k \in cur, NEW a \in left, Stays(k, a)
  PROVE  NewIndex(k, a) \in Slots /\ Wanted(k, a) \in TextureSets
BY InHand, AskTyped DEF Stays, InAsk, NewIndex, Wanted

LEMMA AltTyping ==
  ASSUME Typing, NEW k, NEW a,
         OmitAlt(k, a) \/ RemoveAlt(k, a) \/ KeepTextures(k, a) \/ ReuseSet(k, a)
  PROVE  Typing'
<1>1. k \in cur /\ a \in left
  BY DEF OmitAlt, RemoveAlt, KeepTextures, ReuseSet, Differs, Stays, InAsk
<1>2. a \in Alts /\ phase = "patching" BY <1>1, InHand
<1>3. CASE OmitAlt(k, a)
  BY <1>2, <1>3 DEF Typing, TypeOK, OmitAlt, TakeAlt, Idle, loadVars, txstVars, baseVars, copyVars,
     splitVars, diskVars
<1>4. CASE RemoveAlt(k, a)
  BY <1>2, <1>4 DEF Typing, TypeOK, RemoveAlt, TakeAlt, Idle, loadVars, txstVars, baseVars,
     splitVars, diskVars
<1>5. CASE KeepTextures(k, a)
  <2>1. Stays(k, a) /\ MoveAlt(k, a) BY <1>5 DEF KeepTextures
  <2>2. index' \in [Alts -> Slots] /\ changed' \in BOOLEAN
    BY <1>1, <2>1, StaysTyped DEF Typing, TypeOK, MoveAlt
  <2> QED BY <1>2, <1>5, <2>2 DEF Typing, TypeOK, KeepTextures, TakeAlt, Idle, loadVars, txstVars,
      baseVars, splitVars, diskVars
<1>6. CASE ReuseSet(k, a)
  <2>1. Stays(k, a) BY <1>6 DEF ReuseSet, Differs
  <2>2. index' \in [Alts -> Slots] /\ id' \in [Alts -> 0..MaxFormID] /\ used' \subseteq TextureSets
    BY <1>1, <1>6, <2>1, StaysTyped DEF Typing, TypeOK, ReuseSet
  <2> QED BY <1>2, <1>6, <2>2 DEF Typing, TypeOK, ReuseSet, TakeAlt, Idle, loadVars, baseVars,
      splitVars, diskVars
<1> QED BY <1>3, <1>4, <1>5, <1>6

LEMMA NewSetTyping ==
  ASSUME Typing, NEW k, NEW a, NEW i \in FormIDs, NewSet(k, a, i)
  PROVE  Typing'
<1>1. k \in cur /\ a \in left /\ Stays(k, a) BY DEF NewSet, Differs, Stays, InAsk
<1>2. a \in Alts /\ phase = "patching" BY <1>1, InHand
<1>3. i \in 1..MaxFormID /\ i \in 0..MaxFormID BY PluginAssumption DEF FormIDs
<1>4. NewIndex(k, a) \in Slots /\ Wanted(k, a) \in TextureSets BY <1>1, StaysTyped
<1>5. /\ index' \in [Alts -> Slots] /\ id' \in [Alts -> 0..MaxFormID]
      /\ used' \subseteq TextureSets
      /\ sets' \in [FormIDs -> TextureSets \cup {Absent}]
      /\ idOf' \in [TextureSets -> 0..MaxFormID]
      /\ allocated' \subseteq FormIDs /\ lastUsed' \in 1..MaxFormID
  BY <1>3, <1>4 DEF Typing, TypeOK, NewSet
<1> QED BY <1>2, <1>5
    DEF Typing, TypeOK, NewSet, TakeAlt, Idle, loadVars, baseVars, splitVars, diskVars

LEMMA NoFormIDTyping == ASSUME Typing, NEW k, NEW a, NoFormID(k, a) PROVE Typing'
<1>1. k \in cur /\ a \in left /\ Stays(k, a) BY DEF NoFormID, Differs, Stays, InAsk
<1>2. a \in Alts /\ phase = "patching" /\ toAdd = {} BY <1>1, InHand
<1>3. NewIndex(k, a) \in Slots BY <1>1, StaysTyped
<1>4. index' \in [Alts -> Slots] /\ id' \in [Alts -> 0..MaxFormID] /\ file' \in [Models -> Nat]
      /\ gone' \subseteq Alts
  <2>1. CASE RecordOf[k.model] \in modified
    BY <1>3, <2>1 DEF Typing, TypeOK, NoFormID
  <2>2. CASE RecordOf[k.model] \notin modified
    <3> DEFINE of == {b \in Alts : ModelOf[b] = k.model}
    <3>1. /\ file' = [file EXCEPT ![k.model] = 0]
          /\ index' = [b \in Alts |-> IF b \in of THEN SlotOf[b] ELSE index[b]]
          /\ id' = [b \in Alts |-> IF b \in of THEN 0 ELSE id[b]]
          /\ gone' = gone \ of
      BY <2>2 DEF NoFormID
    <3> HIDE DEF of
    <3>2. \A b \in Alts : SlotOf[b] \in Slots /\ index[b] \in Slots /\ id[b] \in 0..MaxFormID
      BY PluginAssumption DEF Typing, TypeOK
    <3>3. 0 \in Nat /\ 0 \in 0..MaxFormID BY PluginAssumption
    <3> QED BY <3>1, <3>2, <3>3 DEF Typing, TypeOK
  <2> QED BY <2>1, <2>2
<1> QED BY <1>2, <1>4
    DEF Typing, TypeOK, NoFormID, Idle, loadVars, txstVars, baseVars, splitVars, diskVars

LEMMA EndTyping == ASSUME Typing, NEW k, EndUse(k) PROVE Typing'
<1>1. k \in cur /\ k.model \in Models /\ k \in Asks[k.model] BY DEF Typing, TypeOK, EndUse
<1>2. phase = "patching" /\ toAdd = {} BY <1>1, Calling
<1>3. modified' \subseteq Records
  BY <1>1, PluginAssumption DEF Typing, TypeOK, EndUse
<1> QED BY <1>1, <1>2, <1>3
    DEF Typing, TypeOK, EndUse, Idle, loadVars, txstVars, baseVars, splitVars, diskVars

LEMMA FinalizeTyping ==
  ASSUME Typing, FinalizeNothing \/ FinalizeMain \/ FinalizeEnds PROVE Typing'
<1>1. Idle /\ phase' \in {"saved", "failed", "adding"}
  BY DEF Typing, FinalizeNothing, FinalizeMain, FinalizeEnds, Outcome
<1>2. CASE FinalizeNothing
  BY <1>1, <1>2, InUseTyped
     DEF Typing, TypeOK, FinalizeNothing, Idle, loadVars, baseVars, copyVars, callVars, splitVars,
         diskVars
<1>3. CASE FinalizeMain
  BY <1>1, <1>3, InUseTyped
     DEF Typing, TypeOK, FinalizeMain, Idle, loadVars, baseVars, copyVars, callVars, diskVars
<1>4. CASE FinalizeEnds
  BY <1>1, <1>4
     DEF Typing, TypeOK, FinalizeEnds, Idle, loadVars, txstVars, baseVars, copyVars, callVars,
         splitVars, diskVars
<1> QED BY <1>2, <1>3, <1>4

LEMMA NeedsTyped ==
  ASSUME NEW r \in Records, NEW alts \in SUBSET AltRecord PROVE Needs(r, alts) \subseteq Names
BY PluginAssumption DEF Needs, Names, AltRecord

LEMMA AltTexturesTyped ==
  ASSUME Typing, NEW r PROVE AltTextures(r) \in SUBSET AltRecord
BY DEF Typing, TypeOK, AltTextures, AltRecord

\* The split plugin a record is added to, and how it grows.
Grows(i, r) ==
  /\ placed' = [placed EXCEPT ![r] = i]
  /\ \A j \in 1..Len(masters') : j # i => j \in 1..Len(masters) /\ masters'[j] = masters[j]
  /\ i \in 1..Len(masters) =>
       TakesRecord(i, r) /\ masters'[i] = masters[i] \cup curMasterList(r)
  /\ i \notin 1..Len(masters) => masters'[i] = curMasterList(r)

LEMMA Added ==
  ASSUME Typing, NEW r \in toAdd, AddRecord(r)
  PROVE  /\ r \in Records /\ masters' \in Seq(SUBSET Names) /\ Len(masters) <= Len(masters')
         /\ \E i \in 1..Len(masters') : Grows(i, r)
<1>1. PICK i \in 1..(Len(masters) + 1) :
        /\ placed' = [placed EXCEPT ![r] = i]
        /\ IF i \in 1..Len(masters)
           THEN /\ TakesRecord(i, r)
                /\ masters' = [masters EXCEPT ![i] = @ \cup curMasterList(r)]
           ELSE masters' = Append(masters, curMasterList(r))
  BY DEF AddRecord
<1>2. masters \in Seq(SUBSET Names) /\ r \in Records BY DEF Typing, TypeOK
<1>3. curMasterList(r) \in SUBSET Names
  BY <1>2, NeedsTyped, AltTexturesTyped DEF curMasterList
<1> HIDE DEF curMasterList
<1>4. CASE i \in 1..Len(masters)
  <2>1. masters[i] \cup curMasterList(r) \in SUBSET Names BY <1>2, <1>3, <1>4
  <2>2. masters' = [masters EXCEPT ![i] = masters[i] \cup curMasterList(r)]
    BY <1>1, <1>4
  <2>3. /\ masters' \in Seq(SUBSET Names) /\ Len(masters') = Len(masters)
        /\ \A j \in 1..Len(masters) :
             masters'[j] = IF j = i THEN masters[i] \cup curMasterList(r) ELSE masters[j]
    BY <1>2, <1>4, <2>1, <2>2, ExceptSeq
  <2>4. Grows(i, r) BY <1>1, <1>4, <2>3 DEF Grows
  <2> QED BY <1>2, <1>4, <2>3, <2>4
<1>5. CASE i = Len(masters) + 1
  <2>1. masters' = Append(masters, curMasterList(r)) BY <1>1, <1>2, <1>5
  <2>2. /\ masters' \in Seq(SUBSET Names) /\ Len(masters') = Len(masters) + 1
        /\ \A j \in 1..Len(masters) : masters'[j] = masters[j]
        /\ masters'[Len(masters) + 1] = curMasterList(r)
    BY <1>2, <1>3, <2>1
  <2>3. Len(masters) \in Nat BY <1>2
  <2>4. Grows(i, r) BY <1>1, <1>5, <2>2, <2>3 DEF Grows
  <2> QED BY <1>2, <1>5, <2>2, <2>3, <2>4
<1>6. i \in 1..Len(masters) \/ i = Len(masters) + 1 BY <1>2
<1> QED BY <1>4, <1>5, <1>6

LEMMA AddTyping == ASSUME Typing, NEW r \in toAdd, AddRecord(r) PROVE Typing'
<1>1. PICK i \in 1..Len(masters') :
        /\ r \in Records /\ placed' = [placed EXCEPT ![r] = i]
        /\ masters' \in Seq(SUBSET Names) /\ Len(masters) <= Len(masters')
  BY Added DEF Grows
<1>2. Len(masters) \in Nat /\ Len(masters') \in Nat BY <1>1 DEF Typing
<1>3. placed' \in [Records -> 0..Len(masters')] BY <1>1, <1>2 DEF Typing, TypeOK
<1> QED BY <1>1, <1>3
    DEF Typing, TypeOK, AddRecord, Idle, loadVars, txstVars, baseVars, copyVars, callVars, diskVars

LEMMA SplitTyped ==
  ASSUME Typing, NEW i \in 1..Len(masters) PROVE SplitOf(i) \in Splits
<1>1. masters[i] \cup ExtraMasters \in SUBSET Names /\ RecordsIn(i) \in SUBSET Records
  BY DEF Typing, RecordsIn, ExtraMasters, Names
<1>2. UNION {AltTextures(r) : r \in RecordsIn(i)} \in SUBSET AltRecord
  BY AltTexturesTyped
<1> DEFINE D == UNION {GetModelElems(r) : r \in RecordsIn(i)}
<1>3. D \subseteq Models /\ [m \in D |-> file[m]] \in [D -> Nat]
  BY DEF Typing, TypeOK, GetModelElems
<1>4. [m \in D |-> file[m]] \in UNION {[S -> Nat] : S \in SUBSET Models} BY <1>3
<1> HIDE DEF D
<1> QED BY <1>1, <1>2, <1>4 DEF SplitOf, Splits, D

LEMMA WriteTyping == ASSUME Typing, WriteSplit PROVE Typing'
<1>1. Len(split) + 1 \in 1..Len(masters) BY DEF Typing, WriteSplit
<1>2. SplitOf(Len(split) + 1) \in Splits BY <1>1, SplitTyped
<1>3. split' \in Seq(Splits) BY <1>2 DEF Typing, WriteSplit
<1> QED BY <1>3
    DEF Typing, TypeOK, WriteSplit, Idle, loadVars, txstVars, baseVars, copyVars, callVars,
        splitVars

LEMMA RestartTyping == ASSUME Typing, Restart PROVE Typing'
<1>1. /\ sets' = NoSets /\ base' = NoSets /\ idOf' = NoIDs /\ main' = main /\ split' = split
      /\ phase' = "loading" /\ loaded' = 0
      /\ index' = SlotOf /\ id' = [a \in Alts |-> 0] /\ file' = [m \in Models |-> 0]
      /\ placed' = [r \in Records |-> 0] /\ masters' = <<>>
  BY DEF Restart, diskVars
<1>2. /\ index' \in [Alts -> Slots] /\ id' \in [Alts -> 0..MaxFormID] /\ file' \in [Models -> Nat]
      /\ 1 \in 1..MaxFormID /\ loaded' \in 0..Len(LoadOrder)
      /\ placed' \in [Records -> 0..Len(masters')]
  BY <1>1, PluginAssumption
<1>3. masters' \in Seq(SUBSET Names) BY <1>1
<1> QED BY <1>1, <1>2, <1>3, StartTyped DEF Restart, Typing, TypeOK, Idle

LEMMA TypingStep == ASSUME Typing, [Next]_vars PROVE Typing'
<1>1. CASE Next
  BY <1>1, LoadTyping, PopulateTyping, ResetTyping, SetUsesTyping, StartTyping, SkipTyping,
     AltTyping, NewSetTyping, NoFormIDTyping, EndTyping, FinalizeTyping, AddTyping, WriteTyping,
     RestartTyping
     DEF Next, ChangeUse
<1>2. CASE UNCHANGED vars
  BY <1>2 DEF Typing, TypeOK, Idle, vars, loadVars, txstVars, baseVars, copyVars, callVars,
     splitVars, diskVars
<1> QED BY <1>1, <1>2

-----------------------------------------------------------------------------
(* The load order *)

\* Only LoadPlugin and Restart change what was loaded.
LEMMA LoadedOnce ==
  ASSUME [Next]_vars, ~LoadPlugin, ~Restart
  PROVE  UNCHANGED <<install, loaded, kept, bad>>
<1> USE DEF loadVars
<1>1. PopulateObjs \/ ResetPatchingState \/ (\E x : SetModelUses(x))
        => UNCHANGED <<install, loaded, kept, bad>>
  BY DEF PopulateObjs, ResetPatchingState, SetModelUses
<1>2. ChangeUse => UNCHANGED <<install, loaded, kept, bad>>
  BY DEF ChangeUse, StartUse, SkipUse, OmitAlt, RemoveAlt, KeepTextures, ReuseSet, NewSet,
     NoFormID, EndUse
<1>3. FinalizeNothing \/ FinalizeMain \/ (\E r : AddRecord(r)) \/ WriteSplit \/ FinalizeEnds
        => UNCHANGED <<install, loaded, kept, bad>>
  BY DEF FinalizeNothing, FinalizeMain, AddRecord, WriteSplit, FinalizeEnds
<1> QED BY <1>1, <1>2, <1>3 DEF Next, vars

LEMMA LoadStep == ASSUME Typing, LoadInv, [Next]_vars PROVE LoadInv'
<1>1. CASE LoadPlugin
  <2> DEFINE p == LoadOrder[loaded + 1]
             missing == {q \in PluginMasters[p] : q \notin install.there \/ q \in bad}
  <2>1. p \in Plugins /\ loaded \in Nat /\ loaded + 1 \in 1..Len(LoadOrder)
        /\ loaded' = loaded + 1 /\ install' = install
    BY <1>1, PluginAssumption DEF Typing, LoadPlugin
  <2>2. \/ p \notin install.there /\ kept' = kept /\ bad' = bad
        \/ p \in install.there /\ bad' = bad \cup {p} /\ kept' = kept
        \/ p \in install.there /\ bad' = bad \cup missing \cup {p} /\ kept' = kept
        \/ p \in install.there /\ missing = {} /\ kept' = kept \cup {p} /\ bad' = bad
    BY <1>1 DEF LoadPlugin
  <2>3. \A j \in 1..(loaded + 1) : j \in 1..loaded \/ j = loaded + 1 BY <2>1
  <2>4. \A q \in kept' : \E j \in 1..loaded' : LoadOrder[j] = q
    <3>1. loaded + 1 \in 1..(loaded + 1) /\ \A j \in 1..loaded : j \in 1..(loaded + 1) BY <2>1
    <3> QED BY <2>1, <2>2, <3>1 DEF LoadInv
  <2>5. \A j \in 1..loaded' : LoadOrder[j] \in install.there => LoadOrder[j] \in kept' \cup bad'
    BY <2>1, <2>2, <2>3 DEF LoadInv
  <2>6. ASSUME NEW i \in 1..loaded', NEW j \in 1..loaded', j < i, LoadOrder[i] \in kept',
               LoadOrder[j] \in PluginMasters[LoadOrder[i]]
        PROVE  LoadOrder[j] \in kept'
    <3>1. CASE LoadOrder[i] \in kept
      <4>1. PICK h \in 1..loaded : LoadOrder[h] = LoadOrder[i] BY <3>1 DEF LoadInv
      <4>2. h = i
        <5>1. h \in 1..Len(LoadOrder) /\ i \in 1..Len(LoadOrder)
          BY <2>1, <2>6, PluginAssumption DEF Typing
        <5> QED BY <4>1, <5>1, PluginAssumption
      <4>3. i \in 1..loaded /\ j \in 1..loaded BY <2>1, <2>6, <4>2
      <4> QED BY <2>2, <2>6, <3>1, <4>3 DEF LoadInv, MastersLoaded
    <3>2. CASE LoadOrder[i] \notin kept
      <4>1. missing = {} /\ LoadOrder[i] = p /\ kept \subseteq kept' BY <2>2, <2>6, <3>2
      <4>2. i = loaded + 1
        BY <2>1, <4>1, PluginAssumption DEF Typing
      <4>3. j \in 1..loaded BY <2>1, <2>6, <4>2
      <4>4. LoadOrder[j] \in install.there /\ LoadOrder[j] \notin bad BY <2>6, <4>1
      <4> QED BY <4>1, <4>3, <4>4 DEF LoadInv
    <3> QED BY <3>1, <3>2
  <2> HIDE DEF p, missing
  <2> QED BY <2>1, <2>4, <2>5, <2>6 DEF LoadInv, MastersLoaded
<1>2. CASE Restart
  <2>1. loaded' = 0 /\ kept' = {} BY <1>2 DEF Restart
  <2>2. 1..loaded' = {} BY <2>1
  <2> QED BY <2>1, <2>2 DEF LoadInv, MastersLoaded
<1>3. CASE ~LoadPlugin /\ ~Restart
  BY <1>3, LoadedOnce DEF LoadInv, MastersLoaded
<1> QED BY <1>1, <1>2, <1>3

-----------------------------------------------------------------------------
(* The texture sets *)

\* Removing the unused texture sets leaves those the records refer to.
LEMMA InUseKept ==
  ASSUME Typing, SetInv, phase = "patching"
  PROVE  /\ \A i \in FormIDs : InUse[i] = sets[i] \/ InUse[i] = Absent
         /\ \A a \in Alts : id[a] # 0 => InUse[id[a]] = sets[id[a]]
         /\ IDs(InUse) \subseteq IDs(sets) /\ NoTwins(InUse)
         /\ \A i \in IDs(InUse) : InUse[i] = sets[i]
<1>1. \A i \in FormIDs : InUse[i] = sets[i] \/ InUse[i] = Absent BY DEF InUse
<1>2. ASSUME NEW a \in Alts, id[a] # 0 PROVE InUse[id[a]] = sets[id[a]]
  <2>1. id[a] \in FormIDs BY <1>2, PluginAssumption DEF Typing, TypeOK, FormIDs
  <2>2. sets[id[a]] \in used BY <1>2 DEF SetInv
  <2>3. \A t \in TextureSets \ used : idOf[t] # id[a] BY <1>2, <2>2 DEF SetInv
  <2> QED BY <2>1, <2>3 DEF InUse
<1>3. IDs(InUse) \subseteq IDs(sets) /\ \A i \in IDs(InUse) : InUse[i] = sets[i]
  BY <1>1 DEF IDs
<1>4. NoTwins(InUse) BY <1>3 DEF NoTwins, SetInv
<1> QED BY <1>1, <1>2, <1>3, <1>4

\* Only these steps change the texture sets or what refers to them.
LEMMA SetsOnce ==
  ASSUME [Next]_vars, ~PopulateObjs, ~ResetPatchingState, ~\E k, a : ReuseSet(k, a),
         ~\E k, a : \E i \in FormIDs : NewSet(k, a, i), ~\E k, a : NoFormID(k, a),
         ~FinalizeNothing, ~FinalizeMain, ~Restart
  PROVE  /\ UNCHANGED <<sets, idOf, used, allocated, lastUsed, base, main, id>>
         /\ phase' = phase \/ phase' \in {"saved", "failed"}
BY DEF vars, txstVars, baseVars, copyVars, diskVars, Next, LoadPlugin, SetModelUses, ChangeUse,
   StartUse, SkipUse, OmitAlt, RemoveAlt, KeepTextures, EndUse, AddRecord, WriteSplit,
   FinalizeEnds, Outcome

LEMMA SetStep == ASSUME Typing, SetInv, DiskInv, [Next]_vars PROVE SetInv'
<1>0. /\ {sets, base, main} \subseteq [FormIDs -> TextureSets \cup {Absent}]
      /\ used \subseteq TextureSets /\ id \in [Alts -> 0..MaxFormID]
      /\ idOf \in [TextureSets -> 0..MaxFormID] /\ Absent \notin TextureSets
  BY PluginAssumption DEF Typing, TypeOK
<1>1. CASE PopulateObjs
  <2>1. /\ sets' = main /\ base' = main /\ main' = main /\ idOf' = Cache(main) /\ used' = {}
        /\ allocated' = IDs(main) /\ id' = id /\ phase = "loading" /\ phase' = "ready"
    BY <1>1 DEF PopulateObjs, SavePatchingBaseline, diskVars, copyVars
  <2>2. NoTwins(main) BY DEF SetInv
  <2>3. /\ \A t \in TextureSets : Cache(main)[t] # 0 => main[Cache(main)[t]] = t
        /\ \A i \in IDs(main) : Cache(main)[main[i]] = i
    BY <1>0, <2>2, CacheTyped
  <2> QED BY <2>1, <2>2, <2>3 DEF SetInv, OldIDsKept, NoTwins, IDs
<1>2. CASE ResetPatchingState
  <2>1. /\ sets' = base /\ base' = base /\ main' = NoSets /\ idOf' = Cache(base) /\ used' = {}
        /\ allocated' = IDs(base) /\ id' = [a \in Alts |-> 0] /\ phase' = "patching"
    BY <1>2 DEF ResetPatchingState, baseVars
  <2>2. NoTwins(base) BY DEF SetInv
  <2>3. /\ \A t \in TextureSets : Cache(base)[t] # 0 => base[Cache(base)[t]] = t
        /\ \A i \in IDs(base) : Cache(base)[base[i]] = i
    BY <1>0, <2>2, CacheTyped
  <2>4. IDs(NoSets) = {} BY DEF IDs, NoSets
  <2>5. NoTwins(NoSets) BY <2>4 DEF NoTwins
  <2> QED BY <2>1, <2>2, <2>3, <2>4, <2>5 DEF SetInv, OldIDsKept, NoTwins, IDs
<1>3. ASSUME NEW k, NEW a, ReuseSet(k, a) PROVE SetInv'
  <2>1. k \in cur /\ a \in left /\ Stays(k, a)
    BY <1>3 DEF ReuseSet, Differs, Stays, InAsk
  <2>2. a \in Alts /\ phase = "patching" /\ Wanted(k, a) \in TextureSets
    BY <2>1, InHand, StaysTyped
  <2> DEFINE t == Wanted(k, a)
  <2>3. /\ id' = [id EXCEPT ![a] = idOf[t]] /\ used' = used \cup {t} /\ idOf[t] # 0
        /\ UNCHANGED <<sets, idOf, allocated, base, main, phase>>
    BY <1>3 DEF ReuseSet, baseVars, diskVars
  <2> HIDE DEF t
  <2>4. \A b \in Alts : id'[b] # 0 => sets[id'[b]] \in used'
    <3> SUFFICES ASSUME NEW b \in Alts, id'[b] # 0 PROVE sets[id'[b]] \in used' OBVIOUS
    <3>1. CASE b = a BY <1>0, <2>2, <2>3, <3>1 DEF SetInv, t
    <3>2. CASE b # a BY <1>0, <2>2, <2>3, <3>2 DEF SetInv
    <3> QED BY <3>1, <3>2
  <2>5. \A u \in used' : idOf[u] # 0 BY <2>2, <2>3 DEF SetInv
  <2> QED BY <2>2, <2>3, <2>4, <2>5 DEF SetInv, OldIDsKept, NoTwins, IDs
<1>4. ASSUME NEW k, NEW a, NEW i \in FormIDs, NewSet(k, a, i) PROVE SetInv'
  <2>1. k \in cur /\ a \in left /\ Stays(k, a)
    BY <1>4 DEF NewSet, Differs, Stays, InAsk
  <2> DEFINE t == Wanted(k, a)
  <2>2. a \in Alts /\ phase = "patching" /\ t \in TextureSets
    BY <2>1, InHand, StaysTyped
  <2>3. /\ id' = [id EXCEPT ![a] = i] /\ used' = used \cup {t} /\ idOf[t] = 0
        /\ sets' = [sets EXCEPT ![i] = t] /\ idOf' = [idOf EXCEPT ![t] = i]
        /\ allocated' = allocated \cup {i} /\ i \notin allocated
        /\ UNCHANGED <<base, main, phase>>
    BY <1>4 DEF NewSet, Available, baseVars, diskVars
  <2>4. i \in 1..MaxFormID /\ i # 0 BY PluginAssumption DEF FormIDs
  <2> HIDE DEF t
  <2>5. sets[i] = Absent /\ base[i] = Absent BY <2>3 DEF SetInv, IDs
  <2>6. \A j \in FormIDs : sets'[j] = IF j = i THEN t ELSE sets[j] BY <1>0, <2>3
  <2>7. IDs(sets') = IDs(sets) \cup {i} BY <1>0, <2>2, <2>6 DEF IDs
  <2>8. \A j \in IDs(sets) : sets[j] # t /\ j # i
    BY <2>2, <2>3, <2>4, <2>5 DEF SetInv, IDs, FormIDs
  <2>9. NoTwins(sets') BY <2>6, <2>7, <2>8 DEF NoTwins, SetInv, IDs
  <2>10. \A u \in TextureSets : idOf'[u] = IF u = t THEN i ELSE idOf[u] BY <1>0, <2>2, <2>3
  <2>11. \A u \in TextureSets : idOf'[u] # 0 => sets'[idOf'[u]] = u
    <3> SUFFICES ASSUME NEW u \in TextureSets, idOf'[u] # 0 PROVE sets'[idOf'[u]] = u OBVIOUS
    <3>1. CASE u = t BY <2>6, <2>10, <3>1
    <3>2. CASE u # t
      <4>1. idOf[u] # 0 /\ idOf[u] \in FormIDs /\ idOf'[u] = idOf[u] /\ sets[idOf[u]] = u
        BY <1>0, <2>2, <2>10, <3>2, PluginAssumption DEF SetInv, FormIDs
      <4> QED BY <1>0, <2>5, <2>6, <4>1
    <3> QED BY <3>1, <3>2
  <2>12. \A j \in IDs(sets') : idOf'[sets'[j]] = j
    <3> SUFFICES ASSUME NEW j \in IDs(sets') PROVE idOf'[sets'[j]] = j OBVIOUS
    <3>1. CASE j = i BY <2>2, <2>6, <2>10, <3>1
    <3>2. CASE j # i
      <4>1. j \in IDs(sets) /\ sets'[j] = sets[j] BY <2>6, <2>7, <3>2 DEF IDs
      <4>2. sets[j] \in TextureSets /\ sets[j] # t BY <1>0, <2>8, <4>1 DEF IDs
      <4> QED BY <2>2, <2>10, <4>1, <4>2 DEF SetInv
    <3> QED BY <3>1, <3>2
  <2>13. \A u \in used' : idOf'[u] # 0
    BY <1>0, <2>2, <2>3, <2>4, <2>10 DEF SetInv
  <2>14. \A b \in Alts : id'[b] # 0 => sets'[id'[b]] \in used'
    <3> SUFFICES ASSUME NEW b \in Alts, id'[b] # 0 PROVE sets'[id'[b]] \in used' OBVIOUS
    <3>1. CASE b = a
      <4>1. id'[b] = i BY <1>0, <2>2, <2>3, <3>1
      <4> QED BY <2>3, <2>6, <4>1
    <3>2. CASE b # a
      <4>1. id'[b] = id[b] /\ id[b] \in FormIDs /\ sets[id[b]] \in used
        BY <1>0, <2>2, <2>3, <3>2, PluginAssumption DEF SetInv, FormIDs
      <4> QED BY <1>0, <2>3, <2>5, <2>6, <4>1
    <3> QED BY <3>1, <3>2
  <2>15. \A j \in IDs(sets') \cap IDs(base) : sets'[j] = base[j]
    BY <2>5, <2>6, <2>7 DEF SetInv, IDs
  <2>16. IDs(sets') \subseteq allocated' BY <2>3, <2>7 DEF SetInv
  <2> QED BY <2>2, <2>3, <2>9, <2>11, <2>12, <2>13, <2>14, <2>15, <2>16
      DEF SetInv, OldIDsKept, NoTwins, IDs
<1>5. ASSUME NEW k, NEW a, NoFormID(k, a) PROVE SetInv'
  <2>1. UNCHANGED <<sets, idOf, used, allocated, base, main, phase>>
    BY <1>5 DEF NoFormID, txstVars, baseVars, diskVars
  <2>2. \A b \in Alts : id'[b] # 0 => id'[b] = id[b]
    BY <1>5 DEF NoFormID
  <2>3. k \in cur /\ a \in left BY <1>5 DEF NoFormID, Differs, Stays, InAsk
  <2>4. phase = "patching" BY <2>3, InHand
  <2> QED BY <2>1, <2>2, <2>4 DEF SetInv, OldIDsKept, NoTwins, IDs
<1>6. CASE FinalizeNothing \/ FinalizeMain
  <2>1. /\ sets' = InUse /\ main' \in {main, InUse} /\ phase = "patching"
        /\ phase' \in {"adding", "saved", "failed"}
        /\ UNCHANGED <<used, allocated, base, id>>
    BY <1>6 DEF FinalizeNothing, FinalizeMain, Outcome, baseVars, copyVars, diskVars
  <2>2. /\ \A a \in Alts : id[a] # 0 => InUse[id[a]] = sets[id[a]]
        /\ IDs(InUse) \subseteq IDs(sets) /\ NoTwins(InUse)
        /\ \A i \in IDs(InUse) : InUse[i] = sets[i]
    BY <2>1, InUseKept
  <2> QED BY <2>1, <2>2 DEF SetInv, OldIDsKept, NoTwins, IDs
<1>7. CASE Restart
  <2>1. /\ sets' = NoSets /\ base' = NoSets /\ main' = main /\ allocated' = {}
        /\ id' = [a \in Alts |-> 0] /\ phase' = "loading"
    BY <1>7 DEF Restart, diskVars
  <2>2. IDs(NoSets) = {} BY DEF IDs, NoSets
  <2> QED BY <2>1, <2>2 DEF SetInv, OldIDsKept, NoTwins, IDs
<1>8. CASE UNCHANGED <<sets, idOf, used, allocated, base, main, id>>
           /\ (phase' = phase \/ phase' \in {"saved", "failed"})
  BY <1>8 DEF SetInv, OldIDsKept, NoTwins, IDs
<1> QED BY <1>1, <1>2, <1>3, <1>4, <1>5, <1>6, <1>7, <1>8, SetsOnce

-----------------------------------------------------------------------------
(* The plugins in the output directory *)

\* A call changes neither the phase nor anything about the output.
LEMMA CallFrame ==
  ASSUME Typing, (\E x : SetModelUses(x)) \/ ChangeUse
  PROVE  /\ phase = "patching" /\ phase' = "patching"
         /\ UNCHANGED <<base, main, split, masters, placed, toAdd>>
<1>1. phase = "patching"
  BY Calling DEF SetModelUses, ChangeUse
<1>2. (\E x : SetModelUses(x)) => UNCHANGED <<phase, base, main, split, masters, placed, toAdd>>
  BY DEF SetModelUses, baseVars, diskVars, splitVars
<1>3. ChangeUse => UNCHANGED <<phase, base, main, split, masters, placed, toAdd>>
  BY DEF ChangeUse, StartUse, SkipUse, OmitAlt, RemoveAlt, KeepTextures, ReuseSet, NewSet,
     NoFormID, EndUse, baseVars, diskVars, splitVars
<1> QED BY <1>1, <1>2, <1>3

LEMMA DiskStep == ASSUME Typing, SetInv, DiskInv, [Next]_vars PROVE DiskInv'
<1>1. CASE LoadPlugin
  BY <1>1 DEF DiskInv, LoadPlugin, baseVars, diskVars, txstVars, NoSets
<1>2. CASE PopulateObjs
  BY <1>2 DEF DiskInv, PopulateObjs, SavePatchingBaseline, diskVars
<1>3. CASE ResetPatchingState
  BY <1>3 DEF DiskInv, ResetPatchingState, NoSets
<1>4. CASE (\E x : SetModelUses(x)) \/ ChangeUse
  BY <1>4, CallFrame DEF DiskInv, NoSets
<1>5. CASE FinalizeNothing
  <2>1. /\ main' = main /\ sets' = InUse /\ phase = "patching" /\ phase' \in {"saved", "failed"}
        /\ IDs(InUse) = {}
    BY <1>5 DEF FinalizeNothing, Outcome, diskVars
  <2>2. InUse = NoSets BY <2>1 DEF IDs, InUse, NoSets
  <2> QED BY <2>1, <2>2 DEF DiskInv
<1>6. CASE FinalizeMain
  BY <1>6 DEF DiskInv, FinalizeMain
<1>7. CASE (\E r : AddRecord(r)) \/ WriteSplit \/ FinalizeEnds
  <2>1. phase = "adding" /\ phase' \in {"adding", "saved", "failed"} /\ UNCHANGED <<main, sets>>
    BY <1>7 DEF AddRecord, WriteSplit, FinalizeEnds, Outcome, txstVars, diskVars
  <2> QED BY <2>1 DEF DiskInv
<1>8. CASE Restart
  BY <1>8 DEF DiskInv, Restart, NoSets
<1>9. CASE UNCHANGED vars
  BY <1>9 DEF DiskInv, vars, baseVars, diskVars, txstVars, NoSets
<1> QED BY <1>1, <1>2, <1>3, <1>4, <1>5, <1>6, <1>7, <1>8, <1>9 DEF Next

\* Nothing has been added to a split plugin.
LEMMA NothingAdded ==
  ASSUME masters' = <<>>, placed' \in [Records -> 0..Len(masters')], toAdd' = {},
         \/ phase' \in {"loading", "ready", "patching"}
         \/ phase' \in {"saved", "failed"} /\ split' = <<>> /\ modified' = {}
  PROVE  SplitInv'
<1>1. Len(masters') = 0 OBVIOUS
<1>2. \A r \in Records : placed'[r] = 0 BY <1>1
<1>3. 1..Len(masters') = {} BY <1>1
<1>4. split' = <<>> => Len(split') = 0 /\ 1..Len(split') = {} OBVIOUS
<1> QED BY <1>1, <1>2, <1>3, <1>4 DEF SplitInv

LEMMA AddSplit == ASSUME Typing, SplitInv, NEW r \in toAdd, AddRecord(r) PROVE SplitInv'
<1>1. PICK i \in 1..Len(masters') : Grows(i, r) BY Added
<1>2. /\ r \in Records /\ Len(masters) <= Len(masters') /\ r \in modified /\ split = <<>>
      /\ phase = "adding" /\ phase' = "adding" /\ toAdd' = toAdd \ {r} /\ r \notin Uncopied
      /\ UNCHANGED <<index, id, gone, modified, split>>
  BY Added DEF Typing, TypeOK, SplitInv, AddRecord, copyVars, diskVars
<1>3. \A q : curMasterList(q)' = curMasterList(q)
  BY <1>2 DEF curMasterList, Needs, AltTextures
<1>4. placed[r] = 0 /\ placed \in [Records -> 0..Len(masters)] /\ Len(masters) \in Nat
      /\ Len(masters') \in Nat
  BY Added DEF Typing, TypeOK, SplitInv
<1>5. /\ \A q \in Records : placed'[q] = IF q = r THEN i ELSE placed[q]
      /\ \A j \in 1..Len(masters') : j # i => j \in 1..Len(masters) /\ masters'[j] = masters[j]
      /\ i \in 1..Len(masters) =>
           TakesRecord(i, r) /\ masters'[i] = masters[i] \cup curMasterList(r)
      /\ i \notin 1..Len(masters) => masters'[i] = curMasterList(r)
  BY <1>1, <1>4 DEF Grows
<1> HIDE DEF curMasterList
<1>6. ASSUME NEW q \in Records, placed'[q] # 0
      PROVE  q \in modified /\ curMasterList(q) \subseteq masters'[placed'[q]]
  <2>1. CASE q = r BY <1>2, <1>5, <2>1
  <2>2. CASE q # r
    <3>1. placed'[q] = placed[q] /\ placed[q] \in 1..Len(masters) /\ placed[q] \in 1..Len(masters')
      BY <1>2, <1>4, <1>5, <1>6, <2>2
    <3>2. q \in modified /\ curMasterList(q) \subseteq masters[placed[q]]
      BY <1>6, <3>1 DEF SplitInv
    <3>3. masters[placed[q]] \subseteq masters'[placed[q]] BY <1>5, <3>1
    <3> QED BY <3>1, <3>2, <3>3
  <2> QED BY <2>1, <2>2
<1>7. ASSUME NEW j \in 1..Len(masters')
      PROVE  /\ \E q \in Records : placed'[q] = j
             /\ \A x \in masters'[j] :
                  \E q \in Records : placed'[q] = j /\ x \in curMasterList(q)
             /\ \/ Cardinality(masters'[j]) < MaxMasters
                \/ \E q \in Records : placed'[q] = j /\ masters'[j] = curMasterList(q)
  <2>1. CASE j # i
    <3>1. j \in 1..Len(masters) /\ masters'[j] = masters[j] /\ j # 0 BY <1>5, <2>1
    <3>2. Justified(j) BY <3>1 DEF SplitInv
    <3>3. \A q \in Records : placed[q] = j => placed'[q] = j BY <1>4, <1>5, <3>1
    <3> QED BY <3>1, <3>2, <3>3 DEF Justified
  <2>2. CASE j = i /\ j \notin 1..Len(masters)
    BY <1>2, <1>5, <2>2
  <2>3. CASE j = i /\ j \in 1..Len(masters) /\ HasMasters(i, r)
    <3>1. masters'[i] = masters[i] BY <1>5, <2>3 DEF HasMasters
    <3>2. Justified(i) /\ i # 0 BY <2>3 DEF SplitInv
    <3>3. \A q \in Records : placed[q] = i => placed'[q] = i BY <1>4, <1>5, <3>2
    <3> QED BY <2>3, <3>1, <3>2, <3>3 DEF Justified
  <2>4. CASE j = i /\ j \in 1..Len(masters) /\ ~HasMasters(i, r)
    <3>1. Justified(i) /\ i # 0 BY <2>4 DEF SplitInv
    <3>2. \A q \in Records : placed[q] = i => placed'[q] = i BY <1>4, <1>5, <3>1
    <3>3. masters'[i] = masters[i] \cup curMasterList(r) BY <1>5, <2>4
    <3>4. Cardinality(masters'[i]) < MaxMasters BY <1>5, <2>4, <3>3 DEF TakesRecord
    <3>5. \A x \in masters'[i] :
            \E q \in Records : placed'[q] = i /\ x \in curMasterList(q)
      BY <1>2, <1>5, <3>1, <3>2, <3>3 DEF Justified
    <3> QED BY <2>4, <3>1, <3>2, <3>4, <3>5 DEF Justified
  <2> QED BY <2>1, <2>2, <2>3, <2>4
<1>8. \A q \in toAdd' : placed'[q] = 0
  BY <1>2, <1>5 DEF SplitInv, Typing, TypeOK
<1>9. \A q \in modified \ Uncopied : q \in toAdd' \/ placed'[q] # 0
  BY <1>2, <1>5 DEF SplitInv, Typing, TypeOK
<1>10. Len(split) = 0 /\ 1..Len(split) = {} BY <1>2
<1> QED BY <1>2, <1>3, <1>4, <1>6, <1>7, <1>8, <1>9, <1>10 DEF SplitInv, Justified

\* What is written does not change while it is written.
LEMMA SameSplits ==
  ASSUME UNCHANGED <<main, masters, placed, file, index, id, gone>>
  PROVE  /\ \A r : curMasterList(r)' = curMasterList(r)
         /\ \A i : SplitOf(i)' = SplitOf(i)
         /\ \A i : Justified(i)' = Justified(i)
<1>1. \A r : AltTextures(r)' = AltTextures(r) BY DEF AltTextures
<1>2. \A r : curMasterList(r)' = curMasterList(r) BY <1>1 DEF curMasterList, Needs
<1>3. \A i : RecordsIn(i)' = RecordsIn(i) BY DEF RecordsIn
<1>4. ExtraMasters' = ExtraMasters BY DEF ExtraMasters, IDs
<1> QED BY <1>1, <1>2, <1>3, <1>4 DEF SplitOf, Justified

LEMMA SplitStep == ASSUME Typing, DiskInv, SplitInv, [Next]_vars PROVE SplitInv'
<1>0. masters \in Seq(SUBSET Names) /\ split \in Seq(Splits)
      /\ placed \in [Records -> 0..Len(masters)]
  BY DEF Typing, TypeOK
<1>1. Typing' BY TypingStep
<1>2. placed' \in [Records -> 0..Len(masters')] BY <1>1 DEF Typing, TypeOK
<1>3. CASE LoadPlugin \/ PopulateObjs
  <2>1. /\ phase' \in {"loading", "ready"} /\ masters' = <<>> /\ toAdd' = {}
    BY <1>3 DEF LoadPlugin, PopulateObjs, splitVars, SplitInv, Typing
  <2> QED BY <1>2, <2>1, NothingAdded, <1>1
<1>4. CASE ResetPatchingState
  <2>1. phase' = "patching" /\ masters' = <<>> /\ toAdd' = {}
    BY <1>4 DEF ResetPatchingState, Typing
  <2> QED BY <1>2, <2>1, NothingAdded
<1>5. CASE (\E x : SetModelUses(x)) \/ ChangeUse
  <2>1. phase' = "patching" /\ masters' = <<>> /\ toAdd' = {}
    BY <1>5, CallFrame DEF SplitInv, Typing
  <2> QED BY <1>2, <2>1, NothingAdded
<1>6. CASE FinalizeNothing
  <2>1. /\ phase' \in {"saved", "failed"} /\ masters' = <<>> /\ toAdd' = {} /\ split' = <<>>
        /\ modified' = {}
    BY <1>6 DEF FinalizeNothing, Outcome, SplitInv, DiskInv, Typing, copyVars, splitVars, diskVars
  <2> QED BY <1>2, <2>1, NothingAdded
<1>7. CASE FinalizeMain
  <2>1. /\ phase' = "adding" /\ masters' = <<>> /\ split' = <<>> /\ toAdd' = modified' \ Uncopied
        /\ UNCHANGED <<placed, modified>>
    BY <1>7 DEF FinalizeMain, SplitInv, DiskInv, copyVars
  <2>2. Len(masters') = 0 /\ Len(split') = 0 /\ 1..Len(masters') = {} /\ 1..Len(split') = {}
    BY <2>1
  <2>3. \A r \in Records : placed'[r] = 0 BY <1>2, <2>2
  <2>4. modified' \subseteq Records BY <1>1 DEF Typing, TypeOK
  <2> QED BY <2>1, <2>2, <2>3, <2>4 DEF SplitInv
<1>8. CASE \E r \in toAdd : AddRecord(r)
  BY <1>8, AddSplit
<1>9. CASE WriteSplit
  <2>1. /\ phase = "adding" /\ phase' = "adding" /\ toAdd = {} /\ toAdd' = {}
        /\ Len(split) < Len(masters) /\ split' = Append(split, SplitOf(Len(split) + 1))
        /\ UNCHANGED <<main, masters, placed, modified, file, index, id, gone>>
    BY <1>9 DEF WriteSplit, copyVars, splitVars
  <2>2. /\ Len(split') = Len(split) + 1 /\ Len(split) \in Nat /\ Len(masters) \in Nat
        /\ \A j \in 1..Len(split) : split'[j] = split[j]
        /\ split'[Len(split) + 1] = SplitOf(Len(split) + 1)
    BY <1>0, <2>1
  <2>3. \A j \in 1..Len(split') : split'[j] = SplitOf(j)
    <3> TAKE j \in 1..Len(split')
    <3>1. j \in 1..Len(split) \/ j = Len(split) + 1 BY <2>2
    <3> QED BY <2>1, <2>2, <3>1 DEF SplitInv
  <2> QED BY <2>1, <2>2, <2>3, SameSplits DEF SplitInv
<1>10. CASE FinalizeEnds
  <2>1. /\ phase = "adding" /\ phase' \in {"saved", "failed"} /\ toAdd = {} /\ toAdd' = {}
        /\ Len(split) = Len(masters)
        /\ UNCHANGED <<main, masters, placed, modified, file, index, id, gone, split>>
    BY <1>10 DEF FinalizeEnds, Outcome, copyVars, splitVars, diskVars
  <2> QED BY <2>1, SameSplits DEF SplitInv
<1>11. CASE Restart
  <2>1. phase' = "loading" /\ masters' = <<>> /\ toAdd' = {}
    BY <1>11 DEF Restart
  <2> QED BY <1>2, <2>1, NothingAdded
<1>12. CASE UNCHANGED vars
  <2>1. UNCHANGED <<main, phase, masters, placed, modified, file, index, id, gone, split, toAdd>>
    BY <1>12 DEF vars, copyVars, splitVars, diskVars
  <2> QED BY <2>1, SameSplits DEF SplitInv
<1> QED BY <1>3, <1>4, <1>5, <1>6, <1>7, <1>8, <1>9, <1>10, <1>11, <1>12 DEF Next

\* What PGPatcher.esp must hold for a split plugin, and its masters.
LEMMA Resolved ==
  ASSUME Typing, SetInv, DiskInv, SplitInv, phase = "adding", NEW i \in 1..Len(masters),
         NEW x \in SplitOf(i).alts, x.id # 0
  PROVE  main[x.id] # Absent /\ OutMod \in SplitOf(i).masters
<1>1. PICK r \in RecordsIn(i) : x \in AltTextures(r) BY DEF SplitOf
<1>2. PICK a \in Alts \ gone :
        RecordOf[ModelOf[a]] = r /\ x = [alt |-> a, index |-> index[a], id |-> id[a]]
  BY <1>1 DEF AltTextures, GetModelElems
<1>3. main[x.id] # Absent
  <2>1. x.id = id[a] /\ main = sets BY <1>2 DEF DiskInv
  <2>2. sets[id[a]] \in used BY <1>2, <2>1 DEF SetInv
  <2> QED BY <2>1, <2>2, PluginAssumption DEF Typing, TypeOK
<1>4. OutMod \in curMasterList(r)
  <2>1. x \in {y \in AltTextures(r) : RecordOf[ModelOf[y.alt]] = r} BY <1>1, <1>2
  <2> QED BY <2>1 DEF curMasterList, Needs
<1>5. curMasterList(r) \subseteq masters[i]
  BY DEF SplitInv, RecordsIn
<1>6. masters[i] \subseteq SplitOf(i).masters BY DEF SplitOf
<1> QED BY <1>3, <1>4, <1>5, <1>6

\* The masters a record needs are those of its own alternate textures.
LEMMA NeedsOf ==
  ASSUME NEW i, NEW r \in RecordsIn(i)
  PROVE  Needs(r, SplitOf(i).alts) = curMasterList(r)
<1>1. {y \in SplitOf(i).alts : RecordOf[ModelOf[y.alt]] = r}
        = {y \in AltTextures(r) : RecordOf[ModelOf[y.alt]] = r}
  <2>1. SplitOf(i).alts = UNION {AltTextures(q) : q \in RecordsIn(i)} BY DEF SplitOf
  <2>2. \A q : \A y \in AltTextures(q) : RecordOf[ModelOf[y.alt]] = q
    BY DEF AltTextures, GetModelElems
  <2> QED BY <2>1, <2>2
<1> QED BY <1>1 DEF Needs, curMasterList

LEMMA Fits ==
  ASSUME SplitInv, NEW i \in 1..Len(masters)
  PROVE  /\ SplitOf(i).records = RecordsIn(i) /\ RecordsIn(i) # {}
         /\ SplitOf(i).masters = Referred(SplitOf(i)) \cup ExtraMasters
         /\ \/ Cardinality(Referred(SplitOf(i))) < MaxMasters
            \/ \E r \in SplitOf(i).records : Referred(SplitOf(i)) = Needs(r, SplitOf(i).alts)
<1>1. SplitOf(i).records = RecordsIn(i) /\ SplitOf(i).masters = masters[i] \cup ExtraMasters
  BY DEF SplitOf
<1>2. Justified(i) BY DEF SplitInv
<1>3. \A r \in RecordsIn(i) : r \in Records /\ curMasterList(r) \subseteq masters[i]
  BY DEF SplitInv, RecordsIn
<1>4. \A r \in RecordsIn(i) : Needs(r, SplitOf(i).alts) = curMasterList(r) BY NeedsOf
<1>5. /\ RecordsIn(i) # {}
      /\ \/ Cardinality(masters[i]) < MaxMasters
         \/ \E r \in RecordsIn(i) : masters[i] = curMasterList(r)
  BY <1>2 DEF Justified, RecordsIn
<1>6. Referred(SplitOf(i)) = masters[i]
  <2>1. Referred(SplitOf(i)) = UNION {curMasterList(r) : r \in RecordsIn(i)}
    BY <1>1, <1>4 DEF Referred
  <2>2. \A x \in masters[i] : \E r \in RecordsIn(i) : x \in curMasterList(r)
    BY <1>2 DEF Justified, RecordsIn
  <2> QED BY <1>3, <2>1, <2>2
<1> QED BY <1>1, <1>4, <1>5, <1>6

\* PGPatcher.esp and the split plugins change in few steps.
LEMMA WrittenOnce ==
  ASSUME Typing, [Next]_vars, ~ResetPatchingState, ~FinalizeMain, ~WriteSplit
  PROVE  UNCHANGED <<main, split>>
<1>1. (\E x : SetModelUses(x)) \/ ChangeUse => UNCHANGED <<main, split>> BY CallFrame
<1>2. LoadPlugin \/ PopulateObjs \/ FinalizeNothing \/ (\E r : AddRecord(r)) \/ FinalizeEnds
        \/ Restart => UNCHANGED <<main, split>>
  BY DEF LoadPlugin, PopulateObjs, FinalizeNothing, AddRecord, FinalizeEnds, Restart, diskVars
<1> QED BY <1>1, <1>2 DEF Next, vars, diskVars

LEMMA OutputStep ==
  ASSUME Typing, SetInv, DiskInv, SplitInv, OutputResolves, SplitsFit, [Next]_vars
  PROVE  OutputResolves' /\ SplitsFit'
<1>1. CASE ResetPatchingState \/ FinalizeMain
  <2>1. split' = <<>> BY <1>1 DEF ResetPatchingState, FinalizeMain, DiskInv
  <2>2. DOMAIN split' = {} BY <2>1
  <2> QED BY <2>2 DEF OutputResolves, SplitsFit
<1>2. CASE WriteSplit
  <2>1. /\ phase = "adding" /\ main' = main /\ split \in Seq(Splits)
        /\ split' = Append(split, SplitOf(Len(split) + 1))
        /\ Len(split) + 1 \in 1..Len(masters)
    BY <1>2 DEF WriteSplit, Typing
  <2>2. /\ DOMAIN split' = 1..(Len(split) + 1) /\ Len(split) \in Nat /\ Len(masters) \in Nat
        /\ \A j \in 1..Len(split) : split'[j] = split[j]
        /\ split'[Len(split) + 1] = SplitOf(Len(split) + 1)
    BY <2>1 DEF Typing
  <2>3. \A j \in DOMAIN split' : j \in 1..Len(masters) /\ split'[j] = SplitOf(j)
    <3> TAKE j \in DOMAIN split'
    <3>1. j \in 1..Len(split) \/ j = Len(split) + 1 BY <2>2
    <3> QED BY <2>1, <2>2, <3>1 DEF SplitInv
  <2>4. OutputResolves' BY <2>1, <2>3, Resolved DEF OutputResolves
  <2>5. \A i, j : RecordsIn(i) \cap RecordsIn(j) # {} => i = j BY DEF RecordsIn
  <2>6. \A j \in DOMAIN split' :
          /\ split'[j].records = RecordsIn(j) /\ RecordsIn(j) # {}
          /\ split'[j].masters = Referred(split'[j]) \cup ExtraMasters
          /\ \/ Cardinality(Referred(split'[j])) < MaxMasters
             \/ \E r \in split'[j].records : Referred(split'[j]) = Needs(r, split'[j].alts)
    BY <2>3, Fits
  <2>7. ExtraMasters' = ExtraMasters BY <2>1 DEF ExtraMasters, IDs
  <2> QED BY <2>4, <2>5, <2>6, <2>7 DEF SplitsFit, Referred, Needs
<1>3. CASE UNCHANGED <<main, split>>
  <2>1. ExtraMasters' = ExtraMasters BY <1>3 DEF ExtraMasters, IDs
  <2>2. OutputResolves' BY <1>3 DEF OutputResolves
  <2>3. \A s : Referred(s)' = Referred(s) BY DEF Referred, Needs
  <2>4. SplitsFit' BY <1>3, <2>1, <2>3 DEF SplitsFit, Needs
  <2> QED BY <2>2, <2>4
<1> QED BY <1>1, <1>2, <1>3, WrittenOnce

-----------------------------------------------------------------------------
(* What is asked for is what is in memory *)

LEMMA SavedStep ==
  ASSUME Typing, phase = "saved" => ~threw, [Next]_vars PROVE phase' = "saved" => ~threw'
<1>1. (\E x : SetModelUses(x)) \/ ChangeUse => phase' = "patching" BY CallFrame
<1>2. LoadPlugin \/ PopulateObjs \/ ResetPatchingState \/ FinalizeMain \/ (\E r : AddRecord(r))
        \/ WriteSplit \/ Restart => phase' # "saved"
  BY DEF LoadPlugin, PopulateObjs, ResetPatchingState, FinalizeMain, AddRecord, WriteSplit,
     Restart
<1>3. FinalizeNothing \/ FinalizeEnds => (phase' = "saved" => ~threw')
  BY DEF FinalizeNothing, FinalizeEnds, Outcome
<1> QED BY <1>1, <1>2, <1>3 DEF Next, vars

\* The steps that touch no use: the textures shown stay.
LEMMA AskFrame ==
  ASSUME WaitingInv, AskedInv, CurInv,
         UNCHANGED <<modified, file, index, id, gone, toSet, todo, cur, left, changed, asked>>,
         \A a \in Alts : Shown(a)' = Shown(a)
  PROVE  WaitingInv' /\ AskedInv' /\ CurInv'
<1>1. \A k : \A a \in Alts : AltDone(k, a)' = AltDone(k, a)
  BY DEF AltDone, AskedIndex, AskedSet
<1>2. \A m : AltsOf(m) \subseteq Alts BY DEF AltsOf
<1>3. WaitingInv' BY DEF WaitingInv, Pending, Untouched, AltAsIs
<1>4. AskedInv' BY <1>1, <1>2 DEF AskedInv
<1>5. CurInv'
  <2>1. \A k : \A a \in Alts : (IF a \in left THEN AltAsIs(a) ELSE AltDone(k, a))
                  => (IF a \in left' THEN AltAsIs(a)' ELSE AltDone(k, a)')
    BY <1>1 DEF AltAsIs
  <2> QED BY <1>2, <2>1 DEF CurInv
<1> QED BY <1>3, <1>4, <1>5

\* At the start of a run, and of the process, nothing is asked for.
LEMMA AskFresh ==
  ASSUME file' = [m \in Models |-> 0], index' = SlotOf, id' = [a \in Alts |-> 0], gone' = {},
         todo' = {}, cur' = {}, asked' = {}
  PROVE  WaitingInv' /\ AskedInv' /\ CurInv'
<1>1. \A m \in Plain : Untouched(m)' BY DEF Untouched, AltAsIs, AltsOf, Plain
<1> QED BY <1>1 DEF WaitingInv, AskedInv, CurInv

LEMMA AskSet ==
  ASSUME Typing, WaitingInv, AskedInv, CurInv, NEW x, SetModelUses(x)
  PROVE  WaitingInv' /\ AskedInv' /\ CurInv'
<1>1. /\ x \in toSet /\ toSet' = toSet \ {x} /\ cur = {} /\ cur' = {}
      /\ todo' \subseteq UNION {Asks[m] : m \in GetModelUses(x)}
      /\ \A k, l \in todo' : k.model = l.model => k = l
      /\ UNCHANGED <<sets, modified, file, index, id, gone, asked>>
  BY DEF SetModelUses, Idle, txstVars, copyVars
<1>2. \A k \in todo' : k.model \in Plain => MeshOf[k.model] = x
  <2> SUFFICES ASSUME NEW k \in todo', k.model \in Plain PROVE MeshOf[k.model] = x OBVIOUS
  <2>1. PICK m \in GetModelUses(x) : k \in Asks[m] BY <1>1
  <2>2. m \in Models BY DEF GetModelUses, GetModelElems
  <2>3. k.model = m BY <2>1, <2>2, PluginAssumption
  <2> QED BY <2>1, <2>3 DEF GetModelUses, Plain
<1>3. \A m \in Plain : Pending(m)' => Pending(m) BY <1>1, <1>2 DEF Pending
<1>4. \A m \in Plain : Untouched(m) => Untouched(m)' BY <1>1 DEF Untouched, AltAsIs
<1>5. WaitingInv' BY <1>1, <1>2, <1>3, <1>4 DEF WaitingInv
<1>6. \A k : \A a : AltDone(k, a)' = AltDone(k, a)
  BY <1>1 DEF AltDone, AskedIndex, AskedSet, Shown
<1>7. AskedInv' BY <1>1, <1>6 DEF AskedInv
<1> QED BY <1>1, <1>5, <1>7 DEF CurInv

LEMMA AskStart ==
  ASSUME Typing, WaitingInv, AskedInv, CurInv, NEW k, StartUse(k)
  PROVE  WaitingInv' /\ AskedInv' /\ CurInv'
<1>1. /\ cur = {} /\ cur' = {k} /\ k \in todo /\ todo' = todo \ {k}
      /\ RecordOf[k.model] \notin Uncopied
      /\ left' = {a \in Alts \ gone : ModelOf[a] = k.model} /\ changed' = (k.file # 0)
      /\ file' = [file EXCEPT ![k.model] = IF k.file # 0 THEN k.file ELSE file[k.model]]
      /\ UNCHANGED <<sets, modified, index, id, gone, toSet, asked>>
  BY DEF StartUse, txstVars
<1>2. k.model \in Models BY <1>1 DEF Typing, TypeOK
<1>3. \A m \in Models : file'[m] = IF m = k.model /\ k.file # 0 THEN k.file ELSE file[m]
  BY <1>1, <1>2 DEF Typing, TypeOK
<1>4. k.model \in Plain => /\ Untouched(k.model) /\ \A l \in asked : l.model # k.model
                          /\ MeshOf[k.model] \notin toSet
                          /\ \A l \in todo : l.model = k.model => l = k
  BY <1>1 DEF WaitingInv, Pending
<1>5. \A m \in Plain : Pending(m)' => Pending(m) /\ m # k.model
  BY <1>1, <1>4 DEF Pending
<1>6. \A m \in Plain : m # k.model /\ Untouched(m) => Untouched(m)'
  BY <1>1, <1>3 DEF Untouched, AltAsIs, Plain
<1>7. WaitingInv'
  BY <1>1, <1>4, <1>5, <1>6 DEF WaitingInv
<1>8. \A l : \A a : AltDone(l, a)' = AltDone(l, a)
  BY <1>1 DEF AltDone, AskedIndex, AskedSet, Shown
<1>9. \A l \in asked : l.model \in Plain => file'[l.model] = file[l.model]
  BY <1>3, <1>4 DEF Plain
<1>10. AskedInv' BY <1>1, <1>8, <1>9 DEF AskedInv
<1>11. ASSUME k.model \in Plain
       PROVE  /\ file'[k.model] = k.file
              /\ \A a \in AltsOf(k.model) : a \in left' /\ AltAsIs(a)'
              /\ ~changed' => k.file = 0
  BY <1>1, <1>2, <1>3, <1>4, <1>11 DEF Untouched, AltAsIs, AltsOf
<1>12. CurInv'
  BY <1>1, <1>11 DEF CurInv
<1> QED BY <1>7, <1>10, <1>12

LEMMA AskSkip ==
  ASSUME Typing, WaitingInv, AskedInv, CurInv, NEW k, SkipUse(k)
  PROVE  WaitingInv' /\ AskedInv' /\ CurInv'
<1>1. /\ cur = {} /\ cur' = {} /\ k \in todo /\ todo' = todo \ {k} /\ modified \subseteq modified'
      /\ UNCHANGED <<sets, file, index, id, gone, toSet, asked>>
  BY DEF SkipUse, txstVars
<1>2. \A m \in Plain : Pending(m)' => Pending(m) BY <1>1 DEF Pending
<1>3. \A m : Untouched(m)' = Untouched(m) BY <1>1 DEF Untouched, AltAsIs
<1>4. WaitingInv' BY <1>1, <1>2, <1>3 DEF WaitingInv
<1>5. \A l : \A a : AltDone(l, a)' = AltDone(l, a)
  BY <1>1 DEF AltDone, AskedIndex, AskedSet, Shown
<1>6. AskedInv' BY <1>1, <1>5 DEF AskedInv
<1> QED BY <1>1, <1>4, <1>6 DEF CurInv

\* One alternate texture of the use in hand is done.
LEMMA AskAlt ==
  ASSUME Typing, WaitingInv, AskedInv, CurInv, NEW k \in cur, NEW a \in left,
         UNCHANGED <<modified, file, toSet, todo, cur, asked>>, left' = left \ {a},
         changed => changed',
         \A b \in Alts \ {a} : /\ (b \in gone') = (b \in gone) /\ index'[b] = index[b]
                               /\ id'[b] = id[b] /\ Shown(b)' = Shown(b),
         k.model \in Plain => AltDone(k, a)' /\ (~changed' => NothingAsked(k, a))
  PROVE  WaitingInv' /\ AskedInv' /\ CurInv'
<1>1. /\ a \in Alts /\ ModelOf[a] = k.model /\ k.model \in Models /\ \A l \in cur : l = k
      /\ changed \in BOOLEAN
  BY InHand DEF Typing, TypeOK
<1>2. \A l : \A b \in Alts \ {a} : AltDone(l, b)' = AltDone(l, b) /\ AltAsIs(b)' = AltAsIs(b)
  BY DEF AltDone, AltAsIs, AskedIndex, AskedSet
<1>3. \A m : m # k.model => AltsOf(m) \subseteq Alts \ {a} BY <1>1 DEF AltsOf
<1>4. \A m : m # k.model /\ Untouched(m) => Untouched(m)'
  BY <1>2, <1>3 DEF Untouched, AltsOf
<1>5. \A m : Pending(m)' = Pending(m) BY DEF Pending
<1>6. WaitingInv' BY <1>4, <1>5 DEF WaitingInv
<1>7. \A l \in asked : l.model \in Plain => l.model # k.model BY DEF WaitingInv
<1>8. AskedInv' BY <1>2, <1>3, <1>7 DEF AskedInv
<1>9. ASSUME k.model \in Plain
      PROVE  /\ \A b \in AltsOf(k.model) : IF b \in left' THEN AltAsIs(b)' ELSE AltDone(k, b)'
             /\ ~changed' => \A b \in AltsOf(k.model) \ left' : NothingAsked(k, b)
  <2>1. ASSUME NEW b \in AltsOf(k.model), b # a
        PROVE  /\ IF b \in left' THEN AltAsIs(b)' ELSE AltDone(k, b)'
               /\ ~changed' /\ b \notin left' => NothingAsked(k, b)
    <3>1. b \in Alts \ {a} /\ (b \in left' <=> b \in left) BY <2>1 DEF AltsOf
    <3>2. IF b \in left THEN AltAsIs(b) ELSE AltDone(k, b) BY <1>9 DEF CurInv
    <3>3. ~changed /\ b \notin left => NothingAsked(k, b) BY <1>9 DEF CurInv
    <3> QED BY <1>2, <3>1, <3>2, <3>3
  <2> QED BY <1>9, <2>1
<1>10. CurInv'
  <2>1. k.model \in Plain => /\ RecordOf[k.model] \notin Uncopied /\ file[k.model] = k.file
                             /\ ~changed' => k.file = 0
    BY DEF CurInv
  <2> QED BY <1>1, <1>9, <2>1 DEF CurInv
<1> QED BY <1>6, <1>8, <1>10

\* An alternate texture in hand is as it was.
LEMMA InHandAsIs ==
  ASSUME Typing, CurInv, NEW k \in cur, NEW a \in left, k.model \in Plain
  PROVE  /\ index[a] = SlotOf[a] /\ id[a] = 0 /\ a \notin gone /\ SlotOf[a] # Removed
         /\ Existing(a) = SetOf[a]
         /\ InAsk(k, a) <=> SlotOf[a] \in k.slots
         /\ AskedIndex(k, a) = IF InAsk(k, a) THEN NewIndex(k, a) ELSE SlotOf[a]
         /\ AskedSet(k, a) = IF InAsk(k, a) THEN Wanted(k, a) ELSE SetOf[a]
<1>1. a \in AltsOf(k.model) /\ a \in Alts BY InHand DEF AltsOf
<1>2. AltAsIs(a) BY <1>1 DEF CurInv
<1>3. SlotOf[a] \in Nat BY <1>1, PluginAssumption
<1> QED BY <1>2, <1>3
    DEF AltAsIs, Existing, InAsk, AskedIndex, AskedSet, NewIndex, Wanted, Removed

LEMMA AskOmit ==
  ASSUME Typing, WaitingInv, AskedInv, CurInv, NEW k, NEW a, OmitAlt(k, a)
  PROVE  WaitingInv' /\ AskedInv' /\ CurInv'
<1>1. /\ k \in cur /\ a \in left /\ ~InAsk(k, a) /\ left' = left \ {a}
      /\ UNCHANGED <<sets, modified, file, index, id, gone, toSet, todo, cur, changed, asked>>
  BY DEF OmitAlt, TakeAlt, txstVars, copyVars
<1>2. \A b : Shown(b)' = Shown(b) BY <1>1 DEF Shown
<1>3. k.model \in Plain => AltDone(k, a)' /\ NothingAsked(k, a)
  BY <1>1, <1>2, InHandAsIs DEF AltDone, NothingAsked, AskedIndex, AskedSet, Shown
<1> QED BY <1>1, <1>2, <1>3, AskAlt

LEMMA AskRemove ==
  ASSUME Typing, WaitingInv, AskedInv, CurInv, NEW k, NEW a, RemoveAlt(k, a)
  PROVE  WaitingInv' /\ AskedInv' /\ CurInv'
<1>1. /\ k \in cur /\ a \in left /\ InAsk(k, a) /\ NewIndex(k, a) = Removed /\ left' = left \ {a}
      /\ gone' = gone \cup {a} /\ changed' = TRUE
      /\ UNCHANGED <<sets, modified, file, index, id, toSet, todo, cur, asked>>
  BY DEF RemoveAlt, Stays, InAsk, TakeAlt, txstVars
<1>2. \A b : Shown(b)' = Shown(b) BY <1>1 DEF Shown
<1>3. k.model \in Plain => AltDone(k, a)'
  BY <1>1, InHandAsIs DEF AltDone, AskedIndex
<1>4. \A b \in Alts \ {a} : (b \in gone') = (b \in gone) BY <1>1
<1> QED BY <1>1, <1>2, <1>3, <1>4, AskAlt

LEMMA AskKeep ==
  ASSUME Typing, WaitingInv, AskedInv, CurInv, NEW k, NEW a, KeepTextures(k, a)
  PROVE  WaitingInv' /\ AskedInv' /\ CurInv'
<1>1. /\ k \in cur /\ a \in left /\ InAsk(k, a) /\ NewIndex(k, a) # Removed
      /\ Wanted(k, a) = Existing(a) /\ left' = left \ {a}
      /\ index' = [index EXCEPT ![a] = NewIndex(k, a)]
      /\ UNCHANGED <<sets, modified, file, id, gone, toSet, todo, cur, asked>>
  <2>1. k \in cur /\ Stays(k, a) /\ ~Differs(k, a) /\ TakeAlt(a) /\ MoveAlt(k, a)
        /\ UNCHANGED <<sets, modified, file, id, gone, toSet, asked>>
    BY DEF KeepTextures, txstVars
  <2>2. index' = [index EXCEPT ![a] = NewIndex(k, a)] BY <2>1 DEF MoveAlt
  <2>3. left' = left \ {a} /\ UNCHANGED <<todo, cur>> BY <2>1 DEF TakeAlt
  <2>4. InAsk(k, a) /\ NewIndex(k, a) # Removed /\ Wanted(k, a) = Existing(a)
    BY <2>1 DEF Stays, Differs
  <2> QED BY <2>1, <2>2, <2>3, <2>4 DEF InAsk
<1>6. (changed => changed') /\ (~changed' => index[a] = NewIndex(k, a))
  BY Zenon DEF KeepTextures, MoveAlt
<1>2. \A b : Shown(b)' = Shown(b) BY <1>1 DEF Shown
<1>3. \A b \in Alts : index'[b] = IF b = a THEN NewIndex(k, a) ELSE index[b]
  BY <1>1 DEF Typing, TypeOK
<1>4. a \in Alts BY <1>1, InHand
<1>5. ASSUME k.model \in Plain PROVE AltDone(k, a)' /\ (~changed' => NothingAsked(k, a))
  <2>1. /\ index[a] = SlotOf[a] /\ id[a] = 0 /\ a \notin gone
        /\ AskedIndex(k, a) = NewIndex(k, a) /\ AskedSet(k, a) = SetOf[a]
    BY <1>1, <1>5, InHandAsIs
  <2>2. AltDone(k, a)'
    BY <1>1, <1>3, <1>4, <2>1 DEF AltDone, AskedIndex, AskedSet, Shown
  <2>3. ~changed' => NothingAsked(k, a) BY <1>6, <2>1 DEF NothingAsked
  <2> QED BY <2>2, <2>3
<1> QED BY <1>1, <1>2, <1>3, <1>5, <1>6, AskAlt

LEMMA AskReuse ==
  ASSUME Typing, SetInv, WaitingInv, AskedInv, CurInv, NEW k, NEW a, ReuseSet(k, a)
  PROVE  WaitingInv' /\ AskedInv' /\ CurInv'
<1> DEFINE t == Wanted(k, a)
<1>1. /\ k \in cur /\ a \in left /\ InAsk(k, a) /\ NewIndex(k, a) # Removed /\ idOf[t] # 0
      /\ left' = left \ {a} /\ index' = [index EXCEPT ![a] = NewIndex(k, a)] /\ changed' = TRUE
      /\ id' = [id EXCEPT ![a] = idOf[t]]
      /\ UNCHANGED <<sets, modified, file, gone, toSet, todo, cur, asked>>
  BY DEF ReuseSet, Differs, Stays, InAsk, TakeAlt
<1>2. a \in Alts /\ phase = "patching" /\ t \in TextureSets
  BY <1>1, InHand, StaysTyped DEF Stays
<1>3. sets[idOf[t]] = t BY <1>1, <1>2 DEF SetInv
<1>4. \A b \in Alts : /\ index'[b] = IF b = a THEN NewIndex(k, a) ELSE index[b]
                      /\ id'[b] = IF b = a THEN idOf[t] ELSE id[b]
  BY <1>1 DEF Typing, TypeOK
<1>5. \A b \in Alts \ {a} : Shown(b)' = Shown(b) BY <1>1, <1>4 DEF Shown
<1>6. ASSUME k.model \in Plain PROVE AltDone(k, a)'
  <2>1. a \notin gone /\ AskedIndex(k, a) = NewIndex(k, a) /\ AskedSet(k, a) = t
    BY <1>1, <1>6, InHandAsIs
  <2>2. Shown(a)' = t BY <1>1, <1>2, <1>3, <1>4 DEF Shown
  <2> QED BY <1>1, <1>2, <1>4, <2>1, <2>2 DEF AltDone, AskedIndex, AskedSet
<1> QED BY <1>1, <1>4, <1>5, <1>6, AskAlt

LEMMA AskNew ==
  ASSUME Typing, SetInv, WaitingInv, AskedInv, CurInv, NEW k, NEW a, NEW i \in FormIDs,
         NewSet(k, a, i)
  PROVE  WaitingInv' /\ AskedInv' /\ CurInv'
<1> DEFINE t == Wanted(k, a)
<1>1. /\ k \in cur /\ a \in left /\ InAsk(k, a) /\ NewIndex(k, a) # Removed /\ i \notin allocated
      /\ left' = left \ {a} /\ index' = [index EXCEPT ![a] = NewIndex(k, a)] /\ changed' = TRUE
      /\ id' = [id EXCEPT ![a] = i] /\ sets' = [sets EXCEPT ![i] = t]
      /\ UNCHANGED <<modified, file, gone, toSet, todo, cur, asked>>
  BY DEF NewSet, Available, Differs, Stays, InAsk, TakeAlt
<1>2. a \in Alts /\ t \in TextureSets
  BY <1>1, InHand, StaysTyped DEF Stays
<1>3. i # 0 /\ sets[i] = Absent /\ sets'[i] = t /\ \A j \in FormIDs : j # i => sets'[j] = sets[j]
  <2>1. i # 0 BY PluginAssumption DEF FormIDs
  <2>2. sets[i] = Absent BY <1>1 DEF SetInv, IDs
  <2> QED BY <1>1, <2>1, <2>2 DEF Typing, TypeOK
<1>4. \A b \in Alts : /\ index'[b] = IF b = a THEN NewIndex(k, a) ELSE index[b]
                      /\ id'[b] = IF b = a THEN i ELSE id[b]
  BY <1>1 DEF Typing, TypeOK
<1>5. ASSUME NEW b \in Alts \ {a} PROVE Shown(b)' = Shown(b)
  <2>1. CASE id[b] = 0 BY <1>4, <1>5, <2>1 DEF Shown
  <2>2. CASE id[b] # 0
    <3>1. id[b] \in FormIDs /\ sets[id[b]] \in TextureSets
      BY <1>5, <2>2, PluginAssumption DEF SetInv, Typing, TypeOK, FormIDs
    <3>2. id[b] # i BY <1>3, <3>1, PluginAssumption
    <3> QED BY <1>3, <1>4, <1>5, <2>2, <3>1, <3>2 DEF Shown
  <2> QED BY <2>1, <2>2
<1>6. ASSUME k.model \in Plain PROVE AltDone(k, a)'
  <2>1. a \notin gone /\ AskedIndex(k, a) = NewIndex(k, a) /\ AskedSet(k, a) = t
    BY <1>1, <1>6, InHandAsIs
  <2>2. Shown(a)' = t BY <1>2, <1>3, <1>4 DEF Shown
  <2> QED BY <1>1, <1>2, <1>4, <2>1, <2>2 DEF AltDone, AskedIndex, AskedSet
<1> QED BY <1>1, <1>4, <1>5, <1>6, AskAlt

LEMMA AskEnd ==
  ASSUME Typing, WaitingInv, AskedInv, CurInv, NEW k, EndUse(k)
  PROVE  WaitingInv' /\ AskedInv' /\ CurInv'
<1>1. /\ k \in cur /\ left = {} /\ cur' = {} /\ asked' = asked \cup {k}
      /\ UNCHANGED <<sets, file, index, id, gone, toSet, todo>>
  BY DEF EndUse, txstVars
<1>2. modified \subseteq modified' /\ (changed => RecordOf[k.model] \in modified')
  BY DEF EndUse
<1>3. \A m : Untouched(m)' = Untouched(m) /\ Pending(m)' = Pending(m)
  BY <1>1 DEF Untouched, AltAsIs, Pending
<1>4. WaitingInv' BY <1>1, <1>3 DEF WaitingInv
<1>5. \A l : \A a : AltDone(l, a)' = AltDone(l, a)
  BY <1>1 DEF AltDone, AskedIndex, AskedSet, Shown
<1>6. AskedInv' BY <1>1, <1>2, <1>5 DEF AskedInv, CurInv
<1> QED BY <1>1, <1>4, <1>6 DEF CurInv

\* The steps between the calls: the textures shown stay.
LEMMA AskBetween ==
  ASSUME Typing, SetInv,
         \/ LoadPlugin \/ PopulateObjs \/ FinalizeNothing \/ FinalizeMain
         \/ (\E r : AddRecord(r)) \/ WriteSplit \/ FinalizeEnds \/ UNCHANGED vars
  PROVE  /\ UNCHANGED <<modified, file, index, id, gone, toSet, todo, cur, left, changed, asked>>
         /\ threw' = threw /\ \A a \in Alts : Shown(a)' = Shown(a)
<1>1. UNCHANGED <<modified, file, index, id, gone, toSet, todo, cur, left, changed, asked>>
      /\ threw' = threw
  BY DEF LoadPlugin, PopulateObjs, FinalizeNothing, FinalizeMain, AddRecord, WriteSplit,
     FinalizeEnds, vars, copyVars, callVars
<1>2. CASE PopulateObjs
  <2>1. \A a \in Alts : id[a] = 0 BY <1>2 DEF PopulateObjs, SetInv
  <2> QED BY <1>1, <2>1 DEF Shown
<1>3. CASE FinalizeNothing \/ FinalizeMain
  <2>1. sets' = InUse /\ phase = "patching" BY <1>3 DEF FinalizeNothing, FinalizeMain
  <2>2. \A a \in Alts : id[a] # 0 => InUse[id[a]] = sets[id[a]] BY <2>1, InUseKept
  <2> QED BY <1>1, <2>1, <2>2 DEF Shown
<1>4. CASE LoadPlugin \/ (\E r : AddRecord(r)) \/ WriteSplit \/ FinalizeEnds \/ UNCHANGED vars
  <2>1. sets' = sets
    BY <1>4 DEF LoadPlugin, AddRecord, WriteSplit, FinalizeEnds, vars, txstVars
  <2> QED BY <1>1, <2>1 DEF Shown
<1> QED BY <1>1, <1>2, <1>3, <1>4

LEMMA AskStep == ASSUME Typing, SetInv, AskInv, [Next]_vars PROVE AskInv'
<1>1. phase' = "saved" => ~threw' BY SavedStep DEF AskInv
<1>2. SUFFICES ASSUME ~threw' PROVE WaitingInv' /\ AskedInv' /\ CurInv'
  BY <1>1 DEF AskInv
<1>3. CASE ResetPatchingState
  <2>1. todo = {} /\ cur = {} BY <1>3 DEF ResetPatchingState, Typing, Idle
  <2>2. /\ file' = [m \in Models |-> 0] /\ index' = SlotOf /\ id' = [a \in Alts |-> 0]
        /\ gone' = {} /\ todo' = {} /\ cur' = {} /\ asked' = {}
    BY <1>3, <2>1 DEF ResetPatchingState, callVars
  <2> QED BY <2>2, AskFresh
<1>4. CASE Restart
  <2>1. /\ file' = [m \in Models |-> 0] /\ index' = SlotOf /\ id' = [a \in Alts |-> 0]
        /\ gone' = {} /\ todo' = {} /\ cur' = {} /\ asked' = {}
    BY <1>4 DEF Restart
  <2> QED BY <2>1, AskFresh
<1>5. CASE \/ LoadPlugin \/ PopulateObjs \/ FinalizeNothing \/ FinalizeMain
           \/ (\E r : AddRecord(r)) \/ WriteSplit \/ FinalizeEnds \/ UNCHANGED vars
  BY <1>2, <1>5, AskBetween, AskFrame DEF AskInv
<1>6. CASE \E k, a : NoFormID(k, a)
  BY <1>2, <1>6 DEF NoFormID
<1>7. CASE (\E x : SetModelUses(x)) \/ (ChangeUse /\ ~\E k, a : NoFormID(k, a))
  <2>1. threw' = threw
    BY <1>7 DEF SetModelUses, ChangeUse, StartUse, SkipUse, OmitAlt, RemoveAlt, KeepTextures,
       ReuseSet, NewSet, EndUse
  <2>2. WaitingInv /\ AskedInv /\ CurInv BY <1>2, <2>1 DEF AskInv
  <2> QED BY <1>7, <2>2, AskSet, AskStart, AskSkip, AskOmit, AskRemove, AskKeep, AskReuse,
          AskNew, AskEnd DEF ChangeUse
<1> QED BY <1>3, <1>4, <1>5, <1>6, <1>7 DEF Next

-----------------------------------------------------------------------------
(* The theorems *)

LEMMA InitInv == Init => IInv
<1> SUFFICES ASSUME Init PROVE IInv OBVIOUS
<1>1. Typing BY InitTyping
<1>2. /\ phase = "loading" /\ loaded = 0 /\ kept = {} /\ sets = NoSets /\ base = NoSets
      /\ main = NoSets /\ used = {} /\ allocated = {} /\ id = [a \in Alts |-> 0]
      /\ masters = <<>> /\ placed = [r \in Records |-> 0] /\ toAdd = {} /\ split = <<>>
      /\ toSet = {} /\ todo = {} /\ cur = {} /\ asked = {}
  BY DEF Init
<1>3. LoadInv
  <2>1. 1..loaded = {} BY <1>2
  <2> QED BY <1>2, <2>1 DEF LoadInv, MastersLoaded
<1>4. SetInv
  <2>1. IDs(NoSets) = {} BY DEF IDs, NoSets
  <2> QED BY <1>2, <2>1 DEF SetInv, NoTwins, OldIDsKept
<1>5. DiskInv BY <1>2 DEF DiskInv
<1>6. SplitInv
  <2>1. 1..Len(masters) = {} BY <1>2
  <2> QED BY <1>2, <2>1 DEF SplitInv
<1>7. OutputResolves /\ SplitsFit
  <2>1. DOMAIN split = {} BY <1>2
  <2> QED BY <2>1 DEF OutputResolves, SplitsFit
<1>8. AskInv BY <1>2 DEF AskInv, WaitingInv, AskedInv, CurInv, Pending
<1> QED BY <1>1, <1>3, <1>4, <1>5, <1>6, <1>7, <1>8 DEF IInv

LEMMA InvStep == IInv /\ [Next]_vars => IInv'
BY TypingStep, LoadStep, SetStep, DiskStep, SplitStep, OutputStep, AskStep DEF IInv

LEMMA Invariant == Spec => []IInv
<1>1. IInv /\ [Next]_vars => IInv' BY InvStep
<1> QED BY <1>1, InitInv, PTL DEF Spec

(* The plugins in the output directory are consistent after every step and *)
(* every crash: no two texture sets are the same, those of the last output *)
(* keep their FormIDs, the split plugins resolve, name the masters their   *)
(* records need and PGPatcher.esp, the former within the limit, and no     *)
(* plugin is used without its masters.                                     *)
THEOREM PluginCorrect == Spec => []PluginSafe
<1>1. IInv => PluginSafe BY DEF IInv, PluginSafe, Typing, LoadInv, SetInv
<1> QED BY <1>1, Invariant, PTL

LEMMA AskedShown ==
  ASSUME IInv, phase = "saved", NEW k \in asked, k.model \notin Weighted PROVE ShownAsAsked(k)
<1> DEFINE m == k.model
           r == RecordOf[m]
<1>1. Typing /\ SetInv /\ DiskInv /\ SplitInv /\ WaitingInv /\ AskedInv /\ CurInv
  BY DEF IInv, AskInv
<1>2. m \in Plain /\ m \in Models /\ r \in Records
  BY <1>1, PluginAssumption DEF Plain, Typing, TypeOK
<1>3. /\ r \notin Uncopied /\ file[m] = k.file /\ \A a \in AltsOf(m) : AltDone(k, a)
      /\ r \notin modified => k.file = 0 /\ \A a \in AltsOf(m) : NothingAsked(k, a)
  BY <1>1, <1>2 DEF AskedInv
<1>4. /\ main = sets /\ toAdd = {} /\ Len(split) = Len(masters)
      /\ DOMAIN split = 1..Len(masters)
      /\ \A i \in 1..Len(masters) : split[i] = SplitOf(i)
      /\ r \in modified => placed[r] # 0
      /\ placed[r] \in 0..Len(masters) /\ Len(masters) \in Nat
  BY <1>1, <1>2, <1>3 DEF DiskInv, SplitInv, Typing, TypeOK
<1>5. ASSUME \A i \in DOMAIN split : r \notin split[i].records
      PROVE  k.file = 0
             /\ \A a \in AltsOf(m) : AskedIndex(k, a) = SlotOf[a] /\ AskedSet(k, a) = SetOf[a]
  <2>1. placed[r] = 0
    <3> SUFFICES ASSUME placed[r] # 0 PROVE FALSE OBVIOUS
    <3>1. placed[r] \in 1..Len(masters) BY <1>4
    <3>2. r \in SplitOf(placed[r]).records BY <1>2 DEF SplitOf, RecordsIn
    <3> QED BY <1>4, <1>5, <3>1, <3>2
  <2> QED BY <1>3, <1>4, <2>1 DEF NothingAsked
<1>6. ASSUME NEW i \in DOMAIN split, r \in split[i].records
      PROVE  /\ split[i].files[m] = k.file
             /\ \A a \in AltsOf(m) :
                  AskedIndex(k, a) # Removed => \E x \in split[i].alts : x.alt = a
             /\ \A x \in split[i].alts : x.alt \in AltsOf(m) =>
                  /\ x.index = AskedIndex(k, x.alt)
                  /\ AskedSet(k, x.alt) = IF x.id = 0 THEN SetOf[x.alt] ELSE main[x.id]
  <2>0. split[i] = SplitOf(i) BY <1>4
  <2>1. split[i] = SplitOf(i) /\ r \in RecordsIn(i) BY <1>6, <2>0 DEF SplitOf
  <2>2. split[i].files[m] = k.file
    <3>1. m \in UNION {GetModelElems(q) : q \in RecordsIn(i)}
      BY <1>2, <2>1 DEF GetModelElems
    <3> QED BY <1>3, <2>1, <3>1 DEF SplitOf
  <2>3. split[i].alts = UNION {AltTextures(q) : q \in RecordsIn(i)} BY <2>1 DEF SplitOf
  <2>4. ASSUME NEW a \in AltsOf(m), AskedIndex(k, a) # Removed
        PROVE  \E x \in split[i].alts : x.alt = a
    <3>1. a \in Alts \ gone /\ ModelOf[a] \in GetModelElems(r)
      BY <1>2, <1>3, <2>4 DEF AltsOf, AltDone, GetModelElems
    <3>2. [alt |-> a, index |-> index[a], id |-> id[a]] \in AltTextures(r)
      BY <3>1 DEF AltTextures
    <3> QED BY <2>1, <2>3, <3>2
  <2>5. ASSUME NEW x \in split[i].alts, x.alt \in AltsOf(m)
        PROVE  /\ x.index = AskedIndex(k, x.alt)
               /\ AskedSet(k, x.alt) = IF x.id = 0 THEN SetOf[x.alt] ELSE main[x.id]
    <3>1. PICK q \in RecordsIn(i) : x \in AltTextures(q) BY <2>3
    <3>2. PICK a \in Alts \ gone : x = [alt |-> a, index |-> index[a], id |-> id[a]]
      BY <3>1 DEF AltTextures
    <3>3. AltDone(k, a) /\ a \notin gone BY <1>3, <2>5, <3>2
    <3> QED BY <1>4, <3>2, <3>3 DEF AltDone, Shown
  <2> QED BY <2>2, <2>4, <2>5
<1> QED BY <1>5, <1>6 DEF ShownAsAsked

(* What a run writes is what it was asked for: the meshes, the places and  *)
(* the textures of every record it set, whatever the order of its calls,   *)
(* reused or new texture sets, and the plugin the record went to.          *)
THEOREM AskedCorrect == Spec => []WrittenAsAsked
<1>1. IInv => WrittenAsAsked BY AskedShown DEF WrittenAsAsked
<1> QED BY <1>1, Invariant, PTL
=============================================================================
