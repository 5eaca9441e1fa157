-------------------------- MODULE ModSortDialog --------------------------
(***************************************************************************)
(* The conflict manager (PGPatcher/src/GUI/ModSortDialog.cpp) with the     *)
(* list it shows (DragList), the mods it changes (ModOrder), modrules.json *)
(* and the sessions of the program around it (PGPatcher/src/main.cpp).     *)
(*                                                                         *)
(* The dialog holds the mods three times: in the list control, which a     *)
(* search makes shorter, in m_cachedRows, and in PGModManager.  Handlers   *)
(* copy from one to another, and PGModManager is written while the user    *)
(* still edits.  modrules.json is the fourth copy.                         *)
(*                                                                         *)
(* An action is one event with its handlers; an event the control posts is *)
(* handled before the next one of the user.                                *)
(***************************************************************************)
EXTENDS ModOrder, DragList

CONSTANTS
  Modlists,     \* lists the mod manager may have at the start of a session
  Found,        \* mods whose name holds the search term
  Ignorable,    \* mods whose meshes the user may want to ignore (a bound)
  MaxSessions,  \* runs of the program (a bound)
  MaxEvents     \* things the user does in the dialog (a bound)

ASSUME ModlistsAssumption == Modlists \subseteq Seq(Mods)

VARIABLES
  phase,        \* "off", "patch", "done" (completion dialog), "dialog"
  session,      \* sessions started
  mods,         \* PGModManager::m_modMap
  saved,        \* cfg/modrules.json
  looseOrder,   \* mo2UseLooseFileOrder in PGConfig and in settings.json
  list,         \* the list control
  cache,        \* m_cachedRows
  search,       \* is a search term entered?
  box,          \* m_checkBoxMO2
  apply,        \* is the Apply button enabled?
  mouse,        \* left button "up" or "down"
  events,       \* things done, for the bound
  stray         \* rows were dropped where they were not taken to since the
                \* list was last filled (see MouseUp); history only

env == <<phase, session, saved, looseOrder>>
vars == <<phase, session, mods, saved, looseOrder, list, cache,
          search, box, apply, mouse, events, stray>>

EmptyList == [rows |-> <<>>, cutoff |-> 0, dragged |-> NoDrag, target |-> None]

-----------------------------------------------------------------------------
(* Helpers of the dialog. *)

Shown == Relevant(mods)

CheckedIn(rows) == {r.mod : r \in {x \in ToSet(rows) : x.checked}}
IgnoredIn(rows) == {r.mod : r \in {x \in ToSet(rows) : x.ignored}}

On(rows) == {r \in ToSet(rows) : r.checked}
Split(rows) == Kept(rows, On(rows)) \o Kept(rows, ToSet(rows) \ On(rows))

(* A filled list, split at its cutoff; what the mouse has left behind in    *)
(* the control stays.                                                       *)
WithRows(l, rows) == [l EXCEPT !.rows = Split(rows),
                               !.cutoff = Cardinality(CheckedIn(rows))]

(* fillListCtrl: order is the list of mods it is given. *)
FillListCtrl(l, c, order, autoEnable, preserveChecks) ==
  LET old == IF c = <<>> THEN l.rows ELSE c
      Checked(m) == IF preserveChecks THEN m \in CheckedIn(old)
                    ELSE mods[m].enabled \/ (autoEnable /\ mods[m].best > NoShader)
      Row(m) == [mod |-> m, checked |-> Checked(m),
                 ignored |-> IF preserveChecks THEN m \in IgnoredIn(old)
                             ELSE mods[m].ignored]
      listed == Kept(order, Shown)
  IN WithRows(l, [i \in DOMAIN listed |-> Row(listed[i])])

(* Mutant: the list replaces the cache in a search too. *)
SyncForgetsHidden(l, c) == l.rows

(* syncCacheFromListCtrl: the shown state always goes to the cache, the     *)
(* shown order only when all rows are shown.                                *)
Sync(l, c) ==
  LET RowOf(m) == l.rows[SelectInSeq(l.rows, LAMBDA r : r.mod = m)]
      merged == [i \in DOMAIN c |->
                   IF c[i].mod \in RowMods(l.rows) THEN RowOf(c[i].mod) ELSE c[i]]
  IN IF c = <<>> \/ Len(l.rows) = Len(c) THEN l.rows ELSE merged

(* rebuildListCtrlFromCache. *)
Rebuild(l, c, term) ==
  WithRows(l, IF term THEN Kept(c, {r \in ToSet(c) : r.mod \in Found}) ELSE c)

(* reorderCachedRowsFromFilteredMove. *)
ReorderFiltered(c, selected, toTop) ==
  LET moved == {r \in On(c) : r.mod \in selected}
      picked == Kept(c, moved)
      others == Kept(c, On(c) \ moved)
  IN (IF toTop THEN picked \o others ELSE others \o picked) \o Kept(c, ToSet(c) \ On(c))

(* Mutant: the rows are numbered from the top. *)
WrittenUpwards(ms, c) ==
  LET ordered == Split(c)
      At(m) == SelectInSeq(ordered, LAMBDA r : r.mod = m)
  IN [m \in DOMAIN ms |->
        IF At(m) = 0 THEN ms[m]
        ELSE [ms[m] EXCEPT !.enabled = ordered[At(m)].checked, !.priority = At(m),
                           !.ignored = ordered[At(m)].ignored]]

(* The loop of updateMods and updateModStatesLive: the rows are numbered    *)
(* down from the number of rows; a mod that is off keeps its number.        *)
Written(ms, c) ==
  LET ordered == Split(c)
      At(m) == SelectInSeq(ordered, LAMBDA r : r.mod = m)
  IN [m \in DOMAIN ms |->
        IF At(m) = 0 THEN ms[m]
        ELSE [ms[m] EXCEPT !.enabled = ordered[At(m)].checked,
                           !.priority = IF ordered[At(m)].checked
                                        THEN Len(c) + 1 - At(m) ELSE @,
                           !.ignored = ordered[At(m)].ignored]]

(* hasUnsavedChanges, after its own syncCacheFromListCtrl: it compares with *)
(* PGModManager and PGConfig.                                               *)
HasUnsavedChanges(c, ms, checked, loose) ==
  \/ Written(ms, c) # ms
  \/ Manager = "mo2" /\ loose # checked

DraggingEnabled == ~ box /\ ~ search
ContextMoveEnabled == ~ box

(* setMO2LooseFileOrderCheckboxState with the rebuild of cache and list     *)
(* that follows it: under the lock the list is filled in default order.     *)
Relocked(l, c) ==
  FillListCtrl(l, c, GetModsByDefaultOrder(mods), FALSE, TRUE)

(* updateApplyButtonState, when list and cache agree already. *)
SetApply == apply' = HasUnsavedChanges(cache', mods', box', looseOrder')

(* updateModStatesLive: PGModManager follows the list at once. *)
GoLive(l, c) ==
  /\ list' = l
  /\ cache' = Sync(l, c)
  /\ mods' = Written(mods, cache')
  /\ UNCHANGED <<env, search, box>>
  /\ SetApply

-----------------------------------------------------------------------------
(* The program around the dialog. *)

Init ==
  /\ phase = "off" /\ session = 0
  /\ mods = <<>> /\ saved = <<>>
  /\ looseOrder \in BOOLEAN
  /\ list = EmptyList /\ cache = <<>>
  /\ search = FALSE /\ box = FALSE /\ apply = FALSE /\ mouse = "up" /\ stray = FALSE
  /\ events = 0

dialog == <<list, cache, search, box, apply, mouse, stray>>

(* mainRunnerPrep: load modrules.json, take the mod manager's list, map all *)
(* files, then order the mods and save them.                                *)
MainRunnerPrep ==
  /\ phase = "off" /\ session < MaxSessions
  /\ \E ml \in Modlists :
       mods' = UpdateStateFromModlist(MapFiles(Populate(LoadJSON(saved), ml), ml),
                                      looseOrder)
  /\ saved' = GetJSON(mods')
  /\ session' = session + 1
  /\ phase' = "patch"
  /\ UNCHANGED <<looseOrder, dialog>>

(* Preparation ends the program: a message that is critical calls exit, as  *)
(* for a list that names no mod, a mod without a folder or the folder of    *)
(* the output, or when modrules.json cannot be written (and stays).         *)
MainRunnerPrepFails ==
  /\ phase = "off" /\ session < MaxSessions
  /\ session' = session + 1
  /\ mods' = <<>>
  /\ UNCHANGED <<phase, saved, looseOrder, dialog>>

MainRunnerPatch ==
  /\ phase = "patch"
  /\ phase' = "done"
  /\ UNCHANGED <<session, mods, saved, looseOrder, dialog>>

(* The completion dialog is closed and the program ends. *)
Exit ==
  /\ phase = "done"
  /\ phase' = "off"
  /\ mods' = <<>>
  /\ UNCHANGED <<session, saved, looseOrder, dialog>>

(* onShowModConflicts: the constructor fills the list from PGModManager.    *)
OpenDialog ==
  /\ phase = "done"
  /\ phase' = "dialog"
  /\ LET first == FillListCtrl(EmptyList, <<>>, GetModsByPriority(mods),
                               FALSE, FALSE)
         locked == Manager = "mo2" /\ looseOrder
         filled == IF locked THEN Relocked(first, first.rows) ELSE first
     IN /\ list' = filled
        /\ cache' = filled.rows
        /\ box' = locked
  /\ search' = FALSE /\ mouse' = "up" /\ stray' = FALSE
  /\ UNCHANGED <<session, mods, saved, looseOrder>>
  /\ SetApply

-----------------------------------------------------------------------------
(* The mouse. *)

InDialog == phase = "dialog" /\ mouse = "up"

(* onMouseLeftDown on a check box, then onItemChecked. *)
ClickCheckbox(item) ==
  /\ InDialog
  /\ LET l == PressCheckbox(list, item)
         c == Sync(l, cache)
         locked == Relocked(l, c)
     IN IF box
        THEN GoLive(Rebuild(l, locked.rows, search), locked.rows) /\ stray' = FALSE
        ELSE GoLive(l, c) /\ UNCHANGED stray
  /\ mouse' = "down"

(* onMouseLeftDown on a row, with any rows selected by then; of those, the  *)
(* control looks at the ones above the cutoff.                              *)
ClickRow(item, selected) ==
  /\ InDialog
  /\ list' = PressRow(list, item, selected, DraggingEnabled)
  /\ mouse' = "down"
  /\ UNCHANGED <<env, mods, cache, search, box, apply, stray>>

(* Where the pointer is taken with the button down: onMouseMotion to some   *)
(* line, or off the rows, or it does not move.                              *)
Lines == {None} \cup Indices(list) \cup {Len(list.rows)}
Still == -2
Moved(line) == IF line = Still THEN list ELSE Motion(list, line)

(* onMouseLeftUp and onItemDragged.  The rows remembered may be those of an *)
(* earlier press, and the target that of an earlier drag, because neither   *)
(* is reset by a release off the rows or outside the window.  others are    *)
(* rows selected and not dropped, which the handler reads in a search.      *)
MouseUp(line, others) ==
  LET before == Moved(line)
      l == Release(before)
      selected == ModsAt(l.rows, Dropped(before).at) \cup others
      c == ReorderFiltered(Sync(l, cache), selected, DropLine(before) = 0)
      S == ToSet(before.dragged)
  IN /\ phase = "dialog" /\ mouse = "down"
     /\ mouse' = "up"
     /\ IF ~ Drops(before)
        THEN /\ list' = before
             /\ UNCHANGED <<mods, cache, apply, search, box, env, stray>>
        ELSE /\ IF search /\ selected # {} THEN GoLive(Rebuild(l, c, TRUE), c)
                ELSE GoLive(l, cache)
             /\ stray' = (stray \/ ~ DraggingEnabled \/ Spans(S, DropLine(before))
                            \/ \E i \in S : i >= list.cutoff)

(* The button is released where the control does not see it; of the lines   *)
(* the pointer may have crossed on its way out, the first (a bound).        *)
MouseUpOutside(line) ==
  /\ phase = "dialog" /\ mouse = "down"
  /\ mouse' = "up"
  /\ list' = Moved(line)
  /\ UNCHANGED <<mods, cache, apply, search, box, env, stray>>

-----------------------------------------------------------------------------
(* The context menu, for the rows selected. *)

Selections == {S \in SUBSET Indices(list) : S # {}}

MoveSelected(S, toTop) ==
  /\ InDialog /\ ContextMoveEnabled /\ AllAbove(list, S)
  /\ LET moved == IF toTop THEN MovedTop(list, S) ELSE MovedBottom(list, S)
         l == [list EXCEPT !.rows = moved.rows]
         c == ReorderFiltered(Sync(l, cache), ModsAt(l.rows, moved.at), toTop)
     IN IF search THEN GoLive(Rebuild(l, c, TRUE), c) ELSE GoLive(l, cache)
  /\ UNCHANGED <<mouse, stray>>

EnableSelected(S, checked) ==
  /\ InDialog /\ CanCheck(list, S, checked)
  /\ LET l == CheckSelected(list, S, checked)
         c == Sync(l, cache)
         locked == Relocked(l, c)
     IN IF box
        THEN GoLive(Rebuild(l, locked.rows, search), locked.rows) /\ stray' = FALSE
        ELSE GoLive(l, c) /\ UNCHANGED stray
  /\ UNCHANGED mouse

IgnoreMeshes(S, ignored) ==
  /\ InDialog /\ CanIgnore(list, S, ignored)
  /\ ModsAt(list.rows, S) \subseteq Ignorable
  /\ GoLive(IgnoreSelected(list, S, ignored), cache)
  /\ UNCHANGED <<mouse, stray>>

-----------------------------------------------------------------------------
(* The other controls. *)

(* onSearchTextChanged: the list is made from the cache, nothing is synced. *)
SearchTextChanged ==
  /\ InDialog
  /\ search' = ~ search
  /\ list' = Rebuild(list, cache, search')
  /\ UNCHANGED <<env, mods, cache, box, apply, mouse, stray>>

(* onUseMO2LooseFileOrderChange: PGModManager is not written. *)
UseMO2LooseFileOrderChange ==
  /\ InDialog /\ Manager = "mo2"
  /\ box' = ~ box
  /\ LET synced == Sync(list, cache)
         c == IF box' THEN Relocked(list, synced).rows
              ELSE IF search THEN synced ELSE list.rows
     IN list' = Rebuild(list, c, search) /\ cache' = Sync(list', c)
  /\ stray' = (stray /\ ~ box')
  /\ UNCHANGED <<env, mods, search, mouse>>
  /\ SetApply

(* fillListCtrl sets the buttons, before the cache is made anew. *)
Refill(order, autoEnable) ==
  LET filled == FillListCtrl(list, cache, order, autoEnable, FALSE)
  IN /\ list' = Rebuild(list, filled.rows, search)
     /\ cache' = filled.rows
     /\ apply' = HasUnsavedChanges(Sync(filled, cache), mods, box', looseOrder)

(* onRestoreDefault, confirmed; its button is off under the lock.           *)
RestoreDefault ==
  /\ InDialog /\ ~ box
  /\ UNCHANGED <<env, mods, search, box, mouse>>
  /\ Refill(GetModsByDefaultOrder(mods), TRUE)
  /\ stray' = FALSE

(* onDiscardChanges, confirmed: back to PGModManager and PGConfig.          *)
DiscardChanges ==
  /\ InDialog /\ apply
  /\ box' = (Manager = "mo2" /\ looseOrder)
  /\ Refill(IF box' THEN GetModsByDefaultOrder(mods)
            ELSE GetModsByPriority(mods), FALSE)
  /\ stray' = FALSE
  /\ UNCHANGED <<env, mods, search, mouse>>

(* updateMods: write PGModManager, modrules.json and settings.json. *)
UpdateMods ==
  /\ mods' = Written(mods, Sync(list, cache))
  /\ saved' = GetJSON(mods')
  /\ looseOrder' = box
  /\ UNCHANGED <<session>>

(* The dialog is gone, and its state with it. *)
EndModal(result) ==
  /\ phase' = result
  /\ list' = EmptyList /\ cache' = <<>>
  /\ search' = FALSE /\ box' = FALSE /\ apply' = FALSE /\ stray' = FALSE
  /\ UNCHANGED mouse

(* modrules.json cannot be written, or it is and then settings.json cannot: *)
(* the message about it ends the program.                                   *)
UpdateModsFails ==
  /\ InDialog
  /\ saved' \in {saved, GetJSON(Written(mods, Sync(list, cache)))}
  /\ mods' = <<>>
  /\ EndModal("off")
  /\ UNCHANGED <<session, looseOrder>>

Apply ==
  /\ InDialog /\ apply
  /\ UpdateMods
  /\ cache' = Sync(list, cache)
  /\ UNCHANGED <<phase, list, search, box, mouse, stray>>
  /\ SetApply

Okay == InDialog /\ UpdateMods /\ EndModal("done")

(* Mutant: the run starts without updateMods. *)
RerunWithoutSaving ==
  InDialog /\ EndModal("patch") /\ UNCHANGED <<session, mods, saved, looseOrder>>

(* onRerunPatching, confirmed. *)
RerunPatching == InDialog /\ UpdateMods /\ EndModal("patch")

(* onClose and onBtnClose, confirmed when the code asks: what was edited    *)
(* stays in PGModManager.                                                   *)
Close ==
  /\ InDialog
  /\ EndModal("done")
  /\ UNCHANGED <<session, mods, saved, looseOrder>>

(* What the user begins ... *)
Event ==
  \/ \E i \in Indices(list) : ClickCheckbox(i)
  \/ \E i \in Indices(list) : \E S \in SUBSET (0 .. list.cutoff - 1) : ClickRow(i, S)
  \/ \E S \in Selections, b \in BOOLEAN :
       MoveSelected(S, b) \/ EnableSelected(S, b) \/ IgnoreMeshes(S, b)
  \/ SearchTextChanged \/ UseMO2LooseFileOrderChange
  \/ RestoreDefault \/ DiscardChanges \/ Apply

(* ... and ends. *)
EndOfEvent ==
  \/ \E line \in Lines \cup {Still} :
       \E others \in IF search THEN SUBSET RowMods(list.rows) ELSE {{}} :
         MouseUp(line, others)
  \/ \E line \in {0, Still} : MouseUpOutside(line)
  \/ Okay \/ RerunPatching \/ Close \/ UpdateModsFails

Program == MainRunnerPrep \/ MainRunnerPrepFails \/ MainRunnerPatch \/ Exit \/ OpenDialog

Next ==
  \/ events < MaxEvents /\ events' = events + 1 /\ Event
  \/ UNCHANGED events /\ (EndOfEvent \/ Program)

Spec == Init /\ [][Next]_vars

-----------------------------------------------------------------------------
(* Properties. *)

Row == [mod: Mods, checked: BOOLEAN, ignored: BOOLEAN]

(* The type invariant. *)
TypeOK ==
  /\ phase \in {"off", "patch", "done", "dialog"}
  /\ session \in 0 .. MaxSessions
  /\ DOMAIN mods \subseteq Mods /\ \A m \in DOMAIN mods : mods[m] \in Mod
  /\ DOMAIN saved \subseteq Mods /\ \A m \in DOMAIN saved : saved[m] \in SavedMod
  /\ ToSet(list.rows) \cup ToSet(cache) \subseteq Row
  /\ list.cutoff \in 0 .. Cardinality(Mods) /\ list.target \in Int
  /\ ToSet(list.dragged) \subseteq Nat
  /\ {looseOrder, search, box, apply, stray} \subseteq BOOLEAN
  /\ mouse \in {"up", "down"} /\ events \in 0 .. MaxEvents

StateIn(rows, m) == rows[SelectInSeq(rows, LAMBDA r : r.mod = m)]

(* As long as rows are dropped only where they are taken to, no mod is lost *)
(* or doubled by the copying between list, cache and search; what is shown  *)
(* agrees with the cache, and the cutoff separates the checked rows.        *)
NoModLost ==
  phase = "dialog" /\ ~ stray =>
    LET wanted == IF search THEN Shown \cap Found ELSE Shown
    IN /\ RowMods(cache) = Shown /\ Len(cache) = Cardinality(Shown)
       /\ RowMods(list.rows) = wanted /\ Len(list.rows) = Cardinality(wanted)
       /\ \A m \in wanted : StateIn(list.rows, m) = StateIn(cache, m)
       /\ \A i \in Indices(list) : RowAt(list, i).checked <=> i < list.cutoff

ModsInOrder(rows) == LET s == Split(rows) IN [i \in DOMAIN s |-> s[i].mod]

(* Under the lock the enabled rows are in the mod manager's order, whatever *)
(* is checked, searched or restored.                                        *)
LockKeepsDefaultOrder ==
  phase = "dialog" /\ box /\ ~ stray =>
    ModsInOrder(Kept(cache, On(cache))) = Kept(GetModsByDefaultOrder(mods), CheckedIn(cache))

(* Types, and what the dialog shows: every mod once, and the lock's order. *)
DialogSafe == TypeOK /\ NoModLost /\ LockKeepsDefaultOrder

(* Patching uses PGModManager: whenever it starts, after preparation or     *)
(* from the dialog, PGModManager is what modrules.json says.                *)
RunIsSaved == phase = "patch" => saved = GetJSON(mods)

(* Whenever the dialog writes modrules.json, with or without a search and   *)
(* whatever came before, the file says of the rows on the screen what they  *)
(* show; without a search it puts the enabled ones in the order they are    *)
(* shown in.  Of the mods the dialog does not show it says what it said.    *)
AppliedIsShown ==
  [][phase = "dialog" /\ ~ stray /\ saved' # saved =>
       LET shown == RowMods(list.rows)
           on == {m \in shown : saved'[m].enabled}
       IN /\ \A m \in shown : /\ saved'[m].enabled = StateIn(list.rows, m).checked
                              /\ saved'[m].ignored = StateIn(list.rows, m).ignored
          /\ ~ search => \A i, j \in Indices(list) :
               i < j /\ {RowAt(list, i).mod, RowAt(list, j).mod} \subseteq on
                 => saved'[RowAt(list, i).mod].priority > saved'[RowAt(list, j).mod].priority
          /\ \A m \in DOMAIN saved \ Shown : saved'[m] = saved[m]]_vars

(* From one session to the next the enabled mods keep the order the user    *)
(* gave them, whatever came, went or lost its files in between, and new     *)
(* mods are above them.                                                     *)
OrderSurvives ==
  [][phase = "off" /\ ~ looseOrder =>
       LET old == {m \in DOMAIN mods' \cap DOMAIN saved : saved[m].enabled}
           new == {m \in DOMAIN mods' \ DOMAIN saved : mods'[m].enabled}
       IN /\ \A m \in old : mods'[m].enabled
          /\ \A m, n \in old : saved[m].priority > saved[n].priority
                                => mods'[m].priority > mods'[n].priority
          /\ \A m \in new, n \in old : mods'[m].priority > mods'[n].priority]_vars


-----------------------------------------------------------------------------
(* What the code says of itself and does not keep. *)

(* ModSortDialog.hpp:306: hasUnsavedChanges "checks whether the current     *)
(* list/checkbox state differs from the saved state"; so while Apply is off *)
(* modrules.json is what Apply would write.                                 *)
ApplyOffMeansSaved ==
  phase = "dialog" /\ ~ apply /\ ~ stray =>
    saved = GetJSON(Written(mods, cache)) /\ (Manager = "mo2" => box = looseOrder)

(* ModSortDialog.cpp:1037: in a search "the visible order cannot diverge    *)
(* from the cached order"; the enabled rows on the screen come in the order *)
(* they have in the cache, from which their mods are numbered.              *)
SearchShowsOrder ==
  phase = "dialog" /\ search /\ ~ box /\ ~ stray =>
    LET enabled == CheckedIn(list.rows)
        InOrder(rows) == SelectSeq(ModsInOrder(rows), LAMBDA m : m \in enabled)
    IN InOrder(list.rows) = InOrder(cache)

(* PGCheckedDragListCtrl.hpp:229: moveItems moves "multiple items from one  *)
(* set of indices to a target index"; the rows the user drops are there     *)
(* afterwards, next to each other.                                          *)
DragMovesRows ==
  [][phase = "dialog" /\ mouse = "down" /\ mouse' = "up" /\ DraggingEnabled /\ ~ stray
       /\ list.dragged # NoDrag /\ list'.dragged = NoDrag =>
       LET taken == ModsAt(list.rows, ToSet(list.dragged))
           places == {i \in Indices(list') : RowAt(list', i).mod \in taken}
       IN /\ Cardinality(places) = Cardinality(taken)
          /\ \A i, j \in places : i - j < Cardinality(taken)]_vars

=============================================================================
