---------------------------- MODULE DragList ----------------------------
(***************************************************************************)
(* PGCheckedDragListCtrl: the list of mods with a check box on every row,  *)
(* a cutoff line between the checked rows and the others, and rows that    *)
(* are dragged (PGPatcher/src/GUI/components/PGCheckedDragListCtrl.cpp).   *)
(*                                                                         *)
(* A row is [mod, checked, ignored]; the control is the record             *)
(*   rows    the rows, from the top                                        *)
(*   cutoff  m_cutoffLine                                                  *)
(*   dragged the indices in m_draggedRows                                  *)
(*   target  m_targetLineIndex                                             *)
(* Indices and lines count from 0 as they do in the code.  The operators   *)
(* are the control's functions, from one state of the record to the next.  *)
(***************************************************************************)
EXTENDS Integers, Sequences, FiniteSets, SequencesExt

None == -1
NoDrag == <<>>

Indices(list) == 0 .. Len(list.rows) - 1
RowAt(list, i) == list.rows[i + 1]
RowMods(rows) == {rows[i].mod : i \in DOMAIN rows}

SetRow(list, i, field, value) ==
  [list EXCEPT !.rows[i + 1] = [@ EXCEPT ![field] = value]]

(* check and ignoreMeshes for several rows. *)
SetRows(list, S, field, value) ==
  [list EXCEPT !.rows = [i \in DOMAIN @ |->
     IF i - 1 \in S THEN [@[i] EXCEPT ![field] = value] ELSE @[i]]]

(* The elements of s that are in S, in their order. *)
Kept(s, S) ==
  LET upTo[k \in 0 .. Len(s)] ==
        IF k = 0 THEN <<>>
        ELSE IF s[k] \in S THEN Append(upTo[k - 1], s[k]) ELSE upTo[k - 1]
  IN upTo[Len(s)]

Ascending(S) == Kept([i \in 1 .. Max({0} \cup S) + 1 |-> i - 1], S)

-----------------------------------------------------------------------------
(* moveItem: the row is deleted and inserted again.  InsertItem refuses a   *)
(* negative index, and then the row is gone; an index beyond the end stands *)
(* for the end.  The result is the rows and the new index.                  *)
MoveItem(rows, from, to) ==
  IF from = to \/ from < 0 \/ from >= Len(rows) THEN [rows |-> rows, at |-> from]
  ELSE LET item == rows[from + 1]
           without == RemoveAt(rows, from + 1)
           at == Min({IF from < to THEN to - 1 ELSE to, Len(without)})
       IN IF at < 0 THEN [rows |-> without, at |-> None]
          ELSE [rows |-> InsertAt(without, at + 1, item), at |-> at]

(* moveItems: the selected rows, given by ascending index, go to a line.    *)
(* The direction is taken from the first of them; every further row is     *)
(* moved to a line one up or one down, at the index it had at the start.    *)
MoveItems(rows, fromIndices, to) ==
  IF fromIndices = NoDrag \/ to < 0 \/ to > Len(rows)
  THEN [rows |-> rows, at |-> ToSet(fromIndices)]
  ELSE LET down == fromIndices[1] < to
           order == IF down THEN Reverse(fromIndices) ELSE fromIndices
           Step(acc, i) ==
             LET moved == MoveItem(acc.rows, order[i],
                                   IF down THEN to - (i - 1) ELSE to + (i - 1))
             IN [rows |-> moved.rows, at |-> acc.at \cup {moved.at}]
           upTo[k \in 0 .. Len(order)] ==
             IF k = 0 THEN [rows |-> rows, at |-> {}] ELSE Step(upTo[k - 1], k)
       IN upTo[Len(order)]

(* The mods that are selected after a move. *)
ModsAt(rows, S) == {rows[i + 1].mod : i \in S \cap (0 .. Len(rows) - 1)}

(* A selection that starts above the line it is dropped at and reaches      *)
(* beyond it.                                                               *)
Spans(S, to) == \E i, j \in S : i < to /\ j >= to

-----------------------------------------------------------------------------
(* processCheckItem: a row that has been checked goes to the end of the     *)
(* rows above the cutoff, one that has been unchecked to the cutoff.        *)
ProcessCheckItem(list, item, checked) ==
  IF checked /\ item >= list.cutoff
  THEN [list EXCEPT !.rows = MoveItem(@, item, list.cutoff).rows, !.cutoff = @ + 1]
  ELSE IF ~ checked /\ item < list.cutoff
  THEN [list EXCEPT !.rows = MoveItem(@, item, list.cutoff).rows, !.cutoff = @ - 1]
  ELSE list

ProcessCheckItems(list, S, checked) ==
  LET order == IF checked THEN Ascending(S) ELSE Reverse(Ascending(S))
      upTo[k \in 0 .. Len(order)] ==
        IF k = 0 THEN list ELSE ProcessCheckItem(upTo[k - 1], order[k], checked)
  IN upTo[Len(order)]

(* onMouseLeftDown on a check box. *)
PressCheckbox(list, item) ==
  LET checked == ~ RowAt(list, item).checked
  IN ProcessCheckItem(SetRow(list, item, "checked", checked), item, checked)

(* onMouseLeftDown on a row: when rows may be dragged and the row is above  *)
(* the cutoff, the selected rows above it are remembered.                   *)
PressRow(list, item, selected, draggingEnabled) ==
  IF draggingEnabled /\ item < list.cutoff
  THEN [list EXCEPT !.dragged = Ascending({i \in selected : i < list.cutoff})]
  ELSE list

(* onMouseMotion with the button down.  line is the line the pointer is     *)
(* nearest to, None off the rows.                                           *)
Motion(list, line) ==
  IF list.dragged = NoDrag THEN list
  ELSE [list EXCEPT !.target = IF line > list.cutoff THEN list.cutoff ELSE line]

(* onMouseLeftUp.  Without a target the remembered rows stay.               *)
Drops(list) == list.dragged # NoDrag /\ list.target # None

DropLine(list) == IF list.target > list.cutoff THEN list.cutoff ELSE list.target

Dropped(list) == MoveItems(list.rows, list.dragged, DropLine(list))

Release(list) ==
  IF Drops(list)
  THEN [list EXCEPT !.rows = Dropped(list).rows, !.dragged = NoDrag, !.target = None]
  ELSE list

-----------------------------------------------------------------------------
(* onContextMenu: what its entries do and when each can be chosen. *)
AllAbove(list, S) == \A i \in S : i < list.cutoff

MovedTop(list, S) == MoveItems(list.rows, Ascending(S), 0)

MovedBottom(list, S) == MoveItems(list.rows, Ascending(S), list.cutoff)

CanCheck(list, S, checked) == \E i \in S : RowAt(list, i).checked # checked

CheckSelected(list, S, checked) ==
  ProcessCheckItems(SetRows(list, S, "checked", checked), S, checked)

CanIgnore(list, S, ignored) == \E i \in S : RowAt(list, i).ignored # ignored

IgnoreSelected(list, S, ignored) == SetRows(list, S, "ignored", ignored)

=============================================================================
