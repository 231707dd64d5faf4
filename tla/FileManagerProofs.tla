------------------------- MODULE FileManagerProofs -------------------------
(* The file manager's cursor, terminal settings and layout, for every tree *)
(* it is started in, every set of terminal heights and every number of     *)
(* dialogs.                                                                *)
EXTENDS FileManager, FiniteSetTheorems, TLAPS

(* A panel's counters are numbers. *)
IsPanel(q) == q.count \in Int /\ q.selected \in Int /\ q.scroll \in Int

PanelOK(q) == IsPanel(q) /\ InListing(q)

(* A panel is as good as its counters. *)
LEMMA PanelFields ==
  ASSUME NEW c, NEW e, NEW n \in Int, NEW i \in Int, NEW j \in Int,
         n > 0 => i \in 0 .. n - 1 /\ j \in 0 .. n - 1
  PROVE  PanelOK(PanelOf(c, e, n, i, j))
<1> DEFINE r == PanelOf(c, e, n, i, j)
<1>1. r.count = n /\ r.selected = i /\ r.scroll = j
  BY DEF PanelOf
<1> HIDE DEF r
<1>2. IsPanel(r) /\ InListing(r)
  BY <1>1 DEF IsPanel, InListing
<1> QED BY <1>2 DEF PanelOK, r

-----------------------------------------------------------------------------
(* The tree remains finite, so that scandir returns a number of entries. *)

(* The names in a directory of a finite tree are finitely many. *)
LEMMA ChildrenFinite ==
  ASSUME NEW t, IsFiniteSet(DOMAIN t), NEW d
  PROVE  IsFiniteSet(Children(t, d))
<1> DEFINE S == {q \in DOMAIN t \ {<<>>} : Front(q) = d}
<1> DEFINE f == [q \in S |-> Last(q)]
<1>1. IsFiniteSet(S)
  BY FS_Subset, S \in SUBSET DOMAIN t
<1>2. f \in Surjection(S, Children(t, d))
  BY DEF Surjection, Children
<1> QED BY <1>1, <1>2, FS_Surjection

(* load_directory leaves a panel whose cursor is in its listing, whatever  *)
(* it was before.                                                          *)
LEMMA LoadOK ==
  ASSUME NEW t, IsFiniteSet(DOMAIN t), NEW q, IsPanel(q)
  PROVE  PanelOK(load_directory(t, q))
<1> DEFINE d == Real(t, q.cwd)
<1> DEFINE names == Children(t, d)
<1>1. /\ Cardinality(names \cap First) \in Nat
      /\ Cardinality(names \ First) \in Nat
  <2>1. IsFiniteSet(names)
    BY ChildrenFinite
  <2>2. IsFiniteSet(names \cap First) /\ IsFiniteSet(names \ First)
    BY <2>1, FS_Subset, names \cap First \in SUBSET names, names \ First \in SUBSET names
  <2> QED BY <2>2, FS_CardinalityType
<1>2. PanelOK(Listed(t, q, d))
  <2> DEFINE k == Cardinality(names \cap First)
  <2> DEFINE m == Cardinality(names \ First)
  <2>1. k \in Nat /\ m \in Nat
    BY <1>1
  <2> DEFINE n == k + 2 + m
  <2> DEFINE i == k + 1
  <2>2. Listed(t, q, d) = PanelOf(q.cwd, Scandir(t, d), n, i, 0)
    BY DEF Listed
  <2> HIDE DEF k, m, d
  <2>3. n \in Int /\ i \in Int /\ 0 \in Int /\ i \in 0 .. n - 1 /\ 0 \in 0 .. n - 1
    BY <2>1
  <2> HIDE DEF n, i
  <2>4. PanelOK(PanelOf(q.cwd, Scandir(t, d), n, i, 0))
    BY <2>3, PanelFields
  <2> QED BY <2>2, <2>4
<1>3. PanelOK(Unlisted(q))
  BY PanelFields DEF Unlisted, IsPanel
<1> QED BY <1>2, <1>3 DEF load_directory

(* enter_directory keeps the panel as it is but for cwd, or loads it. *)
LEMMA EnterOK ==
  ASSUME NEW t, IsFiniteSet(DOMAIN t), NEW q, PanelOK(q),
         NEW r \in enter_directory(t, q)
  PROVE  PanelOK(r)
<1>1. ASSUME NEW c
      PROVE  PanelOK(In(q, c)) /\ PanelOK(load_directory(t, In(q, c)))
  <2>1. PanelOK(In(q, c))
    BY PanelFields DEF In, PanelOK, IsPanel, InListing
  <2> QED BY <2>1, LoadOK DEF PanelOK
<1>2. \/ r = q
      \/ \E c : r = In(q, c)
      \/ \E c : r = load_directory(t, In(q, c))
  BY DEF enter_directory
<1> QED BY <1>1, <1>2

(* move_selection keeps the cursor in the listing and, in a panel of more  *)
(* than a frame, leaves it in view from wherever it was.                   *)
LEMMA MoveOK ==
  ASSUME NEW q, PanelOK(q), NEW dir \in {-1, 1}, NEW h \in Int
  PROVE  /\ PanelOK(move_selection(q, dir, h))
         /\ Visible(move_selection(q, dir, h), h)
<1> DEFINE r == move_selection(q, dir, h)
<1> DEFINE sel == Clip(q.selected + dir, 0, q.count - 1)
<1> DEFINE top == IF sel < q.scroll THEN sel
                  ELSE IF sel >= q.scroll + (h - 2) THEN sel - (h - 2) + 1
                  ELSE q.scroll
<1> DEFINE scr == Clip(top, 0, q.count - (h - 2))
<1>0. /\ q.count \in Int /\ q.selected \in Int /\ q.scroll \in Int
      /\ q.count > 0 => q.selected \in 0 .. q.count - 1 /\ q.scroll \in 0 .. q.count - 1
  BY DEF PanelOK, IsPanel, InListing
<1>1. CASE q.count <= 0
  BY <1>0, <1>1 DEF PanelOK, InListing, move_selection, Visible
<1>2. CASE q.count > 0 /\ h <= 2
  <2>1. r = At(q, 0, 0)
    BY <1>0, <1>2 DEF move_selection
  <2>2. PanelOK(r)
    BY <1>0, <1>2, <2>1, PanelFields DEF At
  <2>3. Visible(r, h)
    BY <1>2 DEF Visible
  <2> QED BY <2>2, <2>3
<1>3. CASE q.count > 0 /\ h > 2
  <2>1. r = PanelOf(q.cwd, q.entries, q.count, sel, scr)
    BY <1>0, <1>3 DEF move_selection, At
  <2>2. sel \in 0 .. q.count - 1
    BY <1>0, <1>3 DEF Clip
  <2>3. scr \in 0 .. q.count - 1 /\ sel \in scr .. scr + h - 3
    <3> HIDE DEF sel
    <3>1. top \in Int /\ top <= sel /\ sel < top + (h - 2)
      BY <1>0, <1>3, <2>2
    <3> HIDE DEF top
    <3> QED BY <1>0, <1>3, <2>2, <3>1 DEF Clip
  <2> HIDE DEF r, sel, scr
  <2>4. sel \in Int /\ scr \in Int
    BY <1>0, <2>2, <2>3
  <2>5. PanelOK(r)
    BY <1>0, <2>1, <2>2, <2>3, <2>4, PanelFields
  <2>6. r.selected = sel /\ r.scroll = scr
    BY <2>1 DEF PanelOf
  <2>7. Visible(r, h)
    BY <2>3, <2>6 DEF Visible
  <2> QED BY <2>5, <2>7 DEF r
<1> QED BY <1>0, <1>1, <1>2, <1>3

(* A step of a file operation leaves a finite tree, and op alone. *)
LEMMA TreeStepFinite ==
  ASSUME IsFiniteSet(DOMAIN tree), TreeStep
  PROVE  IsFiniteSet(DOMAIN tree') /\ op' = op
<1>1. ASSUME NEW t, IsFiniteSet(DOMAIN t), NEW e, NEW node
      PROVE  IsFiniteSet(DOMAIN Put(t, e, node)) /\ IsFiniteSet(DOMAIN Without(t, e))
  <2>1. DOMAIN Put(t, e, node) = DOMAIN t \cup {e} /\ DOMAIN Without(t, e) = DOMAIN t \ {e}
    BY DEF Put, Without
  <2> QED BY <1>1, <2>1, FS_AddElement, FS_RemoveElement
<1>2. ASSUME NEW e, NEW f
      PROVE  IsFiniteSet(DOMAIN Renamed(e, f))
  <2> DEFINE below == Below(tree, e)
  <2> DEFINE kept == DOMAIN tree \ (below \cup {f})
  <2> DEFINE g == [r \in below |-> Shift(r, e, f)]
  <2> DEFINE moved == {Shift(r, e, f) : r \in below}
  <2>1. IsFiniteSet(below) /\ IsFiniteSet(kept)
    BY FS_Subset, below \in SUBSET DOMAIN tree, kept \in SUBSET DOMAIN tree DEF Below
  <2>2. g \in Surjection(below, moved)
    BY Zenon DEF Surjection
  <2>3. IsFiniteSet(moved)
    BY <2>1, <2>2, FS_Surjection
  <2>4. IsFiniteSet(kept \cup moved)
    BY <2>1, <2>3, FS_Union, Zenon
  <2>5. DOMAIN Renamed(e, f) = DOMAIN tree \/ DOMAIN Renamed(e, f) = kept \cup moved
    BY Zenon DEF Renamed
  <2> QED BY <2>4, <2>5
<1>3. CASE StatFails \/ MoveToItself \/ RenameFails \/ MkdirFails \/ CopyFails
  BY <1>3 DEF StatFails, MoveToItself, RenameFails, MkdirFails, CopyFails, Return
<1>4. CASE RenameSucceeds
  BY <1>2, <1>4 DEF RenameSucceeds
<1>5. CASE EnterDirectory
  BY <1>1, <1>5 DEF EnterDirectory
<1>6. CASE OpenCopy
  BY <1>1, <1>6 DEF OpenCopy
<1>7. CASE CopyBlock \/ ReadFails
  BY <1>7 DEF CopyBlock, ReadFails
<1>8. CASE EndCopy
  BY <1>1, <1>8 DEF EndCopy
<1>9. CASE OpenForDelete
  BY <1>9 DEF OpenForDelete
<1>10. CASE UnlinkFile
  BY <1>1, <1>10 DEF UnlinkFile, Return
<1>11. CASE CloseDir
  BY <1>1, <1>11 DEF CloseDir
<1>12. CASE \E n \in Names : ReadDir(n)
  BY <1>12 DEF ReadDir
<1> QED
  BY <1>3, <1>4, <1>5, <1>6, <1>7, <1>8, <1>9, <1>10, <1>11, <1>12 DEF TreeStep

-----------------------------------------------------------------------------
(* The inductive invariant.  What a dialog saved is what it will restore:  *)
(* it was opened over the settings of init_curses, and a confirmation does *)
(* not show the cursor, so that it need not hide it.                       *)
PanelsOK ==
  /\ IsFiniteSet(DOMAIN tree)
  /\ panels = [s \in Sides |-> panels[s]] /\ active \in Sides
  /\ \A s \in Sides : PanelOK(panels[s])
  /\ rows \in Int /\ laid \in Int

SettingsOK ==
  /\ TerminalRestored
  /\ dialog.cmd # "none" => dialog.saved = Browsing
  /\ Asks => term.cursor = 0

FMInv == PanelsOK /\ SettingsOK /\ ResizeIsNoticed

(* FMInv holds at the start. *)
LEMMA FMInitInv == FMInit => FMInv
<1> SUFFICES ASSUME FMInit PROVE FMInv
  OBVIOUS
<1>1. PanelsOK
  <2>1. ASSUME NEW i \in Int, NEW j \in Int
        PROVE  PanelOK(load_directory(tree, NewPanel(<<>>, i, j)))
    <3>1. IsPanel(NewPanel(<<>>, i, j))
      BY DEF NewPanel, PanelOf, IsPanel
    <3> QED BY <3>1, LoadOK, StartAssumption DEF FMInit
  <2>2. PICK i \in [Sides -> Stray], j \in [Sides -> Stray] :
          panels = [s \in Sides |-> load_directory(tree, NewPanel(<<>>, i[s], j[s]))]
    BY DEF FMInit
  <2>3. \A s \in Sides : i[s] \in Int /\ j[s] \in Int
    BY StartAssumption
  <2>4. \A s \in Sides : PanelOK(panels[s])
    BY <2>1, <2>2, <2>3
  <2>5. panels = [s \in Sides |-> panels[s]]
    BY <2>2
  <2> QED BY <2>4, <2>5, StartAssumption DEF FMInit, PanelsOK, Sides
<1>2. SettingsOK /\ ResizeIsNoticed
  BY DEF FMInit, SettingsOK, TerminalRestored, ResizeIsNoticed, NoDialog, DialogOf, Asks
<1> QED BY <1>1, <1>2 DEF FMInv

(* The panels, step by step. *)
LEMMA PanelsStep ==
  ASSUME PanelsOK, FMNext
  PROVE  PanelsOK'
<1> USE DEF PanelsOK
<1>1. ASSUME NEW s \in Sides, NEW q, PanelOK(q), panels' = [panels EXCEPT ![s] = q]
      PROVE  panels' = [z \in Sides |-> panels'[z]] /\ \A z \in Sides : PanelOK(panels'[z])
  BY <1>1
<1>2. rows' \in Rows => rows' \in Int
  BY StartAssumption
<1>3. CASE Resize \/ Quit \/ Tab \/ DialogTab \/ DialogResize \/ Escape
  BY <1>2, <1>3 DEF Resize, Quit, Tab, DialogTab, DialogResize, Escape, Cancel, Layout,
     treeVars, Other, Sides
<1>4. CASE Enter
  BY <1>1, <1>4, EnterOK DEF Enter, treeVars, p
<1>5. ASSUME NEW dir \in {-1, 1}, Arrow(dir) \/ \E s \in Sides : Wheel(s, dir)
      PROVE  PanelsOK'
  <2>1. Height \in Int
    BY DEF Height
  <2>2. CASE Arrow(dir)
    BY <1>1, <2>1, <2>2, MoveOK DEF Arrow, treeVars, p
  <2>3. ASSUME NEW s \in Sides, Wheel(s, dir) PROVE PanelsOK'
    <3>1. panels' = [panels EXCEPT ![s] = move_selection(panels[s], dir, Height)]
      BY <2>3 DEF Wheel
    <3> QED BY <1>1, <2>1, <2>3, <3>1, MoveOK DEF Wheel, treeVars
  <2> QED BY <1>5, <2>2, <2>3
<1>6. ASSUME NEW s \in Sides, NEW y \in 0 .. rows - 1, NEW quick \in BOOLEAN, Click(s, y, quick)
      PROVE  PanelsOK'
  <2> DEFINE idx == Line(panels[s], y)
  <2> DEFINE q == At(panels[s], idx, panels[s].scroll)
  <2>1. CASE UNCHANGED panels
    BY <1>6, <2>1 DEF Click, treeVars
  <2>2. CASE idx \in 0 .. panels[s].count - 1
    <3>1. PanelOK(q)
      <4>1. /\ panels[s].count \in Int /\ panels[s].scroll \in Int /\ idx \in Int
            /\ panels[s].count > 0 => panels[s].scroll \in 0 .. panels[s].count - 1
        BY <2>2 DEF PanelOK, IsPanel, InListing
      <4> HIDE DEF idx
      <4> QED BY <2>2, <4>1, PanelFields DEF At
    <3>2. \/ panels' = [panels EXCEPT ![s] = q]
          \/ \E r \in enter_directory(tree, q) : panels' = [panels EXCEPT ![s] = r]
      BY <1>6, <2>2 DEF Click
    <3> QED BY <1>1, <1>6, <3>1, <3>2, EnterOK DEF Click, treeVars
  <2> QED BY <1>6, <2>1, <2>2 DEF Click
<1>7. CASE \E key \in BOOLEAN : \/ Command(key)
                               \/ \E cmd \in {"create", "copy", "move", "delete"} : OpenDialog(cmd, key)
  BY <1>7 DEF Command, OpenDialog, Layout, treeVars
<1>8. CASE \E text \in Texts \cup {NoPath} : Type(text)
  BY <1>8 DEF Type, treeVars
<1>9. ASSUME NEW focus \in 0 .. 2, Answer(focus)
      PROVE  PanelsOK'
  <2>1. CASE Cancel
    BY <2>1 DEF Cancel, Layout, treeVars
  <2>2. CASE MakeDirectory
    <3>1. IsFiniteSet(DOMAIN tree')
      BY <2>2, FS_AddElement DEF MakeDirectory, Put
    <3>2. PanelOK(load_directory(tree', panels[active]))
      BY <3>1, LoadOK DEF PanelOK
    <3>3. panels' = [panels EXCEPT ![active] = load_directory(tree', panels[active])]
      BY <2>2 DEF MakeDirectory
    <3> QED BY <1>1, <2>2, <3>1, <3>2, <3>3 DEF MakeDirectory, Layout
  <2>3. CASE BeginOperation
    BY <2>3 DEF BeginOperation
  <2>4. CASE UNCHANGED <<panels, active, rows, laid, term, last, state, dialogs, treeVars>>
    BY <2>4 DEF treeVars
  <2> QED BY <1>9, <2>1, <2>2, <2>3, <2>4 DEF Answer, Confirm
<1>10. CASE Operate
  BY <1>10, TreeStepFinite DEF Operate, uiVars
<1>11. CASE EndOperation
  <2>1. \A s \in Sides : PanelOK(load_directory(tree, panels[s]))
    BY LoadOK DEF PanelOK
  <2> QED BY <1>11, <2>1 DEF EndOperation, Layout
<1> QED
  BY <1>3, <1>4, <1>5, <1>6, <1>7, <1>8, <1>9, <1>10, <1>11 DEF FMNext

(* The steps that open, change or close a dialog; all the others leave     *)
(* dialog, term and state of the operation alone.                          *)
LEMMA DialogSteps ==
  ASSUME FMNext
  PROVE  \/ UNCHANGED <<dialog, term>>
         \/ \E cmd \in {"create", "copy", "move", "delete"}, key \in BOOLEAN : OpenDialog(cmd, key)
         \/ InDialog /\ UNCHANGED <<term, op>> /\ \E focus, text : dialog' = Editing(focus, text)
         \/ InDialog /\ CloseDialog
<1>1. CASE Resize \/ Quit \/ Tab \/ Enter \/ DialogResize \/ Operate \/ EndOperation
  BY <1>1 DEF Resize, Quit, Tab, Enter, DialogResize, Operate, uiVars, EndOperation
<1>2. CASE \E dir \in {-1, 1} : Arrow(dir) \/ \E s \in Sides : Wheel(s, dir)
  BY <1>2 DEF Arrow, Wheel
<1>3. CASE \E s \in Sides, y \in 0 .. rows - 1, quick \in BOOLEAN : Click(s, y, quick)
  BY <1>3 DEF Click
<1>4. CASE \E key \in BOOLEAN : Command(key)
  BY <1>4 DEF Command
<1>5. CASE DialogTab \/ \E text \in Texts \cup {NoPath} : Type(text)
  BY <1>5 DEF DialogTab, Type, treeVars
<1>6. CASE Escape
  BY <1>6 DEF Escape, Cancel
<1>7. ASSUME NEW focus \in 0 .. 2, Answer(focus)
      PROVE  \/ InDialog /\ UNCHANGED <<term, op>> /\ dialog' = Editing(focus, dialog.text)
             \/ InDialog /\ CloseDialog
  BY <1>7 DEF Answer, Confirm, Cancel, MakeDirectory, BeginOperation, treeVars
<1> QED
  BY <1>1, <1>2, <1>3, <1>4, <1>5, <1>6, <1>7 DEF FMNext

(* A dialog is opened over the settings of init_curses and restores them. *)
LEMMA SettingsStep ==
  ASSUME SettingsOK, FMNext
  PROVE  SettingsOK'
<1> USE DEF SettingsOK, TerminalRestored, Asks
<1>1. CASE UNCHANGED <<dialog, term>>
  BY <1>1
<1>2. ASSUME NEW cmd \in {"create", "copy", "move", "delete"}, NEW key \in BOOLEAN,
             OpenDialog(cmd, key)
      PROVE  SettingsOK'
  <2>1. dialog'.cmd = cmd /\ dialog'.saved = Browsing
    BY <1>2 DEF OpenDialog, Idle, DialogOf
  <2>2. cmd = "delete" => term'.cursor = 0
    BY <1>2 DEF OpenDialog, Idle, Browsing
  <2> QED BY <2>1, <2>2
<1>3. CASE InDialog /\ UNCHANGED term /\ \E focus, text : dialog' = Editing(focus, text)
  <2>1. dialog'.cmd = dialog.cmd /\ dialog'.saved = dialog.saved
    BY <1>3 DEF Editing, DialogOf
  <2> QED BY <1>3, <2>1
<1>4. CASE InDialog /\ CloseDialog
  <2>1. dialog'.cmd = "none"
    BY <1>4 DEF CloseDialog, NoDialog, DialogOf
  <2>2. term' = [Browsing EXCEPT !.cursor = 0]
    BY <1>4 DEF CloseDialog, Restore, InDialog
  <2>3. term' = Browsing
    BY <2>2 DEF Browsing
  <2> QED BY <2>1, <2>3
<1> QED BY <1>1, <1>2, <1>3, <1>4, DialogSteps

(* A hotkey's command ends with update_layout; the height changes nowhere  *)
(* without it but in a confirmation.                                       *)
LEMMA ResizeStep ==
  ASSUME ResizeIsNoticed, IsFiniteSet(DOMAIN tree), FMNext
  PROVE  ResizeIsNoticed'
<1> USE DEF ResizeIsNoticed
<1>1. CASE Resize \/ Quit \/ Tab \/ Enter
  BY <1>1 DEF Resize, Quit, Tab, Enter, treeVars
<1>2. CASE \E dir \in {-1, 1} : Arrow(dir) \/ \E s \in Sides : Wheel(s, dir)
  BY <1>2 DEF Arrow, Wheel, treeVars
<1>3. CASE \E s \in Sides, y \in 0 .. rows - 1, quick \in BOOLEAN : Click(s, y, quick)
  BY <1>3 DEF Click, treeVars
<1>4. CASE \E key \in BOOLEAN : Command(key)
  BY <1>4 DEF Command, Layout, treeVars
<1>5. CASE \E key \in BOOLEAN, cmd \in {"create", "copy", "move", "delete"} : OpenDialog(cmd, key)
  BY <1>5 DEF OpenDialog, DialogOf
<1>6. CASE DialogTab \/ DialogResize \/ \E text \in Texts \cup {NoPath} : Type(text)
  BY <1>6 DEF DialogTab, DialogResize, Type, InDialog, Editing, DialogOf
<1>7. ASSUME CloseDialog, Layout(dialog.key) PROVE ResizeIsNoticed' \/ rows' # rows
  BY <1>7 DEF CloseDialog, Layout, NoDialog, DialogOf
<1>8. CASE Escape
  BY <1>7, <1>8 DEF Escape, Cancel
<1>9. ASSUME NEW focus \in 0 .. 2, Answer(focus)
      PROVE  ResizeIsNoticed'
  <2>1. CASE Cancel \/ MakeDirectory
    BY <1>7, <2>1 DEF Cancel, MakeDirectory
  <2>2. CASE dialog.cmd # "create" /\ InDialog /\ BeginOperation
    BY <2>2 DEF BeginOperation, StartTree, InDialog
  <2>3. CASE InDialog /\ dialog' = Editing(focus, dialog.text)
    BY <2>3 DEF InDialog, Editing, DialogOf
  <2> QED BY <1>9, <2>1, <2>2, <2>3 DEF Answer, Confirm
<1>10. CASE Operate
  BY <1>10, TreeStepFinite DEF Operate, uiVars
<1>11. CASE EndOperation
  BY <1>11 DEF EndOperation, Layout
<1> QED
  BY <1>1, <1>2, <1>3, <1>4, <1>5, <1>6, <1>8, <1>9, <1>10, <1>11 DEF FMNext

(* FMInv is inductive. *)
LEMMA FMInvStep == FMInv /\ [FMNext]_allVars => FMInv'
<1>1. ASSUME FMInv, FMNext PROVE FMInv'
  BY <1>1, PanelsStep, SettingsStep, ResizeStep DEF FMInv, PanelsOK
<1>2. ASSUME FMInv, UNCHANGED allVars PROVE FMInv'
  BY <1>2 DEF FMInv, PanelsOK, SettingsOK, TerminalRestored, ResizeIsNoticed, Asks,
     allVars, uiVars, treeVars
<1> QED BY <1>1, <1>2

-----------------------------------------------------------------------------
(* In every behaviour of the file manager the cursors are in the listings, *)
(* the terminal is restored after dialogs, and a resize is missed only by  *)
(* a confirmation opened with the mouse.                                   *)
THEOREM FileManagerSafe ==
  FMSpec => [](CursorInListing /\ TerminalRestored /\ ResizeIsNoticed)
<1>1. FMInv => CursorInListing /\ TerminalRestored /\ ResizeIsNoticed
  BY DEF FMInv, PanelsOK, SettingsOK, PanelOK, CursorInListing
<1> QED BY FMInitInv, FMInvStep, <1>1, PTL DEF FMSpec

(* Whichever way dialogs were left, outside of them the terminal is as     *)
(* init_curses set it.                                                     *)
THEOREM TerminalIsRestored == FMSpec => []TerminalRestored
BY FileManagerSafe, PTL

(* Between dialogs the layout is that of the terminal's height, unless the *)
(* last of them was opened with the mouse.                                 *)
THEOREM ResizesAreNoticed == FMSpec => []ResizeIsNoticed
BY FileManagerSafe, PTL

(* Every arrow key leaves the cursor in view. *)
THEOREM ArrowKeysShowCursor == FMSpec => ArrowShowsCursor
<1>1. FMInv => \A dir \in {-1, 1} : Arrow(dir) => Visible(panels'[active], Height)
  <2> SUFFICES ASSUME PanelsOK, NEW dir \in {-1, 1}, Arrow(dir)
               PROVE  Visible(panels'[active], Height)
    BY DEF FMInv
  <2>1. Height \in Int
    BY DEF Height, PanelsOK
  <2>2. panels'[active] = move_selection(panels[active], dir, Height)
    BY DEF Arrow, PanelsOK, p
  <2> QED BY <2>1, <2>2, MoveOK DEF PanelsOK
<1> QED BY FMInitInv, FMInvStep, <1>1, PTL DEF FMSpec, ArrowShowsCursor
=============================================================================
