---------------------------- MODULE FileManager ----------------------------
(***************************************************************************)
(* simple_file_manager: the input loop (app.c, ui.c), the modal dialogs    *)
(* (modal.c) and the commands behind the buttons (dialog.c), composed with *)
(* the panels (Panel) and the file operations (FileTree).  The program has *)
(* one thread: an input event is handled to the end before the next one,   *)
(* except that a dialog reads its own events and that a file operation     *)
(* takes the steps of FileTree.                                            *)
(***************************************************************************)
EXTENDS Panel

CONSTANTS Rows,        \* heights the terminal can have
          Start0,      \* the tree the program is started in; it starts in /
          Stray,       \* what an int that is not initialised may hold
          MaxDialogs   \* bound: how many dialogs are opened

ASSUME StartAssumption ==
  IsFiniteSet(DOMAIN Start0) /\ Rows \subseteq Int /\ Stray \subseteq Int

VARIABLES panels,  \* the left and the right Panel
          active,  \* the side that has the cursor
          rows,    \* height of the terminal
          laid,    \* height update_layout worked with last
          term,    \* terminal settings that dialogs change
          dialog,  \* the dialog that is open
          last,    \* last_click_idx
          state,   \* "running", "exited" or "crashed"
          dialogs  \* how many dialogs were opened

uiVars == <<panels, active, rows, laid, term, dialog, last, state, dialogs>>
allVars == <<uiVars, treeVars>>

Sides == {"left", "right"}
Other(s) == CHOOSE o \in Sides : o # s
p == panels[active]
Height == laid - 4

(* init_curses *)
Browsing == [nodelay |-> TRUE, mouse |-> "all", cursor |-> 0]

(* key: opened with a hotkey, after which handle_input calls               *)
(* update_layout, not with the mouse.  saved: settings to restore.         *)
DialogOf(cmd, key, focus, text, saved) ==
  [cmd |-> cmd, key |-> key, focus |-> focus, text |-> text, saved |-> saved]
NoDialog(key) == DialogOf("none", key, 0, NoPath, Browsing)
Editing(focus, text) == DialogOf(dialog.cmd, dialog.key, focus, text, dialog.saved)

Idle == state = "running" /\ dialog.cmd = "none" /\ op = "none"

-----------------------------------------------------------------------------
(* run_app *)

FMInit ==
  /\ tree = Start0 /\ op = "none" /\ call = NoCall /\ stack = <<>>
  /\ copying = NoCopy /\ faults = <<>> /\ limits = {} /\ before = tree /\ goal = NoCall
  /\ \E i, j \in [Sides -> Stray] :
       panels = [s \in Sides |-> load_directory(tree, NewPanel(<<>>, i[s], j[s]))]
  /\ active = "left"
  /\ rows \in Rows /\ laid = rows
  /\ term = Browsing /\ dialog = NoDialog(TRUE)
  /\ last = -1 /\ state = "running" /\ dialogs = 0

(* handle_input outside of dialogs: keys that change the panels only. *)

Resize ==
  /\ Idle
  /\ rows' \in Rows /\ laid' = rows'
  /\ UNCHANGED <<panels, active, term, dialog, last, state, dialogs, treeVars>>

Quit ==
  /\ Idle
  /\ state' = "exited"
  /\ UNCHANGED <<panels, active, rows, laid, term, dialog, last, dialogs, treeVars>>

Arrow(dir) ==
  /\ Idle
  /\ panels' = [panels EXCEPT ![active] = move_selection(p, dir, Height)]
  /\ UNCHANGED <<active, rows, laid, term, dialog, last, state, dialogs, treeVars>>

Wheel(s, dir) ==
  /\ Idle
  /\ active' = s
  /\ panels' = [panels EXCEPT ![s] = move_selection(@, dir, Height)]
  /\ UNCHANGED <<rows, laid, term, dialog, last, state, dialogs, treeVars>>

Tab ==
  /\ Idle
  /\ active' = Other(active)
  /\ UNCHANGED <<panels, rows, laid, term, dialog, last, state, dialogs, treeVars>>

(* Enter.  Without a listing, entries is NULL. *)
Enter ==
  /\ Idle
  /\ \/ /\ p.count > 0
        /\ \E q \in enter_directory(tree, p) : panels' = [panels EXCEPT ![active] = q]
        /\ UNCHANGED state
     \/ p.count <= 0 /\ state' = "crashed" /\ UNCHANGED panels
  /\ UNCHANGED <<active, rows, laid, term, dialog, last, dialogs, treeVars>>

(* A click on a line of the left or right half, one with buttons included  *)
(* (beside them); the second one on a line in time opens it.               *)
(* last_click_idx does not say which panel it is about.                    *)
Click(s, y, quick) ==
  LET idx == Line(panels[s], y)
      q == At(panels[s], idx, panels[s].scroll)
  IN  /\ Idle
      /\ active' = s
      /\ \/ idx \notin 0 .. panels[s].count - 1 /\ UNCHANGED <<panels, last>>
         \/ /\ idx \in 0 .. panels[s].count - 1
            /\ \/ /\ idx = last /\ quick
                  /\ \E r \in enter_directory(tree, q) : panels' = [panels EXCEPT ![s] = r]
                  /\ last' = -1
               \/ /\ ~(idx = last /\ quick)
                  /\ panels' = [panels EXCEPT ![s] = q]
                  /\ last' = idx
      /\ UNCHANGED <<rows, laid, term, dialog, state, dialogs, treeVars>>

-----------------------------------------------------------------------------
(* The commands, from their hotkey (key) or button. *)

(* Mutant: handle_input leaves the layout alone after a hotkey. *)
NoLayout(key) == UNCHANGED laid

Layout(key) == laid' = IF key THEN rows ELSE laid

(* e of the dialogs: the entry under the cursor, but for "." and "..". *)
HasTarget == p.count > 0 /\ p.entries[p.selected] \notin {Self, Parent}
Target == Append(p.cwd, p.entries[p.selected].name)

CanOpen(cmd) ==
  \/ cmd = "create"
  \/ cmd \in {"copy", "move"} /\ HasTarget
  \/ cmd = "delete" /\ HasTarget /\ Real(tree, Target) # NoPath

(* The command returns before it opens its dialog, or open_file_dialog has *)
(* handed the terminal to the editor and taken it back.                    *)
Command(key) ==
  /\ Idle
  /\ Layout(key)
  /\ UNCHANGED <<panels, active, rows, term, dialog, last, state, dialogs, treeVars>>

(* run_input_dialog, run_confirm_dialog: up to the first event. *)
OpenDialog(cmd, key) ==
  /\ Idle /\ CanOpen(cmd)
  /\ dialogs < MaxDialogs /\ dialogs' = dialogs + 1
  /\ dialog' = DialogOf(cmd, key, 0,
       IF cmd \in {"copy", "move"} THEN panels[Other(active)].cwd ELSE NoPath, term)
  /\ term' = [nodelay |-> FALSE, mouse |-> "button1",
             cursor |-> IF cmd = "delete" THEN term.cursor ELSE 1]
  /\ UNCHANGED <<panels, active, rows, laid, last, state, treeVars>>

InDialog == state = "running" /\ dialog.cmd # "none"
Asks == dialog.cmd = "delete"  \* run_confirm_dialog

DialogTab ==
  /\ InDialog
  /\ dialog' = Editing((dialog.focus + 1) % (IF Asks THEN 2 ELSE 3), dialog.text)
  /\ UNCHANGED <<panels, active, rows, laid, term, last, state, dialogs, treeVars>>

(* Characters and backspaces, in the text field only. *)
Type(text) ==
  /\ InDialog /\ ~Asks /\ dialog.focus = 0
  /\ dialog' = Editing(dialog.focus, text)
  /\ UNCHANGED <<panels, active, rows, laid, term, last, state, dialogs, treeVars>>

(* Only the input dialog lays the program out anew. *)
DialogResize ==
  /\ InDialog
  /\ rows' \in Rows
  /\ laid' = IF Asks THEN laid ELSE rows'
  /\ UNCHANGED <<panels, active, term, dialog, last, state, dialogs, treeVars>>

(* Mutant: the settings are not restored. *)
LeaveAsIs == UNCHANGED term

Restore == term' = [dialog.saved EXCEPT !.cursor = IF Asks THEN term.cursor ELSE 0]

CloseDialog == Restore /\ dialog' = NoDialog(dialog.key)

Cancel ==
  /\ CloseDialog /\ Layout(dialog.key)
  /\ UNCHANGED <<panels, active, rows, last, state, dialogs, treeVars>>

MakeDirectory ==
  LET path == p.cwd \o dialog.text
      entry == Entry(tree, path)
  IN  /\ CloseDialog /\ Layout(dialog.key)
      /\ \/ CanMkdir(path) /\ tree' = Put(tree, entry, Dir)
         \/ UNCHANGED tree
      /\ panels' = [panels EXCEPT ![active] = load_directory(tree', @)]
      /\ UNCHANGED <<active, rows, last, state, op, call, stack, copying, faults, limits,
                     before, goal>>

(* copy, move and delete: process_tree begins. *)
BeginOperation ==
  /\ CloseDialog
  /\ StartTree(dialog.cmd, Target,
       IF Asks THEN NoPath ELSE Append(dialog.text, p.entries[p.selected].name))
  /\ UNCHANGED <<tree, panels, active, rows, laid, last, state>>

Confirm ==
  /\ UNCHANGED dialogs
  /\ IF dialog.cmd = "create" THEN MakeDirectory ELSE BeginOperation

Escape == InDialog /\ Cancel

(* Enter, or a click on the line of the buttons: on one of the two, which  *)
(* takes the focus, or beside them.                                        *)
Answer(focus) ==
  /\ InDialog
  /\ focus \in {dialog.focus} \cup (IF Asks THEN {0, 1} ELSE {1, 2})
  /\ \/ (IF Asks THEN focus = 0 ELSE focus # 2 /\ dialog.text # NoPath) /\ Confirm
     \/ focus = (IF Asks THEN 1 ELSE 2) /\ Cancel
     \/ /\ ~Asks /\ focus # 2 /\ dialog.text = NoPath
        /\ dialog' = Editing(focus, dialog.text)
        /\ UNCHANGED <<panels, active, rows, laid, term, last, state, dialogs, treeVars>>

(* The operation goes on, and in the end the panels are read again. *)
Operate == TreeStep /\ UNCHANGED uiVars

Reloaded(s) ==
  CASE op = "copy" -> s # active
    [] op = "delete" -> s = active
    [] op = "move" -> TRUE

EndOperation ==
  /\ Done
  /\ panels' = [s \in Sides |-> IF Reloaded(s) THEN load_directory(tree, panels[s])
                                ELSE panels[s]]
  /\ Layout(dialog.key)
  /\ op' = "none" /\ goal' = NoCall /\ before' = tree
  /\ faults' = <<>> /\ limits' = {}
  /\ UNCHANGED <<tree, call, stack, copying, active, rows, term, dialog, last, state, dialogs>>

Texts == IF dialog.cmd = "create" THEN {<<n>> : n \in Names} ELSE Paths(1)

FMNext ==
  \/ Resize \/ Quit \/ Tab \/ Enter
  \/ \E dir \in {-1, 1} : Arrow(dir) \/ \E s \in Sides : Wheel(s, dir)
  \/ \E s \in Sides, y \in 0 .. rows - 1, quick \in BOOLEAN : Click(s, y, quick)
  \/ \E key \in BOOLEAN : \/ Command(key)
                          \/ \E cmd \in {"create", "copy", "move", "delete"} : OpenDialog(cmd, key)
  \/ DialogTab \/ DialogResize \/ Escape
  \/ \E text \in Texts \cup {NoPath} : Type(text)
  \/ \E focus \in 0 .. 2 : Answer(focus)
  \/ Operate \/ EndOperation

FMSpec == FMInit /\ [][FMNext]_allVars

-----------------------------------------------------------------------------
(* Properties. *)

(* Whatever the order of keys, clicks, resizes and operations that change  *)
(* or fail to read a directory, a panel that has a listing has its cursor  *)
(* and its first line in it.                                               *)
CursorInListing == \A s \in Sides : InListing(panels[s])

(* An arrow key brings the cursor back into view, wherever clicks on the   *)
(* frame and resizes have left it.                                         *)
ArrowShowsCursor ==
  [][\A dir \in {-1, 1} : Arrow(dir) => Visible(panels'[active], Height)]_allVars

(* Outside of dialogs the terminal is as init_curses set it, whichever way *)
(* the dialogs before were left.                                           *)
TerminalRestored == dialog.cmd = "none" => term = Browsing

(* The layout is that of the terminal's height, unless the last dialog was *)
(* opened with the mouse: only then a confirmation may miss a resize.      *)
ResizeIsNoticed ==
  dialog.cmd = "none" /\ op = "none" /\ dialog.key => laid = rows
=============================================================================
