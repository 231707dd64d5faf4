------------------------------- MODULE Panel -------------------------------
(***************************************************************************)
(* simple_file_manager/src/panel.c: one panel of the file manager, the     *)
(* list of the entries of a directory with a cursor.  An operation yields  *)
(* the panel it leaves behind, or the set of those it may leave.  File     *)
(* names are numbers in alphabetical order.                                *)
(***************************************************************************)
EXTENDS FileTree

CONSTANTS First,   \* names that sort before "." (those that begin with '-', say)
          Denied   \* directories that scandir cannot read

ASSUME NamesAssumption == Names \subseteq Int /\ First \subseteq Names

(* struct dirent: "." and ".." are directories (DT_DIR) like kind "dir". *)
Dirent(k, n) == [kind |-> k, name |-> n]
Self == Dirent("self", 0)
Parent == Dirent("parent", 0)

PanelOf(d, es, n, i, j) ==
  [cwd |-> d, entries |-> es, count |-> n, selected |-> i, scroll |-> j]
(* selected and scroll are not initialised. *)
NewPanel(d, i, j) == PanelOf(d, <<>>, 0, i, j)
In(p, d) == PanelOf(d, p.entries, p.count, p.selected, p.scroll)
At(p, i, j) == PanelOf(p.cwd, p.entries, p.count, i, j)

Nth(S, i) == CHOOSE n \in S : Cardinality({m \in S : m < n}) = i

(* scandir with alphasort: entries from index 0. *)
Scandir(t, d) ==
  LET names == Children(t, d)
      k == Cardinality(names \cap First)
      Item(n) == Dirent(IF Is(t, Append(d, n), "dir") THEN "dir" ELSE "other", n)
  IN  [i \in 0 .. k + 1 + Cardinality(names \ First) |->
         IF i < k THEN Item(Nth(names \cap First, i))
         ELSE IF i = k THEN Self
         ELSE IF i = k + 1 THEN Parent
         ELSE Item(Nth(names \ First, i - k - 2))]

Unlisted(p) == PanelOf(p.cwd, <<>>, -1, p.selected, p.scroll)

(* Mutant: the cursor stays where it was, whatever the new listing. *)
ListedKeepingCursor(t, p, d) ==
  LET names == Children(t, d)
      k == Cardinality(names \cap First)
      m == Cardinality(names \ First)
  IN  PanelOf(p.cwd, Scandir(t, d), k + 2 + m, p.selected, p.scroll)

(* The cursor is put on "..". *)
Listed(t, p, d) ==
  LET names == Children(t, d)
      k == Cardinality(names \cap First)
      m == Cardinality(names \ First)
  IN  PanelOf(p.cwd, Scandir(t, d), k + 2 + m, k + 1, 0)

(* load_directory.  When scandir fails, selected and scroll keep their     *)
(* values.                                                                 *)
load_directory(t, p) ==
  LET d == Real(t, p.cwd)
  IN  IF Is(t, d, "dir") /\ d \notin Denied THEN Listed(t, p, d) ELSE Unlisted(p)

(* enter_directory on a panel with a listing.  When realpath fails, cwd    *)
(* may be left holding the part of the path that could not be resolved.    *)
Missing(t, q) ==
  LET gone == {k \in 1 .. Len(q) : SubSeq(q, 1, k) \notin DOMAIN t}
  IN  {SubSeq(q, 1, k) : k \in {i \in gone : \A j \in gone : i <= j}}

(* Characters of "/.", "/.." or of a slash and a name. *)
Suffix(e) == CASE e.kind = "self" -> 2
               [] e.kind = "parent" -> 3
               [] OTHER -> 1 + Len(Stems[e.name])

enter_directory(t, p) ==
  LET e == p.entries[p.selected]
      fits == Size(p.cwd) + Suffix(e) <= MaxPath
      path == IF e.kind = "dir" THEN Append(p.cwd, e.name) ELSE p.cwd
      here == Real(t, path)
      realpath == IF e.kind # "parent" THEN here
                  ELSE IF ~Is(t, here, "dir") THEN NoPath
                  ELSE IF here = <<>> THEN here ELSE Front(here)
  IN  IF e.kind = "other" \/ ~fits THEN {p}
      ELSE IF realpath = NoPath
           THEN {p} \cup {In(p, q) : q \in Missing(t, path)}
           ELSE {load_directory(t, In(p, realpath))}

-----------------------------------------------------------------------------
(* move_selection in a panel of height h, one line up (-1) or down (1). *)

Clip(i, lo, hi) == IF i > hi THEN (IF hi < lo THEN lo ELSE hi) ELSE IF i < lo THEN lo ELSE i

(* Mutant: scroll follows the cursor upwards only. *)
move_selection_up_only(p, dir, h) ==
  LET sel == Clip(p.selected + dir, 0, p.count - 1)
  IN  IF p.count <= 0 THEN p
      ELSE IF h <= 2 THEN At(p, 0, 0)
      ELSE At(p, sel, IF sel < p.scroll THEN sel ELSE p.scroll)

move_selection(p, dir, h) ==
  LET visible == h - 2
      sel == Clip(p.selected + dir, 0, p.count - 1)
      top == IF sel < p.scroll THEN sel
             ELSE IF sel >= p.scroll + visible THEN sel - visible + 1
             ELSE p.scroll
  IN  IF p.count <= 0 THEN p
      ELSE IF h <= 2 THEN At(p, 0, 0)
      ELSE At(p, sel, Clip(top, 0, p.count - visible))

(* A click on line y of the screen; the panel's frame is line 0. *)
Line(p, y) == p.scroll + y - 1

-----------------------------------------------------------------------------
(* The cursor and the first line shown are entries of the listing.         *)
(* enter_directory, the dialogs and draw_panel index entries with them     *)
(* unchecked.                                                              *)
InListing(p) == p.count > 0 => p.selected \in 0 .. p.count - 1 /\ p.scroll \in 0 .. p.count - 1

Visible(p, h) == p.count > 0 /\ h > 2 => p.selected \in p.scroll .. p.scroll + h - 3
=============================================================================
