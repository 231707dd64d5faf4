------------------------------ MODULE FileTree ------------------------------
(***************************************************************************)
(* process_tree and copy_file of simple_file_manager/src/dialog.c: the     *)
(* recursive copy, move and deletion of a file tree, one system call or    *)
(* one turn of a loop per step.  A path is a sequence of names, the tree a *)
(* function from the paths that exist to what is there.  stat, open,       *)
(* opendir and mkdir follow symbolic links as the kernel does; unlink,     *)
(* rmdir and rename act on the entry itself.                               *)
(***************************************************************************)
EXTENDS Integers, FiniteSets, Sequences

CONSTANTS Names,      \* names of directory entries
          Stems,      \* of a name, the names its first characters make
          MaxPath,    \* PATH_MAX - 1: the longest path, in characters
          MaxLinks,   \* links followed before ELOOP
          NoPath,     \* what a path that leads nowhere resolves to
          Faults,     \* system calls that may fail for reasons of their own
          MaxFaults,  \* bound: how many of them fail in one operation
          MaxOpen     \* descriptors the operation can have open

VARIABLES tree,     \* what is on the disk
          op,       \* the Operation of process_tree, or "none"
          call,     \* arguments of a call of process_tree not yet begun
          stack,    \* directories open in the calls that are in progress
          copying,  \* the copy_file in progress
          faults,   \* history: the system calls that failed, in order
          limits,   \* history: limits met, of a "path" or of open "files"
          before,   \* history: the tree when the operation was started
          goal      \* history: the arguments the operation was started with

treeVars == <<tree, op, call, stack, copying, faults, limits, before, goal>>

(* Of a path, its directory and its name; of the stack, the calls below    *)
(* and the innermost one.                                                  *)
Front(s) == SubSeq(s, 1, Len(s) - 1)
Last(s) == s[Len(s)]
IsPrefix(p, q) == Len(p) <= Len(q) /\ SubSeq(q, 1, Len(p)) = p

Dir == [kind |-> "dir"]
File(d) == [kind |-> "file", data |-> d]
Link(p) == [kind |-> "link", to |-> p]
Is(t, p, k) == p \in DOMAIN t /\ t[p].kind = k
Kinds(t, k) == {p \in DOMAIN t : t[p].kind = k}
Children(t, d) == {Last(p) : p \in {q \in DOMAIN t \ {<<>>} : Front(q) = d}}
Below(t, p) == {q \in DOMAIN t : IsPrefix(p, q)}
Without(t, p) == [q \in DOMAIN t \ {p} |-> t[q]]
Put(t, p, node) == [q \in DOMAIN t \cup {p} |-> IF q = p THEN node ELSE t[q]]

Args(s, d) == [src |-> s, dst |-> d, renamed |-> FALSE]
NoCall == Args(NoPath, NoPath)
NoCopy == [src |-> NoPath, in |-> NoPath, out |-> NoPath, pos |-> 0]

-----------------------------------------------------------------------------
(* The text of a path. *)

(* Its characters, a slash before each name included. *)
Size(p) == Cardinality(UNION {{i} \X (0 .. Len(Stems[p[i]])) : i \in DOMAIN p})

(* snprintf("%s/%s", p, n) into PATH_MAX characters, unchecked: of a name  *)
(* that does not fit the first characters are left, or nothing.  A slash   *)
(* at the end makes no difference to a directory.                          *)
Joined(p, n) ==
  LET room == MaxPath - Size(p) - 1
  IN  IF Len(Stems[n]) <= room THEN Append(p, n)
      ELSE IF room > 0 THEN Append(p, Stems[n][room]) ELSE p

-----------------------------------------------------------------------------
(* Path resolution. *)

(* A path on its way to what it leads to: the place reached, the names to  *)
(* follow from there, and how many more links may be followed.             *)
Walks == [at : Seq(Names), rest : Seq(Names), links : 0 .. MaxLinks]
Ahead(w) == Append(w.at, Head(w.rest))

(* Not a directory, no such directory, or too many links. *)
Stuck(t, w) ==
  ~Is(t, w.at, "dir") \/ (w.links = 0 /\ Is(t, Ahead(w), "link"))

(* One name is followed; a link is replaced by the path it holds. *)
Hop(t, w) ==
  IF Is(t, Ahead(w), "link")
    THEN [at |-> <<>>, rest |-> t[Ahead(w)].to \o Tail(w.rest), links |-> w.links - 1]
    ELSE [at |-> Ahead(w), rest |-> Tail(w.rest), links |-> w.links]

(* Where a walk ends; the last name need not exist (open with O_CREAT). *)
Walk(t) ==
  LET walk[w \in Walks] == IF w.rest = <<>> THEN w.at
                           ELSE IF Stuck(t, w) THEN NoPath ELSE walk[Hop(t, w)]
  IN  walk

(* Where path p leads. *)
Open(t, p) ==
  IF Size(p) > MaxPath THEN NoPath
  ELSE Walk(t)[[at |-> <<>>, rest |-> p, links |-> MaxLinks]]

(* stat: the file or directory p stands for, or NoPath. *)
Real(t, p) == LET q == Open(t, p) IN IF q \in DOMAIN t THEN q ELSE NoPath

(* The directory entry p names, whether it exists or not. *)
Entry(t, p) ==
  IF p = <<>> \/ Size(p) > MaxPath THEN NoPath
  ELSE LET d == Open(t, Front(p))
       IN  IF Is(t, d, "dir") THEN Append(d, Last(p)) ELSE NoPath

IsDir(p) == Is(tree, Real(tree, p), "dir")

-----------------------------------------------------------------------------
(* System calls: when they succeed and what they leave behind. *)

CanMkdir(p) ==
  LET e == Entry(tree, p)
  IN  e # NoPath /\ e \notin DOMAIN tree

CanRmdir(e) == Is(tree, e, "dir") /\ Children(tree, e) = {}

CanUnlink(e) == e \in DOMAIN tree /\ ~Is(tree, e, "dir")

(* rename of entry e to f puts no directory into itself or onto anything   *)
(* but an empty directory, and no file onto a directory.                   *)
CanRename(e, f) ==
  /\ e \in DOMAIN tree /\ f # NoPath
  /\ ~(e # f /\ IsPrefix(e, f))
  /\ f \in DOMAIN tree /\ f # e =>
       IF Is(tree, e, "dir") THEN CanRmdir(f) ELSE ~Is(tree, f, "dir")

Shift(q, from, to) == to \o SubSeq(q, Len(from) + 1, Len(q))

Renamed(e, f) ==
  LET kept == DOMAIN tree \ (Below(tree, e) \cup {f})
  IN  IF e = f THEN tree
      ELSE [q \in kept \cup {Shift(r, e, f) : r \in Below(tree, e)} |->
              IF q \in kept THEN tree[q] ELSE tree[Shift(q, f, e)]]

(* A directory that is open stays open when it is renamed. *)
Carried(e, f) ==
  [i \in DOMAIN stack |->
     IF IsPrefix(e, stack[i].dir)
       THEN [stack[i] EXCEPT !.dir = Shift(@, e, f)] ELSE stack[i]]

(* A system call fails although nothing above stands in its way: another   *)
(* device, permissions, a full disk, descriptors.                          *)
Fault(f) ==
  /\ f \in Faults /\ Len(faults) < MaxFaults
  /\ faults' = Append(faults, f)
  /\ UNCHANGED limits

NoFault == UNCHANGED <<faults, limits>>

(* open and opendir fail when there are not n descriptors left. *)
NoneLeft(n) ==
  /\ Len(stack) + n > MaxOpen
  /\ limits' = limits \cup {"files"}
  /\ UNCHANGED faults

-----------------------------------------------------------------------------
(* process_tree.  What nested calls return is ignored by the code, so a    *)
(* call that is over simply leaves the stage to the loop that made it.     *)

Calling(o) == op = o /\ call # NoCall /\ Real(tree, call.src) # NoPath
Return == call' = NoCall /\ UNCHANGED <<op, stack, copying, before, goal>>

(* OP_MOVE tries rename first. *)
Renaming == Calling("move") /\ ~call.renamed

StatFails ==
  /\ call # NoCall /\ Real(tree, call.src) = NoPath
  /\ Return /\ NoFault /\ UNCHANGED tree

MoveToItself ==
  /\ Renaming /\ call.src = call.dst
  /\ Return /\ NoFault /\ UNCHANGED tree

RenameSucceeds ==
  /\ Renaming /\ call.src # call.dst
  /\ \E e \in {Entry(tree, call.src)}, f \in {Entry(tree, call.dst)} :
       CanRename(e, f) /\ tree' = Renamed(e, f) /\ stack' = Carried(e, f)
  /\ call' = NoCall /\ NoFault
  /\ UNCHANGED <<op, copying, before, goal>>

(* Mutant: a rename that failed is tried again. *)
RenameRetried ==
  /\ Renaming /\ call.src # call.dst
  /\ \E e \in {Entry(tree, call.src)}, f \in {Entry(tree, call.dst)} :
       ~CanRename(e, f)
  /\ UNCHANGED treeVars

(* rename fails where the kernel refuses it, or for a reason of its own    *)
(* (another device, say) unless both names are the same entry.  Then the   *)
(* tree is moved by hand.                                                  *)
RenameFails ==
  /\ Renaming /\ call.src # call.dst
  /\ \E e \in {Entry(tree, call.src)}, f \in {Entry(tree, call.dst)} :
       CanRename(e, f) => e # f /\ "rename" \in Faults
  /\ NoFault
  /\ call' = [call EXCEPT !.renamed = TRUE]
  /\ UNCHANGED <<tree, op, stack, copying, before, goal>>

(* After rename, or for OP_COPY: what happens to the source at call.src. *)
Transfer == Calling("copy") \/ (Calling("move") /\ call.renamed)

MkdirFails ==
  /\ Transfer /\ IsDir(call.src)
  /\ \/ ~CanMkdir(call.dst) /\ NoFault
     \/ CanMkdir(call.dst) /\ Fault("mkdir")
  /\ Return /\ UNCHANGED tree

Frame(t) == LET d == Real(t, call.src)
            IN  [src |-> call.src, dst |-> call.dst, dir |-> d,
                 snap |-> Children(t, d), seen |-> {}]

(* mkdir(dst) and opendir(src). *)
EnterDirectory ==
  /\ Transfer /\ IsDir(call.src) /\ CanMkdir(call.dst)
  /\ tree' = Put(tree, Entry(tree, call.dst), Dir)
  /\ \/ Len(stack) < MaxOpen /\ NoFault /\ stack' = Append(stack, Frame(tree'))
     \/ (Fault("opendir") \/ NoneLeft(1)) /\ UNCHANGED stack
  /\ call' = NoCall
  /\ UNCHANGED <<op, copying, before, goal>>

(* Mutant: OP_MOVE unlinks the source whatever copy_file returned. *)
UnlinkAnyway ==
  /\ Transfer /\ ~IsDir(call.src)
  /\ LET out == Open(tree, call.dst)
         ok == out # NoPath /\ ~Is(tree, out, "dir")
     IN  \/ ~ok /\ NoFault
         \/ ok /\ (Fault("open") \/ NoneLeft(2))
  /\ tree' = IF op = "move" THEN Without(tree, Entry(tree, call.src)) ELSE tree
  /\ Return

(* copy_file: open of the source, then of the destination with O_TRUNC. *)
CopyFails ==
  /\ Transfer /\ ~IsDir(call.src)
  /\ LET out == Open(tree, call.dst)
         ok == out # NoPath /\ ~Is(tree, out, "dir")
     IN  \/ ~ok /\ NoFault
         \/ ok /\ (Fault("open") \/ NoneLeft(2))
  /\ Return /\ UNCHANGED tree

OpenCopy ==
  /\ Transfer /\ ~IsDir(call.src)
  /\ LET in == Real(tree, call.src)
         out == Open(tree, call.dst)
     IN  /\ out # NoPath /\ ~Is(tree, out, "dir") /\ Len(stack) + 2 <= MaxOpen
         /\ tree' = Put(tree, out, File(<<>>))
         /\ copying' = [src |-> call.src, in |-> in, out |-> out, pos |-> 0]
  /\ call' = NoCall /\ NoFault
  /\ UNCHANGED <<op, stack, before, goal>>

(* One turn of the read/write loop.  A write that fails is not noticed. *)
CopyBlock ==
  /\ copying # NoCopy /\ copying.pos < Len(tree[copying.in].data)
  /\ \/ /\ NoFault
        /\ tree' = [tree EXCEPT ![copying.out].data =
                      Append(@, tree[copying.in].data[copying.pos + 1])]
     \/ Fault("write") /\ UNCHANGED tree
  /\ copying' = [copying EXCEPT !.pos = @ + 1]
  /\ UNCHANGED <<op, call, stack, before, goal>>

(* A read that fails is taken for the end of the file. *)
ReadFails ==
  /\ copying # NoCopy /\ copying.pos < Len(tree[copying.in].data)
  /\ Fault("read")
  /\ copying' = [copying EXCEPT !.pos = Len(tree[copying.in].data)]
  /\ UNCHANGED <<tree, op, call, stack, before, goal>>

(* Mutant: OP_COPY unlinks the source as OP_MOVE does. *)
UnlinkCopied ==
  /\ copying # NoCopy /\ copying.pos >= Len(tree[copying.in].data)
  /\ tree' = Without(tree, Entry(tree, copying.src))
  /\ NoFault /\ copying' = NoCopy
  /\ UNCHANGED <<op, call, stack, before, goal>>

(* End of file.  copy_file returned 0: OP_MOVE unlinks the source. *)
EndCopy ==
  /\ copying # NoCopy /\ copying.pos >= Len(tree[copying.in].data)
  /\ LET e == Entry(tree, copying.src)
     IN  \/ op = "copy" /\ NoFault /\ UNCHANGED tree
         \/ op = "move" /\ CanUnlink(e) /\ NoFault /\ tree' = Without(tree, e)
         \/ op = "move" /\ Fault("unlink") /\ UNCHANGED tree
  /\ copying' = NoCopy
  /\ UNCHANGED <<op, call, stack, before, goal>>

(* OP_DELETE of a directory: opendir; of anything else: unlink. *)
OpenForDelete ==
  /\ Calling("delete") /\ IsDir(call.src)
  /\ \/ Len(stack) < MaxOpen /\ NoFault /\ stack' = Append(stack, Frame(tree))
     \/ (Fault("opendir") \/ NoneLeft(1)) /\ UNCHANGED stack
  /\ call' = NoCall
  /\ UNCHANGED <<tree, op, copying, before, goal>>

(* Mutant: the file a link leads to is removed in place of the link. *)
UnlinkTarget ==
  /\ Calling("delete") /\ ~IsDir(call.src)
  /\ tree' = Without(tree, Real(tree, call.src))
  /\ NoFault /\ Return

UnlinkFile ==
  /\ Calling("delete") /\ ~IsDir(call.src)
  /\ \/ NoFault /\ tree' = Without(tree, Entry(tree, call.src))
     \/ Fault("unlink") /\ UNCHANGED tree
  /\ Return

(* The readdir loop.  An entry made or removed since opendir may be        *)
(* returned or not, each other entry is returned once.                     *)
Reading == call = NoCall /\ copying = NoCopy /\ stack # <<>>

(* Mutant: the path of the destination is not the one that was built. *)
NestedKeepingDst(f, n) == Args(Joined(f.src, n), f.dst)

(* The call for entry n of the directory in frame f. *)
Nested(f, n) ==
  Args(Joined(f.src, n), IF f.dst = NoPath THEN NoPath ELSE Joined(f.dst, n))

Fits(p, n) == Joined(p, n) = Append(p, n)

ReadDir(n) ==
  LET f == Last(stack)
  IN  /\ Reading
      /\ n \in (f.snap \cup Children(tree, f.dir)) \ f.seen
      /\ call' = Nested(f, n)
      /\ stack' = [stack EXCEPT ![Len(stack)].seen = @ \cup {n}]
      /\ limits' = IF Fits(f.src, n) /\ (f.dst # NoPath => Fits(f.dst, n))
                     THEN limits ELSE limits \cup {"path"}
      /\ UNCHANGED <<tree, op, copying, faults, before, goal>>

CloseDir ==
  LET f == Last(stack)
      e == Entry(tree, f.src)
  IN  /\ Reading
      /\ f.snap \cap Children(tree, f.dir) \subseteq f.seen
      /\ \/ (op = "copy" \/ ~CanRmdir(e)) /\ NoFault /\ UNCHANGED tree
         \/ op # "copy" /\ CanRmdir(e) /\ NoFault /\ tree' = Without(tree, e)
         \/ op # "copy" /\ CanRmdir(e) /\ Fault("rmdir") /\ UNCHANGED tree
      /\ stack' = Front(stack)
      /\ UNCHANGED <<op, call, copying, before, goal>>

TreeStep ==
  \/ StatFails \/ MoveToItself \/ RenameSucceeds \/ RenameFails
  \/ MkdirFails \/ EnterDirectory \/ CopyFails \/ OpenCopy \/ CopyBlock \/ ReadFails
  \/ EndCopy \/ OpenForDelete \/ UnlinkFile \/ CloseDir
  \/ \E n \in Names : ReadDir(n)

(* The outermost call has returned. *)
Done == op # "none" /\ call = NoCall /\ copying = NoCopy /\ stack = <<>>

-----------------------------------------------------------------------------
(* One operation on any small tree. *)

CONSTANTS InitDepth,  \* bound: depth of the trees an operation starts with
          LinkTo      \* names of / that links of these trees lead to

ASSUME TreeAssumption ==
  /\ MaxLinks \in Nat /\ MaxPath \in Nat /\ MaxOpen \in Nat /\ InitDepth \in Nat
  /\ Stems \in [Names -> Seq(Names) \ {<<>>}]
  /\ \A n \in Names : Last(Stems[n]) = n
  /\ LinkTo \subseteq Names /\ NoPath \notin Seq(Names)

Paths(n) == UNION {[1 .. k -> Names] : k \in 0 .. n}

(* Two blocks that tell the files of a tree apart. *)
Content(p) == <<<<p, 1>>, <<p, 2>>>>

Trees ==
  {t \in UNION {[ps -> {Dir, File(<<>>)} \cup {Link(<<n>>) : n \in LinkTo}] :
                   ps \in SUBSET Paths(InitDepth)} :
     /\ <<>> \in Kinds(t, "dir")
     /\ \A p \in DOMAIN t \ {<<>>} : Front(p) \in Kinds(t, "dir")}

Fill(t) == [p \in DOMAIN t |->
              IF p \in Kinds(t, "file") THEN File(Content(p)) ELSE t[p]]

(* What the dialogs pass: an entry of a directory, and for a copy or a     *)
(* move the same name in a directory the user chose.                       *)
StartTree(o, src, dst) ==
  /\ op' = o
  /\ call' = Args(src, dst)
  /\ stack' = <<>> /\ copying' = NoCopy /\ faults' = <<>> /\ limits' = {}
  /\ before' = tree /\ goal' = call'

TreeInit ==
  /\ tree \in {Fill(t) : t \in Trees}
  /\ op = "none" /\ call = NoCall /\ stack = <<>> /\ copying = NoCopy
  /\ faults = <<>> /\ limits = {} /\ before = tree /\ goal = NoCall

Start ==
  /\ op = "none"
  /\ \E src \in DOMAIN tree \ {<<>>} :
       \/ Real(tree, src) # NoPath /\ StartTree("delete", src, NoPath)
       \/ \E o \in {"copy", "move"}, d \in Paths(InitDepth) :
             StartTree(o, src, Append(d, Last(src)))
  /\ UNCHANGED tree

TreeNext == Start \/ TreeStep
TreeSpec == TreeInit /\ [][TreeNext]_treeVars /\ WF_treeVars(TreeStep)

-----------------------------------------------------------------------------
(* Properties. *)

(* The calls that are not over, from the outermost one. *)
Calls == IF call = NoCall THEN stack ELSE Append(stack, call)

(* Calls are nested as the recursion nests them: the first is the one the  *)
(* dialog made, each other is for an entry that the loop below it has      *)
(* read, with source and destination extended alike; and the directories   *)
(* and files they have open are no more than the descriptors.              *)
TreeTypeOK ==
  /\ op \in {"none", "copy", "move", "delete"}
  /\ limits \subseteq {"path", "files"}
  /\ call = NoCall \/ copying = NoCopy
  /\ Calls # <<>> => Calls[1].src = goal.src /\ Calls[1].dst = goal.dst
  /\ \A i \in 2 .. Len(Calls) : \E n \in stack[i - 1].seen :
       /\ Calls[i].src = Joined(stack[i - 1].src, n)
       /\ Calls[i].dst = IF op = "delete" THEN NoPath ELSE Joined(stack[i - 1].dst, n)
  /\ copying # NoCopy => {copying.in, copying.out} \subseteq Kinds(tree, "file")
  /\ Len(stack) + (IF copying # NoCopy THEN 2 ELSE 0) <= MaxOpen

(* What can follow path p: each name takes two characters or more. *)
Rests == Paths(MaxPath \div 2)
Under(p) == {r \in Rests : Size(p \o r) <= MaxPath}

Failed(f) == f \in {faults[i] : i \in DOMAIN faults}

(* OP_MOVE by rename, or by copying and unlinking when rename fails, with  *)
(* other calls failing and descriptors running out on the way: the data of *)
(* every file is somewhere in the tree in full at all times.  Exceptions:  *)
(* the file the destination named is replaced; copy_file notices neither a *)
(* read nor a write that failed; and when paths are cut, two files may be  *)
(* moved to one.                                                           *)
NothingLost ==
  LET old == Real(before, goal.dst)
  IN  op = "move" /\ ~Failed("read") /\ ~Failed("write") /\ "path" \notin limits
        => \A p \in Kinds(before, "file") \ {old} :
             \E q \in Kinds(tree, "file") : tree[q].data = before[p].data

(* OP_COPY changes no file that was there, but for the one the destination *)
(* names, even if paths are cut; and if nothing fails and no limit is met, *)
(* each file the source leads to has a copy under the destination in the   *)
(* end.                                                                    *)
CopyIsFaithful ==
  op = "copy" =>
    LET old == Open(before, goal.dst)
    IN  /\ \A p \in DOMAIN before \ {old} : p \in DOMAIN tree /\ tree[p] = before[p]
        /\ /\ Done /\ faults = <<>> /\ limits = {}
           /\ Entry(before, goal.dst) \notin DOMAIN before \cup {NoPath}
           => \A r \in Under(goal.dst) :
                LET p == Real(before, goal.src \o r)
                    q == Real(tree, goal.dst \o r)
                IN  Is(before, p, "file") =>
                      q \in DOMAIN tree /\ tree[q] = before[p]

(* OP_DELETE removes nothing but what a path that begins with the selected *)
(* entry leads to (through links as well: process_tree uses stat), changes *)
(* nothing, and leaves nothing of an entry without links when no call      *)
(* failed and no limit was met.                                            *)
DeleteStaysBelow ==
  op = "delete" =>
    /\ \A p \in DOMAIN tree : p \in DOMAIN before /\ tree[p] = before[p]
    /\ \A p \in DOMAIN before \ DOMAIN tree :
         \E r \in Under(goal.src) : Entry(before, goal.src \o r) = p
    /\ LET sub == Below(before, Entry(before, goal.src))
       IN  Done /\ faults = <<>> /\ limits = {} /\ sub \cap Kinds(before, "link") = {}
             => sub \cap DOMAIN tree = {}

(* Every operation ends.  A copy or a move of a directory into itself ends *)
(* where the destination is cut to the directory made last, which mkdir    *)
(* refuses to make again; a deletion that is led into the same directory   *)
(* again and again by paths cut short ends when no descriptor is left.     *)
OperationsEnd == (op # "none") ~> Done
=============================================================================
