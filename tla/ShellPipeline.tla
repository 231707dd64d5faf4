--------------------------- MODULE ShellPipeline ---------------------------
(***************************************************************************)
(* pipes/bash_equivalent/src/main.c: a shell that runs one pipeline at a   *)
(* time.  Stage i of n writes to pipe i, which stage i + 1 reads.  The     *)
(* shell and the stages are processes that run at the same time; what      *)
(* matters is who holds which end of which pipe, because a reader sees the *)
(* end of its input only when nobody holds the write end any more, and a   *)
(* writer is stopped only when nobody holds the read end.                  *)
(***************************************************************************)
EXTENDS Integers, FiniteSetsExt, Sequences

CONSTANTS MaxStages,  \* bound: stages of a pipeline
          PipeCap,    \* blocks that fit into a pipe
          Commands    \* what the user may type between two '|', as words

ASSUME ShellAssumption ==
  /\ MaxStages \in Nat /\ PipeCap \in Nat \ {0}
  /\ \A c \in Commands : c \in Seq(STRING)

Stages == 1 .. MaxStages

VARIABLES pc,      \* where the shell is
          cmds,    \* commands
          i,       \* the loop variable of execute_pipeline, from 1
          waits,   \* calls of wait that are still to be made
          prev,    \* the pipe whose read end prev_fd is, 0 for -1
          sr, sw,  \* pipes whose read, write end the shell holds
          st,      \* what has become of a stage
          cr, cw,  \* pipes whose read, write end a stage holds
          buf,     \* blocks in a pipe
          left,    \* blocks a program has from elsewhere than a pipe
          held     \* blocks a program has read and not written yet

shell == <<pc, cmds, i, waits, prev, sr, sw>>
stages == <<st, cr, cw, buf, left, held>>
vars == <<shell, stages>>

n == Len(cmds)

-----------------------------------------------------------------------------
(* parse_redirection: the word after the last '<', and after the last '>'  *)
(* or '>>'; the command is what stands before the first of them.           *)

Positions(words, ops) == {k \in DOMAIN words : words[k] \in ops}
Redirected(words, ops) ==
  LET at == Positions(words, ops) IN at # {} /\ Max(at) < Len(words)
infile(words) == Redirected(words, {"<"})
outfile(words) == Redirected(words, {">", ">>"})
Named(words, ops) == words[Max(Positions(words, ops)) + 1]

(* open fails. *)
Missing(words) == infile(words) /\ Named(words, {"<"}) = "missing"
Denied(words) == outfile(words) /\ Named(words, {">", ">>"}) = "denied"

Program(words) == IF words = <<>> \/ words[1] \in {"<", ">", ">>"} THEN "none" ELSE words[1]

-----------------------------------------------------------------------------
(* The shell. *)

Init ==
  /\ pc = "prompt" /\ cmds = <<>> /\ i = 1 /\ waits = 0 /\ prev = 0
  /\ sr = {} /\ sw = {}
  /\ st = [k \in Stages |-> "none"]
  /\ cr = [k \in Stages |-> {}] /\ cw = [k \in Stages |-> {}]
  /\ buf = [k \in Stages |-> 0]
  /\ left = [k \in Stages |-> 0] /\ held = [k \in Stages |-> 0]

(* A line, cut at '|' by parse_pipeline; "|" alone gives no command. *)
ReadLine ==
  /\ pc = "prompt"
  /\ \E m \in 0 .. MaxStages : cmds' \in [1 .. m -> Commands]
  /\ i' = 1 /\ prev' = 0 /\ waits' = Len(cmds')
  /\ pc' = IF cmds' = <<>> THEN "wait" ELSE "pipe"
  /\ st' = [k \in Stages |-> "none"]
  /\ buf' = [k \in Stages |-> 0]
  /\ UNCHANGED <<sr, sw, cr, cw, left, held>>

(* pipe(fd), for all stages but the last.  It is taken to succeed: what    *)
(* the code goes on with otherwise are the numbers that were in fd before. *)
MakePipe ==
  /\ pc = "pipe" /\ pc' = "fork"
  /\ IF i < n THEN sr' = sr \cup {i} /\ sw' = sw \cup {i} ELSE UNCHANGED <<sr, sw>>
  /\ UNCHANGED <<cmds, i, waits, prev, stages>>

(* The child starts with copies of the shell's descriptors.  A fork that   *)
(* fails is not noticed: pid is not 0.                                     *)
Fork ==
  /\ pc = "fork" /\ pc' = "close"
  /\ \/ /\ st' = [st EXCEPT ![i] = "new"]
        /\ cr' = [cr EXCEPT ![i] = sr] /\ cw' = [cw EXCEPT ![i] = sw]
     \/ UNCHANGED <<st, cr, cw>>
  /\ UNCHANGED <<cmds, i, waits, prev, sr, sw, buf, left, held>>

(* Mutant: the shell keeps the write end open. *)
KeepWriteEnd ==
  /\ pc = "close"
  /\ sr' = sr \ {prev} /\ UNCHANGED sw
  /\ prev' = IF i < n THEN i ELSE prev
  /\ i' = i + 1
  /\ pc' = IF i < n THEN "pipe" ELSE "wait"
  /\ UNCHANGED <<cmds, waits, stages>>

(* Mutant: prev_fd is not closed in the shell. *)
KeepReadEnd ==
  /\ pc = "close"
  /\ sw' = sw \ {i} /\ UNCHANGED sr
  /\ prev' = IF i < n THEN i ELSE prev
  /\ i' = i + 1
  /\ pc' = IF i < n THEN "pipe" ELSE "wait"
  /\ UNCHANGED <<cmds, waits, stages>>

(* close(prev_fd), close(fd[1]), prev_fd = fd[0]. *)
Close ==
  /\ pc = "close"
  /\ sr' = sr \ {prev}
  /\ sw' = IF i < n THEN sw \ {i} ELSE sw
  /\ prev' = IF i < n THEN i ELSE prev
  /\ i' = i + 1
  /\ pc' = IF i < n THEN "pipe" ELSE "wait"
  /\ UNCHANGED <<cmds, waits, stages>>

Zombies == {k \in Stages : st[k] = "zombie"}
Running == {k \in Stages : st[k] \in {"new", "run"}}

(* wait: one child that has exited, or an error when there is no child. *)
Wait ==
  /\ pc = "wait" /\ waits > 0
  /\ \/ \E k \in Zombies : st' = [st EXCEPT ![k] = "reaped"]
     \/ Zombies \cup Running = {} /\ UNCHANGED st
  /\ waits' = waits - 1
  /\ UNCHANGED <<pc, cmds, i, prev, sr, sw, cr, cw, buf, left, held>>

(* The loop of waits is over: the next prompt. *)
Prompt ==
  /\ pc = "wait" /\ waits = 0
  /\ pc' = "prompt" /\ cmds' = <<>>
  /\ UNCHANGED <<i, waits, prev, sr, sw, stages>>

-----------------------------------------------------------------------------
(* A stage. *)

(* Exit, by itself or by a signal, closes all descriptors. *)
Exit(k) ==
  /\ st' = [st EXCEPT ![k] = "zombie"]
  /\ cr' = [cr EXCEPT ![k] = {}] /\ cw' = [cw EXCEPT ![k] = {}]
  /\ left' = [left EXCEPT ![k] = 0] /\ held' = [held EXCEPT ![k] = 0]

(* Mutant: the child keeps the read end of the pipe it writes to. *)
KeepOwnReadEnd(k) ==
  cr[k] \ (IF infile(cmds[k]) /\ ~Missing(cmds[k]) THEN {k - 1} ELSE {})

(* dup2 puts prev_fd and fd[1] in place of standard input and output, then *)
(* fd[0] is closed; what is redirected to a file gives up its pipe.  A     *)
(* file that cannot be opened leaves the input or output as it was.        *)
ReadEnds(k) ==
  cr[k] \ ((IF k < n THEN {k} ELSE {}) \cup
           (IF infile(cmds[k]) /\ ~Missing(cmds[k]) THEN {k - 1} ELSE {}))
WriteEnds(k) == cw[k] \ (IF outfile(cmds[k]) /\ ~Denied(cmds[k]) THEN {k} ELSE {})

(* From fork to execvp, which fails if there is no such program. *)
Exec(k) ==
  /\ st[k] = "new"
  /\ \/ /\ Program(cmds[k]) \in {"gen", "cat", "head"}
        /\ st' = [st EXCEPT ![k] = "run"]
        /\ cr' = [cr EXCEPT ![k] = ReadEnds(k)]
        /\ cw' = [cw EXCEPT ![k] = WriteEnds(k)]
        /\ left' = [left EXCEPT ![k] = IF Program(cmds[k]) = "gen" THEN PipeCap + 1 ELSE 1]
        /\ held' = [held EXCEPT ![k] = 0]
     \/ Program(cmds[k]) \notin {"gen", "cat", "head"} /\ Exit(k)
  /\ UNCHANGED <<shell, buf>>

(* The programs: gen writes more than a pipe holds; cat copies its input   *)
(* to the end; head copies one block.  A file or the terminal holds one.   *)

FromPipe(k) == k - 1 \in cr[k]
Writable(k) == k \in sw \/ \E c \in Stages : k \in cw[c]
Readable(k) == k \in sr \/ \E c \in Stages : k \in cr[c]

Full(k) == held[k] > 0 \/ (Program(cmds[k]) = "gen" /\ left[k] > 0)

Read(k) ==
  /\ st[k] = "run" /\ Program(cmds[k]) # "gen" /\ ~Full(k)
  /\ \/ /\ FromPipe(k) /\ buf[k - 1] > 0
        /\ buf' = [buf EXCEPT ![k - 1] = @ - 1]
        /\ held' = [held EXCEPT ![k] = 1]
        /\ UNCHANGED left
     \/ /\ ~FromPipe(k) /\ left[k] > 0
        /\ left' = [left EXCEPT ![k] = @ - 1]
        /\ held' = [held EXCEPT ![k] = 1]
        /\ UNCHANGED buf
  /\ UNCHANGED <<shell, st, cr, cw>>

EndOfInput(k) ==
  IF FromPipe(k) /\ Program(cmds[k]) # "gen"
  THEN buf[k - 1] = 0 /\ ~Writable(k - 1) ELSE left[k] = 0

Finish(k) ==
  /\ st[k] = "run" /\ ~Full(k) /\ EndOfInput(k)
  /\ Exit(k) /\ UNCHANGED <<shell, buf>>

(* write; SIGPIPE when nobody can read any more.  head exits after it. *)
Write(k) ==
  /\ st[k] = "run" /\ Full(k)
  /\ \/ /\ k \in cw[k] /\ ~Readable(k)
        /\ Exit(k) /\ UNCHANGED buf
     \/ /\ k \in cw[k] => Readable(k) /\ buf[k] < PipeCap
        /\ buf' = IF k \in cw[k] THEN [buf EXCEPT ![k] = @ + 1] ELSE buf
        /\ IF Program(cmds[k]) = "head" THEN Exit(k)
           ELSE /\ UNCHANGED <<st, cr, cw>>
                /\ IF Program(cmds[k]) = "gen"
                   THEN left' = [left EXCEPT ![k] = @ - 1] /\ UNCHANGED held
                   ELSE held' = [held EXCEPT ![k] = 0] /\ UNCHANGED left
  /\ UNCHANGED shell

Stage(k) == Exec(k) \/ Read(k) \/ Finish(k) \/ Write(k)

Execute == MakePipe \/ Fork \/ Close \/ Wait \/ Prompt
Next == ReadLine \/ Execute \/ \E k \in Stages : Stage(k)
Spec == Init /\ [][Next]_vars /\ WF_vars(Execute) /\ \A k \in Stages : WF_vars(Stage(k))

-----------------------------------------------------------------------------
(* Properties. *)

(* close in execute_pipeline: the ends of a pipe are held by its writer,   *)
(* its reader, the shell until both are forked, and a stage that has yet   *)
(* to close what it inherited.  Nobody else keeps a pipe open.             *)
NoStrayEnds ==
  /\ sw \subseteq {i} /\ sr \subseteq {i - 1, i}
  /\ \A k \in Stages : cw[k] \subseteq {k}
  /\ \A k \in Stages : cr[k] \subseteq IF st[k] = "new" THEN {k - 1, k} ELSE {k - 1}

(* At the prompt all children are waited for and the shell holds no pipe.  *)
PromptIsClean ==
  pc = "prompt" => sr = {} /\ sw = {} /\ Zombies \cup Running = {}

(* Every line leads back to the prompt: no stage waits for an end of input *)
(* that cannot come or for room in a pipe that nobody reads.               *)
PromptReturns == (pc # "prompt") ~> (pc = "prompt")
=============================================================================
