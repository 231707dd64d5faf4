------------------------ MODULE ShellPipelineProofs ------------------------
(* Pipe ends and children of the shell, for pipelines of every length, all *)
(* commands and pipes of every size.                                       *)
EXTENDS ShellPipeline, FiniteSetTheorems, TLAPS

Live == {k \in Stages : st[k] \in {"new", "run", "zombie"}}

(* Ends that stage k may hold before it has closed what it inherited: the  *)
(* last stage inherits no pipe of its own.                                 *)
Inherited(k) == {k - 1} \cup (IF k < n THEN {k} ELSE {})

(* Where the shell is in its loop. *)
ShellOK ==
  /\ i \in Nat /\ n \in 0 .. MaxStages /\ waits \in Nat
  /\ pc \in {"prompt", "pipe", "fork", "close", "wait"}
  /\ pc \in {"pipe", "fork", "close"} => i \in 1 .. n /\ prev = i - 1 /\ waits = n
  /\ pc = "pipe" => sw = {} /\ sr \subseteq {i - 1}
  /\ pc \in {"fork", "close"} =>
       sw \subseteq (IF i < n THEN {i} ELSE {}) /\ sr \subseteq Inherited(i)
  /\ pc \in {"prompt", "wait"} => sw = {} /\ sr = {}

StagesOK ==
  /\ st = [k \in Stages |-> st[k]]
  /\ cr = [k \in Stages |-> cr[k]]
  /\ cw = [k \in Stages |-> cw[k]]
  /\ \A k \in Stages : /\ cw[k] \subseteq {k}
                       /\ cr[k] \subseteq (IF st[k] = "new" THEN Inherited(k) ELSE {k - 1})

(* As many waits are left as there can be children. *)
ChildrenOK ==
  /\ pc = "prompt" => Live = {}
  /\ pc \in {"pipe", "fork"} => Live \subseteq 1 .. i - 1
  /\ pc = "close" => Live \subseteq 1 .. i
  /\ pc = "wait" => Cardinality(Live) <= waits

ShellInv == ShellOK /\ StagesOK /\ ChildrenOK

-----------------------------------------------------------------------------

(* Stages are finitely many, and so are those that run. *)
LEMMA LiveFinite ==
  ASSUME NEW S, NEW m \in Nat, S \subseteq 1 .. m
  PROVE  IsFiniteSet(S) /\ Cardinality(S) \in Nat /\ Cardinality(S) <= m
<1>1. IsFiniteSet(1 .. m) /\ Cardinality(1 .. m) = m
  BY FS_Interval
<1> QED BY <1>1, FS_Subset, FS_CardinalityType, Zenon

(* The invariant holds at the start. *)
LEMMA ShellInit == Init => ShellInv
<1> SUFFICES ASSUME Init PROVE ShellInv
  OBVIOUS
<1>1. ShellOK
  BY ShellAssumption DEF Init, ShellOK, n
<1>2. StagesOK /\ ChildrenOK
  BY DEF Init, StagesOK, ChildrenOK, Live
<1> QED BY <1>1, <1>2 DEF ShellInv

(* What a stage does keeps the shell's part and the set of children. *)
LEMMA StageStep ==
  ASSUME ShellInv, NEW k \in Stages, Stage(k)
  PROVE  ShellInv'
<1>1. UNCHANGED shell
  BY DEF Stage, Exec, Read, Finish, Write
<1>2. ShellOK'
  BY <1>1 DEF ShellInv, ShellOK, shell, n, Inherited
<1>3. /\ st' = [st EXCEPT ![k] = st'[k]]
      /\ st[k] \in {"new", "run"} /\ st'[k] \in {"run", "zombie"}
  <2>1. CASE Exec(k)
    BY <2>1 DEF Exec, Exit, ShellInv, StagesOK
  <2>2. CASE Read(k) \/ Finish(k) \/ Write(k)
    BY <2>2 DEF Read, Finish, Write, Exit, ShellInv, StagesOK
  <2> QED BY <2>1, <2>2 DEF Stage
<1>4. Live' = Live
  BY <1>3 DEF Live, ShellInv, StagesOK
<1>5. ChildrenOK'
  BY <1>1, <1>4 DEF ShellInv, ChildrenOK, shell
<1>6. /\ cw' = [cw EXCEPT ![k] = cw'[k]] /\ cw'[k] \subseteq cw[k]
      /\ cr' = [cr EXCEPT ![k] = cr'[k]] /\ cr'[k] \subseteq {k - 1}
  <2>1. CASE Exec(k)
    <3>1. ReadEnds(k) \subseteq {k - 1} /\ WriteEnds(k) \subseteq cw[k]
      BY <2>1 DEF Exec, ReadEnds, WriteEnds, Inherited, ShellInv, StagesOK
    <3> HIDE DEF ReadEnds, WriteEnds
    <3> QED BY <2>1, <3>1 DEF Exec, Exit, ShellInv, StagesOK
  <2>2. CASE Read(k) \/ Finish(k) \/ Write(k)
    BY <2>2 DEF Read, Finish, Write, Exit, ShellInv, StagesOK
  <2> QED BY <2>1, <2>2 DEF Stage
<1>7. StagesOK'
  BY <1>1, <1>3, <1>6 DEF ShellInv, StagesOK, shell, Inherited, n
<1> QED BY <1>2, <1>5, <1>7 DEF ShellInv

(* What the shell does. *)
LEMMA ShellStep ==
  ASSUME ShellInv, ReadLine \/ Execute
  PROVE  ShellInv'
<1> USE ShellAssumption DEF ShellInv
<1>1. CASE ReadLine
  <2>1. PICK m \in 0 .. MaxStages : cmds' \in [1 .. m -> Commands]
    BY <1>1, Zenon DEF ReadLine
  <2>2. n' = m
    BY <2>1 DEF n
  <2>3. m = 0 <=> cmds' = <<>>
    BY <2>1, <2>2 DEF n
  <2>4. ShellOK'
    <3>1. /\ i' = 1 /\ prev' = 0 /\ waits' = m /\ m \in Nat /\ sw' = {} /\ sr' = {}
          /\ pc' = (IF m = 0 THEN "wait" ELSE "pipe")
      BY <1>1, <2>2, <2>3 DEF ReadLine, ShellOK, n
    <3> QED BY <2>2, <3>1 DEF ShellOK
  <2>5. StagesOK'
    BY <1>1, Zenon DEF ReadLine, StagesOK, ChildrenOK, Live
  <2>6. Live' = {}
    BY <1>1 DEF ReadLine, Live
  <2>7. ChildrenOK'
    BY <1>1, <2>4, <2>6, FS_EmptySet DEF ReadLine, ChildrenOK, ShellOK
  <2> QED BY <2>4, <2>5, <2>7
<1>2. CASE MakePipe
  <2>1. ShellOK'
    BY <1>2 DEF MakePipe, ShellOK, Inherited, n
  <2> QED BY <1>2, <2>1 DEF MakePipe, stages, StagesOK, ChildrenOK, Live, Inherited, n
<1>3. CASE Fork
  <2>1. i \in Stages /\ i \in 1 .. n /\ sr \subseteq Inherited(i) /\ sw \subseteq {i}
    BY <1>3 DEF Fork, ShellOK, Stages
  <2>2. ShellOK'
    BY <1>3 DEF Fork, ShellOK, Inherited, n
  <2>3. StagesOK'
    <3>1. \A k \in Stages : Inherited(k)' = Inherited(k)
      BY <1>3 DEF Fork, Inherited, n
    <3>2. CASE UNCHANGED <<st, cr, cw>>
      BY <3>1, <3>2 DEF StagesOK
    <3>3. CASE /\ st' = [st EXCEPT ![i] = "new"]
               /\ cr' = [cr EXCEPT ![i] = sr] /\ cw' = [cw EXCEPT ![i] = sw]
      <4>1. /\ st' = [k \in Stages |-> st'[k]]
            /\ cr' = [k \in Stages |-> cr'[k]]
            /\ cw' = [k \in Stages |-> cw'[k]]
        BY <3>3, Zenon DEF StagesOK
      <4>2. st'[i] = "new" /\ cr'[i] = sr /\ cw'[i] = sw
        BY <2>1, <3>3 DEF StagesOK
      <4>3. \A k \in Stages \ {i} : st'[k] = st[k] /\ cr'[k] = cr[k] /\ cw'[k] = cw[k]
        BY <3>3, Zenon DEF StagesOK
      <4>4. ASSUME NEW k \in Stages
            PROVE  /\ cw'[k] \subseteq {k}
                   /\ cr'[k] \subseteq (IF st'[k] = "new" THEN Inherited(k)' ELSE {k - 1})
        <5>1. CASE k = i
          BY <2>1, <3>1, <4>2, <5>1, Zenon
        <5>2. CASE k # i
          BY <3>1, <4>3, <5>2 DEF StagesOK
        <5> QED BY <5>1, <5>2
      <4> QED BY <4>1, <4>4 DEF StagesOK
    <3> QED BY <1>3, <3>2, <3>3 DEF Fork
  <2>4. Live' \subseteq Live \cup {i}
    BY <1>3, <2>1 DEF Fork, StagesOK, Live
  <2>5. ChildrenOK'
    BY <1>3, <2>1, <2>4 DEF Fork, ChildrenOK
  <2> QED BY <2>2, <2>3, <2>5
<1>4. CASE Close
  <2>1. ShellOK'
    BY <1>4 DEF Close, ShellOK, Inherited, n
  <2>2. StagesOK' /\ Live' = Live
    BY <1>4 DEF Close, stages, StagesOK, Live, Inherited, n
  <2>3. i \in Nat /\ i \in 1 .. n /\ waits = n /\ Live \subseteq 1 .. i
    BY <1>4 DEF Close, ShellOK, ChildrenOK
  <2>4. Cardinality(Live) <= i
    BY <2>3, LiveFinite, Zenon
  <2>5. ChildrenOK'
    BY <1>4, <2>2, <2>3, <2>4 DEF Close, ChildrenOK, ShellOK, n
  <2> QED BY <2>1, <2>2, <2>5
<1>5. CASE Wait
  <2>1. ShellOK'
    BY <1>5 DEF Wait, ShellOK, n
  <2>2. Cardinality(Live) <= waits /\ waits \in Nat /\ waits > 0 /\ pc' = "wait" /\ waits' = waits - 1
    BY <1>5 DEF Wait, ShellOK, ChildrenOK
  <2>3. IsFiniteSet(Live) /\ Cardinality(Live) \in Nat
    BY LiveFinite DEF Live, Stages
  <2>4. CASE \E k \in Zombies : st' = [st EXCEPT ![k] = "reaped"]
    <3>1. PICK k \in Zombies : st' = [st EXCEPT ![k] = "reaped"]
      BY <2>4, Zenon
    <3>2. StagesOK'
      BY <1>5, <3>1 DEF Wait, StagesOK, Zombies, Inherited, n
    <3>3. Live' = Live \ {k} /\ k \in Live
      BY <3>1 DEF Live, Zombies, StagesOK
    <3>4. Cardinality(Live') = Cardinality(Live) - 1
      BY <2>3, <3>3, FS_RemoveElement, Zenon
    <3> QED BY <2>1, <2>2, <2>3, <3>2, <3>4 DEF ChildrenOK
  <2>5. CASE Zombies \cup Running = {} /\ UNCHANGED st
    <3>1. Live' = {} /\ StagesOK'
      BY <1>5, <2>5, Zenon DEF Wait, Live, Zombies, Running, StagesOK, Inherited, n
    <3> QED BY <2>1, <2>2, <3>1, FS_EmptySet DEF ChildrenOK
  <2> QED BY <1>5, <2>4, <2>5 DEF Wait
<1>6. CASE Prompt
  <2>1. ShellOK'
    BY <1>6 DEF Prompt, ShellOK, n
  <2>2. Cardinality(Live) <= 0
    BY <1>6 DEF Prompt, ChildrenOK
  <2>3. IsFiniteSet(Live) /\ Cardinality(Live) \in Nat
    BY LiveFinite DEF Live, Stages
  <2>4. Live = {}
    BY <2>2, <2>3, FS_EmptySet
  <2> QED BY <1>6, <2>1, <2>4, Zenon DEF Prompt, stages, StagesOK, ChildrenOK, Live
<1> QED BY <1>1, <1>2, <1>3, <1>4, <1>5, <1>6 DEF Execute

-----------------------------------------------------------------------------
(* However long the pipeline and whatever its commands do, no process      *)
(* keeps an end of a pipe that is not its own, and the prompt comes back   *)
(* with every child waited for and every pipe closed.                      *)
THEOREM PipesAreClosed == Spec => [](NoStrayEnds /\ PromptIsClean)
<1>1. ShellInv /\ [Next]_vars => ShellInv'
  <2>1. ASSUME ShellInv, Next PROVE ShellInv'
    BY <2>1, ShellStep, StageStep DEF Next
  <2>2. ASSUME ShellInv, UNCHANGED vars PROVE ShellInv'
    BY <2>2, ZenonT(40) DEF ShellInv, ShellOK, StagesOK, ChildrenOK, Live, Inherited, n, vars, shell, stages
  <2> QED BY <2>1, <2>2
<1>2. ShellInv => NoStrayEnds
  BY DEF ShellInv, ShellOK, StagesOK, Inherited, NoStrayEnds, Stages
<1>3. ShellInv => PromptIsClean
  BY DEF ShellInv, ShellOK, ChildrenOK, Live, PromptIsClean, Zombies, Running
<1> QED BY ShellInit, <1>1, <1>2, <1>3, PTL DEF Spec

(* The prompt comes back with every child waited for and every pipe closed, *)
(* after a pipeline of any length.                                         *)
THEOREM PromptComesBackClean == Spec => []PromptIsClean
BY PipesAreClosed, PTL
=============================================================================
