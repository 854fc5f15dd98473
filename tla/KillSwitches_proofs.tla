------------------------ MODULE KillSwitches_proofs ------------------------
(***************************************************************************)
(* What KillSwitches promises, for any set of commands, strategies and     *)
(* instruments.  A running loop stays blocked whatever runs beside it; and *)
(* as long as no two processes have run at once, what a process loads is   *)
(* exactly what the completed commands have engaged.                       *)
(***************************************************************************)
EXTENDS KillSwitches, TLAPS

USE DEF Procs, vars

LEMMA KeysInKeys == GLOBAL \in Keys /\ APPLICATION \in Keys
BY DEF Keys, GLOBAL, APPLICATION, Key

LEMMA ApplyType ==
    ASSUME NEW c \in Change, NEW S \in SUBSET Keys
    PROVE  Apply(c, S) \in SUBSET Keys
BY DEF Apply, Change

LEMMA ChangeType == NoChange \in Change
BY KeysInKeys DEF NoChange, Change

LEMMA ContentType == \A S \in SUBSET Keys : Content(S) \in Contents /\ Cut \in Contents
BY DEF Content, Contents, Cut

LEMMA LoadedType == TypeOK => Loaded \in SUBSET Keys
BY DEF TypeOK, Loaded, Contents

-----------------------------------------------------------------------------
LEMMA TypeInit == Init => TypeOK
<1>. SUFFICES ASSUME Init PROVE TypeOK
  OBVIOUS
<1>1. overlapped \in BOOLEAN  BY DEF Init
<1>. QED  BY <1>1, ContentType, ChangeType DEF Init, TypeOK

LEMMA EndType ==
    ASSUME TypeOK, NEW p \in Procs, End(p)
    PROVE  /\ mem' \in [Procs -> SUBSET Keys]
           /\ pc' \in [Procs -> {"down", "ready", "truncate", "write", "replace"}]
           /\ op' \in [Procs -> Change]
BY ChangeType DEF TypeOK, End

LEMMA ContinueType ==
    ASSUME TypeOK, NEW p \in Procs, Continue(p)
    PROVE  /\ mem' \in [Procs -> SUBSET Keys]
           /\ pc' \in [Procs -> {"down", "ready", "truncate", "write", "replace"}]
           /\ op' \in [Procs -> Change]
<1>1. CASE End(p)  BY <1>1, EndType
<1>2. CASE ~End(p)  BY <1>2, ChangeType DEF TypeOK, Continue
<1>. QED  BY <1>1, <1>2

LEMMA TypeStep == TypeOK /\ [Next]_vars => TypeOK'
<1>. SUFFICES ASSUME TypeOK, [Next]_vars PROVE TypeOK'
  OBVIOUS
<1>1. CASE UNCHANGED vars  BY <1>1 DEF TypeOK
<1>2. ASSUME NEW p \in Procs, Open(p) PROVE TypeOK'
  BY <1>2, LoadedType DEF TypeOK, Open
<1>3. ASSUME NEW p \in Procs, NEW c \in Change, Execute(p, c) PROVE TypeOK'
  <2>1. mem[p] \in SUBSET Keys  BY DEF TypeOK
  <2>2. Apply(c, mem[p]) \in SUBSET Keys  BY <2>1, ApplyType
  <2>. QED  BY <1>3, <2>2 DEF TypeOK, Execute
<1>4. ASSUME NEW p \in Procs, Truncate(p) PROVE TypeOK'
  BY <1>4, ContentType DEF TypeOK, Truncate
<1>5. ASSUME NEW p \in Procs, Write(p) PROVE TypeOK'
  <2>1. mem[p] \in SUBSET Keys  BY DEF TypeOK
  <2>2. Content(mem[p]) \in Contents  BY <2>1, ContentType
  <2>. QED  BY <1>5, <2>2 DEF TypeOK, Write
<1>6. ASSUME NEW p \in Procs, Replace(p) PROVE TypeOK'
  <2>1. Apply(op[p], engaged) \in SUBSET Keys  BY ApplyType DEF TypeOK
  <2>2. fd' \in [Procs -> {"tmp", "file", "gone"}]  BY <1>6 DEF Replace
  <2>. QED  BY <1>6, <2>1, <2>2, ContinueType DEF TypeOK, Replace
<1>7. ASSUME NEW p \in Procs, ReplaceFails(p) PROVE TypeOK'
  BY <1>7, ContinueType DEF TypeOK, ReplaceFails
<1>8. ASSUME NEW p \in Procs, Exit(p) PROVE TypeOK'
  BY <1>8, EndType DEF TypeOK, Exit
<1>. QED  BY <1>1, <1>2, <1>3, <1>4, <1>5, <1>6, <1>7, <1>8 DEF Next

\* Every value stays in its range, for any constants.
THEOREM SwitchTypeCorrect == Spec => []TypeOK
BY TypeInit, TypeStep, PTL DEF Spec

-----------------------------------------------------------------------------
\* What a loop may do to its own copy only adds switches.
LEMMA BlockingGrows ==
    ASSUME NEW S, NEW T, S \subseteq T, NEW s, NEW i, ~CanTrade(S, s, i)
    PROVE  ~CanTrade(T, s, i)
BY DEF CanTrade

LEMMA LoopOnlyEngages ==
    ASSUME TypeOK, [Next]_vars, pc[Loop] # "down", pc'[Loop] # "down"
    PROVE  mem[Loop] \subseteq mem'[Loop]
<1>. Loop \in Procs  OBVIOUS
<1>1. CASE UNCHANGED vars  BY <1>1
<1>2. ASSUME NEW p \in Procs, Open(p) PROVE mem[Loop] \subseteq mem'[Loop]
  BY <1>2 DEF TypeOK, Open
<1>3. ASSUME NEW p \in Procs, NEW c \in Change, Execute(p, c)
      PROVE mem[Loop] \subseteq mem'[Loop]
  BY <1>3 DEF TypeOK, Execute, Apply
<1>4. ASSUME NEW p \in Procs, Truncate(p) \/ Write(p) PROVE mem[Loop] \subseteq mem'[Loop]
  BY <1>4 DEF Truncate, Write
<1>5. ASSUME NEW p \in Procs, End(p) PROVE mem[Loop] \subseteq mem'[Loop]
  BY <1>5 DEF TypeOK, End
<1>6. ASSUME NEW p \in Procs, Replace(p) \/ ReplaceFails(p)
      PROVE mem[Loop] \subseteq mem'[Loop]
  BY <1>6, <1>5 DEF Replace, ReplaceFails, Continue
<1>7. ASSUME NEW p \in Procs, Exit(p) PROVE mem[Loop] \subseteq mem'[Loop]
  BY <1>7, <1>5 DEF Exit
<1>. QED  BY <1>1, <1>2, <1>3, <1>4, <1>6, <1>7 DEF Next

\* A running loop that may not trade stays so, whatever other processes do.
THEOREM BlockedLoopStaysBlocked == Spec => LoopStaysBlocked
<1>1. TypeOK /\ [Next]_vars =>
        [\A s \in Strategies, i \in Instruments :
            (pc[Loop] # "down" /\ pc'[Loop] # "down" /\ ~CanTrade(mem[Loop], s, i))
               => ~CanTrade(mem'[Loop], s, i)]_vars
  BY LoopOnlyEngages, BlockingGrows
<1>. QED  BY <1>1, SwitchTypeCorrect, PTL DEF Spec, LoopStaysBlocked

-----------------------------------------------------------------------------
\* Until two processes overlap: at most one runs, and what it knows, and what its save has reached.
Alone == \A p, q \in Procs : pc[p] # "down" /\ pc[q] # "down" => p = q
FileIsEngaged == file = Content(engaged)
CopyOf(p) ==
    /\ pc[p] = "ready" => mem[p] = engaged
    /\ pc[p] \in {"truncate", "write", "replace"} => mem[p] = Apply(op[p], engaged)
    /\ pc[p] = "write" => fd[p] = "tmp"
    /\ pc[p] = "replace" => tmp = Content(mem[p])
AloneInv == ~overlapped => Alone /\ FileIsEngaged /\ \A p \in Procs : CopyOf(p)

LEMMA LoadedContent == FileIsEngaged => Loaded = engaged
BY DEF FileIsEngaged, Loaded, Content

LEMMA AloneInit == Init => AloneInv
BY DEF Init, AloneInv, Alone, FileIsEngaged, CopyOf

LEMMA AloneStep ==
    ASSUME TypeOK, AloneInv, [Next]_vars
    PROVE  AloneInv'
<1>. SUFFICES ASSUME ~overlapped' PROVE AloneInv'
  BY DEF AloneInv
<1>. USE DEF AloneInv
<1>0. ~overlapped
  BY DEF Next, Open, Execute, Truncate, Write, Replace, ReplaceFails, Exit
<1>. USE <1>0
<1>1. CASE UNCHANGED vars  BY <1>1 DEF Alone, FileIsEngaged, CopyOf
<1>2. ASSUME NEW p \in Procs, Open(p) PROVE AloneInv'
  <2>1. Alone'  BY <1>2 DEF Alone, Open, TypeOK
  <2>2. FileIsEngaged'  BY <1>2 DEF FileIsEngaged, Open
  <2>3. ASSUME NEW q \in Procs PROVE CopyOf(q)'
    <3>1. CASE q = p  BY <3>1, <1>2, LoadedContent DEF CopyOf, Open, TypeOK
    <3>2. CASE q # p  BY <3>2, <1>2 DEF CopyOf, Open, TypeOK
    <3>. QED  BY <3>1, <3>2
  <2>. QED  BY <2>1, <2>2, <2>3
<1>3. ASSUME NEW p \in Procs, NEW c \in Change, Execute(p, c) PROVE AloneInv'
  <2>1. Alone'  BY <1>3 DEF Alone, Execute, TypeOK
  <2>2. FileIsEngaged'  BY <1>3 DEF FileIsEngaged, Execute
  <2>3. ASSUME NEW q \in Procs PROVE CopyOf(q)'
    <3>1. CASE q = p
      <4>1. mem[p] = engaged  BY <1>3 DEF CopyOf, Execute
      <4>2. mem'[p] = Apply(c, engaged)  BY <1>3, <4>1 DEF Execute, TypeOK
      <4>3. op'[p] = c /\ pc'[p] = "truncate" /\ engaged' = engaged
        BY <1>3 DEF Execute, TypeOK
      <4>. QED  BY <3>1, <4>2, <4>3 DEF CopyOf
    <3>2. CASE q # p  BY <3>2, <1>3 DEF CopyOf, Execute, TypeOK
    <3>. QED  BY <3>1, <3>2
  <2>. QED  BY <2>1, <2>2, <2>3
<1>4. ASSUME NEW p \in Procs, Truncate(p) PROVE AloneInv'
  <2>1. Alone'  BY <1>4 DEF Alone, Truncate, TypeOK
  <2>2. FileIsEngaged'  BY <1>4 DEF FileIsEngaged, Truncate
  <2>3. ASSUME NEW q \in Procs PROVE CopyOf(q)'
    <3>1. CASE q = p  BY <3>1, <1>4 DEF CopyOf, Truncate, TypeOK
    <3>2. CASE q # p
      <4>1. pc'[q] = "down"  BY <3>2, <1>4 DEF Alone, Truncate, TypeOK
      <4>. QED  BY <4>1 DEF CopyOf
    <3>. QED  BY <3>1, <3>2
  <2>. QED  BY <2>1, <2>2, <2>3
<1>5. ASSUME NEW p \in Procs, Write(p) PROVE AloneInv'
  <2>. fd[p] = "tmp"  BY <1>5 DEF CopyOf, Write
  <2>1. Alone'  BY <1>5 DEF Alone, Write, TypeOK
  <2>2. FileIsEngaged'  BY <1>5 DEF FileIsEngaged, Write
  <2>3. ASSUME NEW q \in Procs PROVE CopyOf(q)'
    <3>1. CASE q = p  BY <3>1, <1>5 DEF CopyOf, Write, TypeOK
    <3>2. CASE q # p
      <4>1. pc'[q] = "down"  BY <3>2, <1>5 DEF Alone, Write, TypeOK
      <4>. QED  BY <4>1 DEF CopyOf
    <3>. QED  BY <3>1, <3>2
  <2>. QED  BY <2>1, <2>2, <2>3
<1>6. ASSUME NEW p \in Procs, Replace(p) PROVE AloneInv'
  <2>1. engaged' = mem[p] /\ file' = Content(engaged')
    BY <1>6 DEF CopyOf, Replace
  <2>2. \/ pc' = [pc EXCEPT ![p] = "down"]
        \/ pc' = [pc EXCEPT ![p] = "ready"] /\ mem' = mem
    <3>1. CASE End(p)  BY <3>1 DEF End
    <3>2. CASE ~End(p)  BY <3>2, <1>6 DEF Replace, Continue
    <3>. QED  BY <3>1, <3>2
  <2>3. Alone'  BY <1>6, <2>2 DEF Alone, Replace, TypeOK
  <2>4. FileIsEngaged'  BY <2>1 DEF FileIsEngaged
  <2>5. ASSUME NEW q \in Procs PROVE CopyOf(q)'
    <3>1. CASE q = p  BY <3>1, <2>1, <2>2 DEF CopyOf, TypeOK
    <3>2. CASE q # p
      <4>1. pc'[q] = "down"  BY <3>2, <1>6, <2>2 DEF Alone, Replace, TypeOK
      <4>. QED  BY <4>1 DEF CopyOf
    <3>. QED  BY <3>1, <3>2
  <2>. QED  BY <2>3, <2>4, <2>5
<1>7. ASSUME NEW p \in Procs, ReplaceFails(p) PROVE AloneInv'
  <2>1. tmp = Content(mem[p])  BY <1>7 DEF CopyOf, ReplaceFails
  <2>2. tmp.whole  BY <2>1 DEF Content
  <2>3. tmp = Absent /\ DOMAIN Absent = {"absent"} /\ DOMAIN tmp = {"switches", "whole"}
    BY <1>7, <2>1 DEF ReplaceFails, Absent, Content
  <2>. QED  BY <2>3
<1>8. ASSUME NEW p \in Procs, Exit(p) PROVE AloneInv'
  <2>1. Alone'  BY <1>8 DEF Alone, Exit, End, TypeOK
  <2>2. FileIsEngaged'  BY <1>8 DEF FileIsEngaged, Exit
  <2>3. ASSUME NEW q \in Procs PROVE CopyOf(q)'
    <3>1. pc'[q] = "down"  BY <1>8 DEF Alone, Exit, End, TypeOK
    <3>. QED  BY <3>1 DEF CopyOf
  <2>. QED  BY <2>1, <2>2, <2>3
<1>. QED  BY <1>1, <1>2, <1>3, <1>4, <1>5, <1>6, <1>7, <1>8 DEF Next

\* While processes run one after another, the next one loads exactly the switches
\* that the completed commands engaged, wherever a process died in its save.
THEOREM SwitchesSurvive == Spec => []EngagedSurvives
<1>1. TypeOK /\ AloneInv /\ [Next]_vars => AloneInv'
  BY AloneStep
<1>2. AloneInv => EngagedSurvives
  BY LoadedContent DEF AloneInv, EngagedSurvives
<1>. QED  BY AloneInit, <1>1, <1>2, SwitchTypeCorrect, PTL DEF Spec
=============================================================================
