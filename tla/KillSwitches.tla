--------------------------- MODULE KillSwitches ---------------------------
(***************************************************************************)
(* risk/killswitch.py: the kill switches of every process that opens       *)
(* killswitches.json -- the trading loop, and each run of `aqtp stop`,     *)
(* `kill`, `resume` and `paper-stop`.  A process reads the file once, when *)
(* its KillSwitchManager is built, changes its own copy, and saves the     *)
(* whole copy: truncate killswitches.tmp, write it, rename it over the     *)
(* file.  Nothing locks the file, and all processes use one tmp name.      *)
(***************************************************************************)
EXTENDS Naturals

CONSTANTS
    Loop,        \* the trading process
    Commands,    \* runs of the command line
    Strategies,  \* strategy names, targets of the strategy scope
    Instruments, \* symbols, targets of the instrument scope
    Usable       \* bound: the switches anyone engages

Procs == {Loop} \union Commands

\* _key: a scope, or a scope and a target.
NoTarget == "*"
Key(scope, target) == [scope |-> scope, target |-> target]
GLOBAL == Key("global", NoTarget)
APPLICATION == Key("application", NoTarget)
Keys == {Key(s, NoTarget) :
            s \in {"global", "application", "broker", "portfolio", "strategy", "instrument"}}
        \union {Key("strategy", s) : s \in Strategies}
        \union {Key("instrument", i) : i \in Instruments}

ASSUME SwitchAssumption ==
    /\ Loop \notin Commands
    /\ Usable \subseteq Keys
    /\ NoTarget \notin Strategies \union Instruments

VARIABLES
    file,    \* killswitches.json: its switches, and whether it parses
    tmp,     \* killswitches.tmp; "absent" when there is none
    mem,     \* _switches of each process
    pc,      \* where each process is; "down" when it does not run
    op,      \* the change the process is saving
    fd,      \* where the process's open write goes: tmp, file, or nowhere any more
    engaged,    \* history: what the completed commands have engaged and not released
    overlapped  \* history: two processes have run at once

vars == <<file, tmp, mem, pc, op, fd, engaged, overlapped>>

Content(S) == [switches |-> S, whole |-> TRUE]
Cut == [switches |-> {}, whole |-> FALSE]
Contents == [switches : SUBSET Keys, whole : BOOLEAN]
Absent == [absent |-> TRUE]

\* _load: a file that does not parse is taken for no switches at all.
Loaded == IF file.whole THEN file.switches ELSE {}

\* A change: engage, release, release_all.
Change == [kind : {"engage", "release", "clear"}, key : Keys]
Apply(c, S) == CASE c.kind = "engage"  -> S \union {c.key}
                 [] c.kind = "release" -> S \ {c.key}
                 [] OTHER              -> {}

\* can_trade: no scope as a whole, nor the strategy or the instrument asked for.
CanTrade(S, strategy, instrument) ==
    /\ \A k \in S : k.target # NoTarget
    /\ Key("strategy", strategy) \notin S
    /\ Key("instrument", instrument) \notin S

-----------------------------------------------------------------------------
NoChange == [kind |-> "clear", key |-> GLOBAL]

Init ==
    /\ file = Content({}) /\ tmp = Absent
    /\ mem = [p \in Procs |-> {}]
    /\ pc = [p \in Procs |-> "down"]
    /\ op = [p \in Procs |-> NoChange]
    /\ fd = [p \in Procs |-> "tmp"]
    /\ engaged = {} /\ overlapped = FALSE

\* A process builds its manager; the loop refuses to start under GLOBAL.
Open(p) ==
    /\ pc[p] = "down"
    /\ p = Loop => GLOBAL \notin Loaded
    /\ pc' = [pc EXCEPT ![p] = "ready"]
    /\ mem' = [mem EXCEPT ![p] = Loaded]
    /\ overlapped' = (overlapped \/ \E q \in Procs : pc[q] # "down")
    /\ UNCHANGED <<file, tmp, op, fd, engaged>>

\* Mutant: the loop may release switches too.
ExecuteUnrestricted(p, c) ==
    /\ pc[p] = "ready"
    /\ c.key \in Usable
    /\ c.kind = "release" => c.key \in mem[p]
    /\ mem' = [mem EXCEPT ![p] = Apply(c, @)]
    /\ op' = [op EXCEPT ![p] = c]
    /\ pc' = [pc EXCEPT ![p] = "truncate"]
    /\ UNCHANGED <<file, tmp, fd, engaged, overlapped>>

\* A command changes the copy of its process.  The loop only engages: GLOBAL at
\* drawdown level 4, APPLICATION from the watchdog.
Execute(p, c) ==
    /\ pc[p] = "ready"
    /\ c.key \in Usable
    /\ p = Loop => c.kind = "engage" /\ c.key \in {GLOBAL, APPLICATION}
    /\ c.kind = "release" => c.key \in mem[p]
    /\ mem' = [mem EXCEPT ![p] = Apply(c, @)]
    /\ op' = [op EXCEPT ![p] = c]
    /\ pc' = [pc EXCEPT ![p] = "truncate"]
    /\ UNCHANGED <<file, tmp, fd, engaged, overlapped>>

\* Mutant: the save removes the old file before it writes the new one.
TruncateUnlinking(p) ==
    /\ pc[p] = "truncate"
    /\ tmp' = Cut /\ file' = Absent
    /\ fd' = [fd EXCEPT ![p] = "tmp"]
    /\ pc' = [pc EXCEPT ![p] = "write"]
    /\ UNCHANGED <<mem, op, engaged, overlapped>>

\* Mutant: the save truncates the file itself.
TruncateInPlace(p) ==
    /\ pc[p] = "truncate"
    /\ tmp' = Cut /\ file' = Cut
    /\ fd' = [fd EXCEPT ![p] = "tmp"]
    /\ pc' = [pc EXCEPT ![p] = "write"]
    /\ UNCHANGED <<mem, op, engaged, overlapped>>

\* _save: write_text opens tmp, which empties it, ...
Truncate(p) ==
    /\ pc[p] = "truncate"
    /\ tmp' = Cut
    /\ fd' = [fd EXCEPT ![p] = "tmp"]
    /\ pc' = [pc EXCEPT ![p] = "write"]
    /\ UNCHANGED <<file, mem, op, engaged, overlapped>>

\* ... then writes to what it opened, wherever a rename has put that since ...
Write(p) ==
    /\ pc[p] = "write"
    /\ tmp' = IF fd[p] = "tmp" THEN Content(mem[p]) ELSE tmp
    /\ file' = IF fd[p] = "file" THEN Content(mem[p]) ELSE file
    /\ fd' = [fd EXCEPT ![p] = "tmp"]
    /\ pc' = [pc EXCEPT ![p] = "replace"]
    /\ UNCHANGED <<mem, op, engaged, overlapped>>

\* What a process knows dies with it.
End(p) ==
    /\ pc' = [pc EXCEPT ![p] = "down"]
    /\ mem' = [mem EXCEPT ![p] = {}]
    /\ op' = [op EXCEPT ![p] = NoChange]

\* The loop goes on after a save; a command is done.
Continue(p) ==
    \/ p # Loop /\ End(p)
    \/ /\ p = Loop
       /\ pc' = [pc EXCEPT ![p] = "ready"]
       /\ op' = [op EXCEPT ![p] = NoChange]
       /\ UNCHANGED mem

\* ... and renames tmp over the file, from under the writes still open.
Replace(p) ==
    /\ pc[p] = "replace" /\ tmp # Absent
    /\ file' = tmp /\ tmp' = Absent
    /\ fd' = [q \in Procs |-> IF pc[q] # "write" THEN "tmp"
                              ELSE IF fd[q] = "tmp" THEN "file" ELSE "gone"]
    /\ engaged' = Apply(op[p], engaged)
    /\ Continue(p)
    /\ UNCHANGED overlapped

\* Another process has renamed tmp away: the save fails.
ReplaceFails(p) ==
    /\ pc[p] = "replace" /\ tmp = Absent
    /\ Continue(p)
    /\ UNCHANGED <<file, tmp, fd, engaged, overlapped>>

\* The process ends, or dies at any point of a save.
Exit(p) ==
    /\ pc[p] # "down"
    /\ End(p)
    /\ fd' = [fd EXCEPT ![p] = "tmp"]
    /\ UNCHANGED <<file, tmp, engaged, overlapped>>

Next ==
    \E p \in Procs :
        \/ Open(p)
        \/ \E c \in Change : Execute(p, c)
        \/ Truncate(p) \/ Write(p) \/ Replace(p) \/ ReplaceFails(p)
        \/ Exit(p)

Spec == Init /\ [][Next]_vars

-----------------------------------------------------------------------------
TypeOK ==
    /\ file \in Contents
    /\ tmp \in Contents \union {Absent}
    /\ mem \in [Procs -> SUBSET Keys]
    /\ pc \in [Procs -> {"down", "ready", "truncate", "write", "replace"}]
    /\ op \in [Procs -> Change]
    /\ fd \in [Procs -> {"tmp", "file", "gone"}]
    /\ engaged \subseteq Keys /\ overlapped \in BOOLEAN

\* "A kill switch that evaporates on restart is not a kill switch": as long as the
\* processes have run one after another, what the next one loads is what the
\* completed commands have engaged, wherever an earlier one died in its save.
EngagedSurvives == ~overlapped => Loaded = engaged

\* A running loop that its switches keep from trading stays so until it restarts,
\* whatever the other processes do to the file meanwhile.
LoopStaysBlocked ==
    [][\A s \in Strategies, i \in Instruments :
          (pc[Loop] # "down" /\ pc'[Loop] # "down" /\ ~CanTrade(mem[Loop], s, i))
             => ~CanTrade(mem'[Loop], s, i)]_vars

\* "The running loop will stop entering": once `aqtp stop` has returned, a running
\* loop no longer passes can_trade.
StopIsNoticed ==
    \A s \in Strategies, i \in Instruments :
        (pc[Loop] = "ready" /\ APPLICATION \in engaged) => ~CanTrade(mem[Loop], s, i)
=============================================================================
