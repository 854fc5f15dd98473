--------------------------- MODULE ManualTrading ---------------------------
(***************************************************************************)
(* execution/manual.py behind cli/trade.py, in LIVE mode: every            *)
(* `aqtp trade ...` command is a process of its own that starts an         *)
(* orchestrator, adopts what the broker holds, does one thing and exits.   *)
(* The broker, the switches on disk and what one command left working at   *)
(* the broker are all that the next command finds.                         *)
(***************************************************************************)
EXTENDS Integers, FiniteSets

CONSTANTS
    DeskContracts,
    MaxDeskUnits        \* bound: units of a request, and of what is held of a contract

ASSUME DeskAssumption == MaxDeskUnits \in Nat \ {0} /\ IsFiniteSet(DeskContracts)

Unsized == 0        \* neither --lots nor --quantity

VARIABLES
    switchOnDisk,  \* a switch that covers the contracts is in killswitches.json
    desk,          \* the running command, or Idle
    held,          \* signed units of each contract at the broker
    working,       \* signed units of exits left working at the broker
    crossed        \* history: orders of the contract met an exit that was working

deskVars == <<switchOnDisk, desk, held, working, crossed>>

Idle == [stage |-> "idle"]

Entries ==
    [kind : {"entry"}, side : {1, -1}, contract : DeskContracts,
     units : Unsized..MaxDeskUnits, force : BOOLEAN]
Exits == [kind : {"exit"}, contract : DeskContracts, units : Unsized..MaxDeskUnits]
CloseAlls == [kind : {"close_all"}]
\* An entry with --dry-run, and set-stop: nothing outside the process is changed.
Previews == [kind : {"dry_run", "set_stop"}]
Requests == Entries \union Exits \union CloseAlls \union Previews

Size(n) == IF n < 0 THEN -n ELSE n
Sgn(n) == IF n < 0 THEN -1 ELSE IF n > 0 THEN 1 ELSE 0
Shrinks(old, new) == Size(new) <= Size(old) /\ Sgn(old) * new >= 0

-----------------------------------------------------------------------------
DeskInit ==
    /\ switchOnDisk = FALSE /\ desk = Idle
    /\ held = [c \in DeskContracts |-> 0]
    /\ working = [c \in DeskContracts |-> 0]
    /\ crossed = [c \in DeskContracts |-> FALSE]

\* `aqtp stop` and `aqtp resume`, from another process.
Switch ==
    /\ switchOnDisk' = ~switchOnDisk
    /\ UNCHANGED <<desk, held, working, crossed>>

\* _session: the switches are loaded, the broker's positions adopted.  start()
\* answers TRUE also when the state is not safe to trade, and nothing in the
\* session looks at trading_allowed again.
StartCommand(command) ==
    /\ desk = Idle
    /\ desk' = [stage |-> "ready", cmd |-> command, blocked |-> switchOnDisk,
                book |-> held,
                beside |-> {c \in DeskContracts : working[c] # 0}, units |-> 0]
    /\ UNCHANGED <<switchOnDisk, held, working, crossed>>

\* confirm: the prompt waits for as long as the operator does, who may decline.  An exit
\* that is refused, or finds nothing to close, ends as quietly.
Decline ==
    /\ desk.stage = "ready" /\ desk.cmd \notin Previews
    /\ desk' = Idle
    /\ UNCHANGED <<switchOnDisk, held, working, crossed>>

\* _dry_run asks the risk engine and shows its answer.  set_stop moves the levels of a
\* position in the memory of a process that ends with the command; the loop that manages
\* the position never learns of them.
Preview ==
    /\ desk.stage = "ready" /\ desk.cmd \in Previews
    /\ desk' = Idle
    /\ UNCHANGED <<switchOnDisk, held, working, crossed>>

\* What _enter makes of the request and of the risk engine's size (0: rejected).
\* A switch is never bypassed; --force takes the request as it is; a request above
\* the approved size is refused, never trimmed.
EntryUnits(cmd, blocked, approved) ==
    IF blocked THEN 0
    ELSE IF cmd.force THEN cmd.units
    ELSE IF cmd.units > approved THEN 0
    ELSE IF cmd.units = Unsized THEN approved ELSE cmd.units

Assess ==
    /\ desk.stage = "ready" /\ desk.cmd.kind = "entry"
    /\ \E approved \in 0..MaxDeskUnits :
         LET n == EntryUnits(desk.cmd, desk.blocked, approved) IN
         desk' = IF n = 0 THEN Idle
                 ELSE [desk EXCEPT !.stage = "send", !.units = n]
    /\ UNCHANGED <<switchOnDisk, held, working, crossed>>

Meets(c) == working[c] # 0 \/ c \in desk.beside

\* execute: filled, in part, not at all, or with an unknown fate; the remainder of
\* an entry is cancelled.  What was tracked and halted ends with the process.
SendEntry ==
    LET c == desk.cmd.contract IN
    /\ desk.stage = "send"
    /\ \E n \in 0..desk.units :
         /\ Size(held[c] + desk.cmd.side * n) <= MaxDeskUnits
         /\ held' = [held EXCEPT ![c] = @ + desk.cmd.side * n]
    /\ crossed' = [crossed EXCEPT ![c] = @ \/ Meets(c)]
    /\ desk' = Idle
    /\ UNCHANGED <<switchOnDisk, working>>

\* Mutant: an exit is not limited by the position.
ExitUnitsAsked(c, asked) ==
    IF asked = Unsized THEN Size(desk.book[c]) ELSE asked

\* exit_position refuses more than the adopted position; no quantity means all of it.
ExitUnits(c, asked) ==
    LET all == Size(desk.book[c]) IN
    IF asked > all THEN 0 ELSE IF asked = Unsized THEN all ELSE asked

\* close_position sends a market order and waits for a fill; what has not filled in
\* time stays working.  After a fill the trade record of an adopted position raises
\* an error and the process ends; without one the next position has its turn.
SendExit(c, asked) ==
    LET units == ExitUnits(c, asked)
        away  == -Sgn(desk.book[c]) IN
    /\ units > 0
    /\ \E n \in 0..units :
         /\ held' = [held EXCEPT ![c] = @ + away * n]
         /\ working' = [working EXCEPT ![c] = @ + away * (units - n)]
         /\ Size(held'[c]) <= MaxDeskUnits /\ Size(working'[c]) <= MaxDeskUnits
         /\ desk' = IF n = 0 /\ desk.cmd.kind = "close_all"
                      THEN [desk EXCEPT !.book[c] = 0] ELSE Idle
    /\ crossed' = [crossed EXCEPT ![c] = @ \/ Meets(c)]
    /\ UNCHANGED switchOnDisk

ExitPosition ==
    /\ desk.stage = "ready" /\ desk.cmd.kind = "exit"
    /\ SendExit(desk.cmd.contract, desk.cmd.units)

CloseAll ==
    /\ desk.stage = "ready" /\ desk.cmd.kind = "close_all"
    /\ \E c \in DeskContracts : SendExit(c, Unsized)

\* The exchange fills what was left working ...
WorkingFills(c) ==
    /\ working[c] # 0
    /\ held' = [held EXCEPT ![c] = @ + Sgn(working[c])]
    /\ working' = [working EXCEPT ![c] = @ - Sgn(working[c])]
    /\ Size(held'[c]) <= MaxDeskUnits
    /\ UNCHANGED <<switchOnDisk, desk, crossed>>

\* ... or `trade cancel` finds it open and cancels it, or `trade modify` makes it smaller.
CancelWorking(c) ==
    /\ desk = Idle /\ working[c] # 0
    /\ \E n \in 0..(Size(working[c]) - 1) :
         working' = [working EXCEPT ![c] = Sgn(@) * n]
    /\ UNCHANGED <<switchOnDisk, desk, held, crossed>>

DeskNext ==
    \/ Switch \/ Decline \/ Preview \/ Assess \/ SendEntry \/ ExitPosition \/ CloseAll
    \/ \E command \in Requests : StartCommand(command)
    \/ \E c \in DeskContracts : WorkingFills(c) \/ CancelWorking(c)

DeskSpec == DeskInit /\ [][DeskNext]_deskVars

-----------------------------------------------------------------------------
DeskTypeOK ==
    /\ switchOnDisk \in BOOLEAN
    /\ held \in [DeskContracts -> -MaxDeskUnits..MaxDeskUnits]
    /\ working \in [DeskContracts -> -MaxDeskUnits..MaxDeskUnits]
    /\ crossed \in [DeskContracts -> BOOLEAN]
    /\ desk # Idle =>
         desk \in [stage : {"ready", "send"}, cmd : Requests,
                   blocked : BOOLEAN, book : [DeskContracts -> -MaxDeskUnits..MaxDeskUnits],
                   beside : SUBSET DeskContracts, units : 0..MaxDeskUnits]

\* Manual exits only ever reduce what is held, also those that fill long after the
\* command that sent them, unless another order of the contract was sent while an
\* exit was working: exits are not cancelled when their wait is over, a second
\* command does not see them, and only then a position is closed twice.
ManualExitsReduce ==
    [][\A c \in DeskContracts :
          (~crossed'[c] /\ desk.stage # "send") => Shrinks(held[c], held'[c])]_deskVars

=============================================================================
