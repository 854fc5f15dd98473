-------------------------- MODULE Lifecycle_proofs --------------------------
(***************************************************************************)
(* What surrounds the trading loop, one part after the other: the trade        *)
(* commands, the broker session, strategy health, the event calendar, the  *)
(* model registry, market data, the replay and the folds.  Each part has an *)
(* inductive invariant of its own, and since the parts share no state the  *)
(* invariant of the whole is that of its parts.                            *)
(***************************************************************************)
EXTENDS MCLifecycle, Collections_proofs

-----------------------------------------------------------------------------
(* The trade commands *)

\* Exits working for w units fit into a position of h units: they are on the other side,
\* and not larger.
Fits(h, w) == (h >= 0 /\ -h <= w /\ w <= 0) \/ (h <= 0 /\ 0 <= w /\ w <= -h)

\* What a command may act on: nothing, or what is held, with no exit working.
Current(known, h, w) == known = 0 \/ (known = h /\ w = 0)

DeskStates ==
    {Idle} \union
    [stage : {"ready", "send"}, cmd : Requests, blocked : BOOLEAN,
     book : [DeskContracts -> Int], beside : SUBSET DeskContracts, units : Nat]

DeskTypes ==
    /\ switchOnDisk \in BOOLEAN
    /\ held \in [DeskContracts -> Int] /\ working \in [DeskContracts -> Int]
    /\ crossed \in [DeskContracts -> BOOLEAN]
    /\ desk \in DeskStates /\ (desk.stage = "send" => desk.cmd \in Entries)

\* Of one contract that was not crossed.
Orderly(c) ==
    /\ Fits(held[c], working[c])
    /\ (desk # Idle /\ c \notin desk.beside) => Current(desk.book[c], held[c], working[c])

\* The inductive invariant.
DeskInv == DeskTypes /\ \A c \in DeskContracts : ~crossed[c] => Orderly(c)

-----------------------------------------------------------------------------
(* Arithmetic of one contract. *)

\* When a position only shrinks.
LEMMA ShrinksCases ==
    ASSUME NEW old \in Int, NEW new \in Int,
           (old > 0 /\ 0 <= new /\ new <= old) \/ (old < 0 /\ old <= new /\ new <= 0) \/ new = old
    PROVE  Shrinks(old, new)
<1>1. CASE old > 0
  <2>1. Sgn(old) = 1  BY <1>1 DEF Sgn
  <2>. QED  BY <1>1, <2>1 DEF Shrinks, Size
<1>2. CASE old < 0
  <2>1. Sgn(old) = -1  BY <1>2 DEF Sgn
  <2>. QED  BY <1>2, <2>1 DEF Shrinks, Size
<1>3. CASE old = 0
  <2>1. new = 0 /\ Sgn(old) = 0  BY <1>3 DEF Sgn
  <2>. QED  BY <1>3, <2>1 DEF Shrinks, Size
<1>. QED  BY <1>1, <1>2, <1>3

\* The side of an exit.
LEMMA AwaySign ==
    ASSUME NEW h \in Int
    PROVE  (h > 0 => -Sgn(h) = -1) /\ (h < 0 => -Sgn(h) = 1)
<1>1. ASSUME h > 0 PROVE -Sgn(h) = -1
  <2>1. Sgn(h) = 1  BY <1>1 DEF Sgn
  <2>. QED  BY <2>1
<1>2. ASSUME h < 0 PROVE -Sgn(h) = 1
  <2>1. Sgn(h) = -1  BY <1>2 DEF Sgn
  <2>2. \A x \in Int : -x = 0 - x  OBVIOUS
  <2>3. 0 - Sgn(h) = 1  BY <2>1
  <2>4. Sgn(h) \in Int  BY <2>1
  <2>. QED  BY <2>2, <2>3, <2>4
<1>. QED  BY <1>1, <1>2

\* An exit of at most the position that fills for n of its units, the rest left working.
LEMMA ExitArithmetic ==
    ASSUME NEW h \in Int, NEW units \in Nat, units > 0, units <= Size(h), NEW n \in 0..units,
           NEW away, away = -Sgn(h)
    PROVE  /\ away * n \in Int /\ away * (units - n) \in Int
           /\ Fits(h + away * n, away * (units - n))
           /\ Shrinks(h, h + away * n)
<1>1. h # 0  BY DEF Size
<1>2. CASE h > 0
  <2>1. away = -1  BY <1>2, AwaySign
  <2>2. away * n = -n /\ away * (units - n) = n - units  BY <2>1
  <2>3. units <= h  BY <1>2 DEF Size
  <2>. QED  BY <1>2, <2>2, <2>3, ShrinksCases DEF Fits
<1>3. CASE h < 0
  <2>1. away = 1  BY <1>3, AwaySign
  <2>2. away * n = n /\ away * (units - n) = units - n  BY <2>1
  <2>3. units <= -h  BY <1>3 DEF Size
  <2>. QED  BY <1>3, <2>2, <2>3, ShrinksCases DEF Fits
<1>. QED  BY <1>1, <1>2, <1>3

\* One unit of a working exit fills.
LEMMA FillArithmetic ==
    ASSUME NEW h \in Int, NEW w \in Int, w # 0, Fits(h, w)
    PROVE  Fits(h + Sgn(w), w - Sgn(w)) /\ Shrinks(h, h + Sgn(w))
<1>1. CASE w > 0
  <2>1. Sgn(w) = 1  BY <1>1 DEF Sgn
  <2>. QED  BY <1>1, <2>1, ShrinksCases DEF Fits
<1>2. CASE w < 0
  <2>1. Sgn(w) = -1  BY <1>2 DEF Sgn
  <2>. QED  BY <1>2, <2>1, ShrinksCases DEF Fits
<1>. QED  BY <1>1, <1>2

\* A working exit is cancelled, or made smaller.
LEMMA CancelArithmetic ==
    ASSUME NEW h \in Int, NEW w \in Int, w # 0, Fits(h, w), NEW n \in 0..(Size(w) - 1)
    PROVE  Sgn(w) * n \in Int /\ Fits(h, Sgn(w) * n)
<1>1. CASE w > 0
  <2>1. Sgn(w) * n = n  BY <1>1 DEF Sgn
  <2>. QED  BY <1>1, <2>1 DEF Fits, Size
<1>2. CASE w < 0
  <2>1. Sgn(w) = -1  BY <1>2 DEF Sgn
  <2>2. Sgn(w) * n = -n  BY <2>1
  <2>. QED  BY <1>2, <2>2 DEF Fits, Size
<1>. QED  BY <1>1, <1>2

\* exit_position never asks for more than the adopted position.
LEMMA ExitUnitsBound ==
    ASSUME DeskInv, desk # Idle, NEW c \in DeskContracts, NEW asked \in Nat
    PROVE  ExitUnits(c, asked) \in Nat /\ ExitUnits(c, asked) <= Size(desk.book[c])
<1>1. desk.book[c] \in Int  BY DEF DeskInv, DeskTypes, DeskStates
<1>. QED  BY <1>1 DEF ExitUnits, Size, Unsized

-----------------------------------------------------------------------------
(* The actions. *)

\* Nothing is held and nothing works at the start.
LEMMA DeskInvInit == DeskInit => DeskInv
<1>. SUFFICES ASSUME DeskInit PROVE DeskInv
  OBVIOUS
<1>1. desk \in DeskStates /\ desk.stage = "idle"  BY DEF DeskInit, DeskStates, Idle
<1>2. /\ held \in [DeskContracts -> Int] /\ working \in [DeskContracts -> Int]
      /\ crossed \in [DeskContracts -> BOOLEAN]
  BY DEF DeskInit
<1>3. switchOnDisk \in BOOLEAN  BY DEF DeskInit
<1>4. desk.stage # "send"  BY <1>1
<1>5. DeskTypes  BY <1>1, <1>2, <1>3, <1>4 DEF DeskTypes
<1>. QED  BY <1>5 DEF DeskInit, DeskInv, Orderly, Fits

\* An entry goes to a contract without exits that work, or crosses them.
LEMMA EntryStep == ASSUME DeskInv, SendEntry PROVE DeskInv'
<1>. USE DEF DeskInv
<1>. DEFINE c == desk.cmd.contract
<1>1. /\ c \in DeskContracts /\ desk.cmd.side \in {1, -1}
      /\ desk.units \in Nat
  BY DEF DeskTypes, DeskStates, Entries, SendEntry, Idle
<1>2. PICK n \in 0..desk.units : held' = [held EXCEPT ![c] = @ + desk.cmd.side * n]
  BY DEF SendEntry
<1>3. /\ crossed' = [crossed EXCEPT ![c] = @ \/ Meets(c)] /\ desk' = Idle /\ working' = working
      /\ switchOnDisk' = switchOnDisk
  BY DEF SendEntry
<1>4. held' \in [DeskContracts -> Int]
  <2>1. n \in Nat  BY <1>1
  <2>2. desk.cmd.side * n \in Int  BY <1>1, <2>1
  <2>3. held[c] + desk.cmd.side * n \in Int  BY <1>1, <2>2 DEF DeskTypes
  <2>. QED  BY <1>2, <2>3 DEF DeskTypes
<1>5. crossed' \in [DeskContracts -> BOOLEAN]
  BY <1>1, <1>3 DEF DeskTypes, Meets
<1>6. DeskTypes'  BY <1>3, <1>4, <1>5 DEF DeskTypes, DeskStates, Idle
<1>7. ASSUME NEW d \in DeskContracts, ~crossed'[d] PROVE Orderly(d)'
  <2>1. ~crossed[d] /\ (d = c => working[c] = 0)
    BY <1>1, <1>3, <1>7 DEF DeskTypes, Meets
  <2>2. CASE d = c
    <3>1. held'[d] \in Int  BY <1>4
    <3>. QED  BY <1>3, <2>1, <2>2, <3>1 DEF Orderly, Fits
  <2>3. CASE d # c
    <3>1. held'[d] = held[d]  BY <1>2, <2>3 DEF DeskTypes
    <3>. QED  BY <1>3, <2>1, <3>1 DEF Orderly
  <2>. QED  BY <2>2, <2>3
<1>. QED  BY <1>6, <1>7

\* Besides the invariant, that the exit reduces what is held.
LEMMA ExitStep ==
    ASSUME DeskInv, desk # Idle, NEW c \in DeskContracts, NEW asked \in Nat, SendExit(c, asked)
    PROVE  /\ DeskInv'
           /\ \A d \in DeskContracts : ~crossed'[d] => Shrinks(held[d], held'[d])
<1>. USE DEF DeskInv
<1>. DEFINE units == ExitUnits(c, asked)
            away  == -Sgn(desk.book[c])
<1>1. units \in Nat /\ units > 0 /\ units <= Size(desk.book[c])
  BY ExitUnitsBound DEF SendExit
<1>2. PICK n \in 0..units :
        /\ held' = [held EXCEPT ![c] = @ + away * n]
        /\ working' = [working EXCEPT ![c] = @ + away * (units - n)]
        /\ desk' = IF n = 0 /\ desk.cmd.kind = "close_all"
                     THEN [desk EXCEPT !.book[c] = 0] ELSE Idle
  BY DEF SendExit
<1>3. crossed' = [crossed EXCEPT ![c] = @ \/ Meets(c)] /\ switchOnDisk' = switchOnDisk
  BY DEF SendExit
<1>4. desk.book[c] \in Int /\ held[c] \in Int /\ working[c] \in Int
  BY DEF DeskTypes, DeskStates
<1>5. away * n \in Int /\ away * (units - n) \in Int
  BY <1>1, <1>4, ExitArithmetic
<1>6. DeskTypes'
  <2>1. held' \in [DeskContracts -> Int]
    <3>1. held[c] + away * n \in Int  BY <1>4, <1>5
    <3>. QED  BY <1>2, <3>1 DEF DeskTypes
  <2>2. working' \in [DeskContracts -> Int]
    <3>1. working[c] + away * (units - n) \in Int  BY <1>4, <1>5
    <3>. QED  BY <1>2, <3>1 DEF DeskTypes
  <2>3. crossed' \in [DeskContracts -> BOOLEAN]  BY <1>3 DEF DeskTypes, Meets
  <2>4. desk' \in DeskStates /\ (desk'.stage = "send" => desk'.cmd \in Entries)
    BY <1>2 DEF DeskTypes, DeskStates, Idle
  <2>. QED  BY <1>3, <2>1, <2>2, <2>3, <2>4 DEF DeskTypes
<1>7. ASSUME NEW d \in DeskContracts, ~crossed'[d]
      PROVE  Orderly(d)' /\ Shrinks(held[d], held'[d])
  <2>1. ~crossed[d] /\ (d = c => ~Meets(c))
    BY <1>3, <1>7 DEF DeskTypes, Meets
  <2>2. CASE d = c
    <3>1. working[c] = 0 /\ c \notin desk.beside  BY <2>1, <2>2 DEF Meets
    <3>2. desk.book[c] # 0  BY <1>1, <1>4 DEF Size
    <3>3. desk.book[c] = held[c]  BY <2>1, <2>2, <3>1, <3>2 DEF Orderly, Current
    <3>4. held'[c] = held[c] + away * n /\ working'[c] = away * (units - n)
      <4>1. working[c] + away * (units - n) = away * (units - n)  BY <1>5, <3>1
      <4>. QED  BY <1>2, <4>1 DEF DeskTypes
    <3>5. Fits(held'[c], working'[c]) /\ Shrinks(held[c], held'[c])
      BY <1>1, <1>4, <3>3, <3>4, ExitArithmetic
    <3>6. desk' # Idle => desk'.book[c] = 0
      BY <1>2 DEF DeskTypes, DeskStates, Idle
    <3>. QED  BY <2>2, <3>5, <3>6 DEF Orderly, Current
  <2>3. CASE d # c
    <3>1. held'[d] = held[d] /\ working'[d] = working[d]  BY <1>2, <2>3 DEF DeskTypes
    <3>2. desk' # Idle => desk'.book[d] = desk.book[d] /\ desk'.beside = desk.beside
      BY <1>2, <2>3 DEF DeskTypes, DeskStates, Idle
    <3>3. held[d] \in Int  BY DEF DeskTypes
    <3>. QED  BY <2>1, <3>1, <3>2, <3>3, ShrinksCases DEF Orderly
  <2>. QED  BY <2>2, <2>3
<1>. QED  BY <1>6, <1>7

\* A fill of an exit that still fits only shrinks the position.
LEMMA FillStep ==
    ASSUME DeskInv, NEW c \in DeskContracts, WorkingFills(c)
    PROVE  /\ DeskInv'
           /\ \A d \in DeskContracts : ~crossed'[d] => Shrinks(held[d], held'[d])
<1>. USE DEF DeskInv
<1>1. /\ working[c] # 0 /\ desk' = desk /\ crossed' = crossed /\ switchOnDisk' = switchOnDisk
      /\ held' = [held EXCEPT ![c] = @ + Sgn(working[c])]
      /\ working' = [working EXCEPT ![c] = @ - Sgn(working[c])]
  BY DEF WorkingFills
<1>2. held[c] \in Int /\ working[c] \in Int /\ Sgn(working[c]) \in Int
  BY DEF DeskTypes, Sgn
<1>3. DeskTypes'
  <2>1. held' \in [DeskContracts -> Int]
    <3>1. held[c] + Sgn(working[c]) \in Int  BY <1>2
    <3>. QED  BY <1>1, <3>1 DEF DeskTypes
  <2>2. working' \in [DeskContracts -> Int]
    <3>1. working[c] - Sgn(working[c]) \in Int  BY <1>2
    <3>. QED  BY <1>1, <3>1 DEF DeskTypes
  <2>. QED  BY <1>1, <2>1, <2>2 DEF DeskTypes
<1>4. ASSUME NEW d \in DeskContracts, ~crossed'[d]
      PROVE  Orderly(d)' /\ Shrinks(held[d], held'[d])
  <2>1. ~crossed[d] /\ Orderly(d)  BY <1>1, <1>4
  <2>2. CASE d = c
    <3>1. held'[c] = held[c] + Sgn(working[c]) /\ working'[c] = working[c] - Sgn(working[c])
      BY <1>1 DEF DeskTypes
    <3>2. Fits(held'[c], working'[c]) /\ Shrinks(held[c], held'[c])
      BY <1>1, <1>2, <2>1, <2>2, <3>1, FillArithmetic DEF Orderly
    <3>3. (desk # Idle /\ c \notin desk.beside) => desk.book[c] = 0
      BY <1>1, <2>1, <2>2 DEF Orderly, Current
    <3>. QED  BY <1>1, <2>2, <3>2, <3>3 DEF Orderly, Current
  <2>3. CASE d # c
    <3>1. held'[d] = held[d] /\ working'[d] = working[d]  BY <1>1, <2>3 DEF DeskTypes
    <3>2. held[d] \in Int  BY DEF DeskTypes
    <3>. QED  BY <1>1, <2>1, <3>1, <3>2, ShrinksCases DEF Orderly
  <2>. QED  BY <2>2, <2>3
<1>. QED  BY <1>3, <1>4

\* An exit that is cancelled leaves the others fitting.
LEMMA CancelStep ==
    ASSUME DeskInv, NEW c \in DeskContracts, CancelWorking(c) PROVE DeskInv'
<1>. USE DEF DeskInv
<1>1. PICK n \in 0..(Size(working[c]) - 1) : working' = [working EXCEPT ![c] = Sgn(@) * n]
  BY DEF CancelWorking
<1>2. /\ working[c] # 0 /\ desk = Idle /\ desk' = desk /\ crossed' = crossed /\ held' = held
      /\ switchOnDisk' = switchOnDisk /\ held[c] \in Int /\ working[c] \in Int
  BY DEF CancelWorking, DeskTypes
<1>3. Sgn(working[c]) * n \in Int
  <2>1. Sgn(working[c]) \in Int /\ Size(working[c]) \in Int  BY <1>2 DEF Sgn, Size
  <2>2. n \in Int  BY <2>1
  <2>. QED  BY <2>1, <2>2
<1>4. DeskTypes'  BY <1>1, <1>2, <1>3 DEF DeskTypes
<1>5. ASSUME NEW d \in DeskContracts, ~crossed'[d] PROVE Orderly(d)'
  <2>1. Orderly(d)  BY <1>2, <1>5
  <2>2. CASE d = c
    <3>1. working'[c] = Sgn(working[c]) * n  BY <1>1 DEF DeskTypes
    <3>2. Fits(held[c], working'[c])
      BY <1>2, <2>1, <2>2, <3>1, CancelArithmetic DEF Orderly
    <3>. QED  BY <1>2, <2>2, <3>2 DEF Orderly
  <2>3. CASE d # c
    <3>1. working'[d] = working[d]  BY <1>1, <2>3 DEF DeskTypes
    <3>. QED  BY <1>2, <2>1, <3>1 DEF Orderly
  <2>. QED  BY <2>2, <2>3
<1>. QED  BY <1>4, <1>5

\* A command that starts has yet to ask.
LEMMA StartStep ==
    ASSUME DeskInv, NEW command \in Requests, StartCommand(command) PROVE DeskInv'
<1>. USE DEF DeskInv
<1>1. /\ desk' = [stage |-> "ready", cmd |-> command, blocked |-> switchOnDisk,
                  book |-> held, beside |-> {c \in DeskContracts : working[c] # 0},
                  units |-> 0]
      /\ UNCHANGED <<held, working, crossed>>
  BY DEF StartCommand
<1>2. ASSUME NEW c \in DeskContracts, ~crossed'[c] PROVE Orderly(c)'
  BY <1>1, <1>2 DEF Orderly, Current
<1>3. desk'.stage = "ready" /\ desk'.cmd = command /\ desk'.book = held
  BY <1>1
<1>4. switchOnDisk' = switchOnDisk  BY DEF StartCommand
<1>5. desk' \in DeskStates
  <2>1. held \in [DeskContracts -> Int] /\ switchOnDisk \in BOOLEAN  BY DEF DeskTypes
  <2>. QED  BY <1>1, <2>1 DEF DeskStates
<1>. QED  BY <1>1, <1>2, <1>3, <1>4, <1>5 DEF DeskTypes

\* Of the actions that trade nothing.
LEMMA QuietStep ==
    ASSUME DeskInv,
           \/ UNCHANGED deskVars \/ Switch \/ Decline \/ Preview \/ Assess
    PROVE  DeskInv' /\ held' = held
<1>. USE DEF DeskInv
<1>1. held' = held /\ working' = working /\ crossed' = crossed
  BY DEF deskVars, Switch, Decline, Preview, Assess
<1>2. switchOnDisk' \in BOOLEAN
  BY DEF deskVars, Switch, Decline, Preview, Assess, DeskTypes
<1>3. CASE desk' = desk
  BY <1>1, <1>2, <1>3 DEF DeskTypes, Orderly
<1>4. CASE desk' = Idle
  BY <1>1, <1>2, <1>4 DEF DeskTypes, DeskStates, Orderly, Idle
<1>5. CASE desk' # desk /\ desk' # Idle
  <2>1. Assess  BY <1>5 DEF deskVars, Switch, Decline, Preview
  <2>2. PICK approved \in 0..MaxDeskUnits :
          desk' = [desk EXCEPT !.stage = "send",
                               !.units = EntryUnits(desk.cmd, desk.blocked, approved)]
    BY <1>5, <2>1 DEF Assess
  <2>3. desk # Idle /\ desk.cmd \in Entries
    <3>1. desk.stage = "ready" /\ desk.cmd.kind = "entry"  BY <2>1 DEF Assess
    <3>0. desk # Idle  BY <3>1 DEF Idle
    <3>2. desk.cmd \in Requests  BY <3>0 DEF DeskTypes, DeskStates
    <3>. QED  BY <3>0, <3>1, <3>2 DEF Requests, Exits, CloseAlls, Previews
  <2>4. EntryUnits(desk.cmd, desk.blocked, approved) \in Nat
    BY <2>3, DeskAssumption DEF EntryUnits, Entries, Unsized
  <2>5. /\ desk' \in DeskStates /\ desk'.cmd = desk.cmd
        /\ desk'.book = desk.book /\ desk'.beside = desk.beside
    <3>. DEFINE n == EntryUnits(desk.cmd, desk.blocked, approved)
    <3>1. n \in Nat  BY <2>4
    <3>2. PICK sent : sent = n  OBVIOUS
    <3>3. desk' = [desk EXCEPT !.stage = "send", !.units = sent]  BY <2>2, <3>2
    <3>4. sent \in Nat  BY <3>1, <3>2
    <3>5. desk \in DeskStates \ {Idle}  BY <2>3 DEF DeskTypes
    <3>. QED  BY <3>3, <3>4, <3>5 DEF DeskStates
  <2>. QED  BY <1>1, <1>2, <2>3, <2>5 DEF DeskTypes, Orderly
<1>. QED  BY <1>1, <1>3, <1>4, <1>5

\* Every step keeps the invariant, and all but a sent entry reduce what is held.
LEMMA DeskStep ==
    ASSUME DeskInv, [DeskNext]_deskVars
    PROVE  /\ DeskInv'
           /\ desk.stage # "send" =>
                \A c \in DeskContracts : ~crossed'[c] => Shrinks(held[c], held'[c])
<1>. DEFINE Reduces == \A c \in DeskContracts : ~crossed'[c] => Shrinks(held[c], held'[c])
<1>1. ASSUME held' = held PROVE Reduces
  <2>. SUFFICES ASSUME NEW c \in DeskContracts PROVE Shrinks(held[c], held'[c])
    OBVIOUS
  <2>1. held[c] \in Int  BY DEF DeskInv, DeskTypes
  <2>. QED  BY <1>1, <2>1, ShrinksCases
<1>2. CASE UNCHANGED deskVars \/ Switch \/ Decline \/ Preview \/ Assess
  BY <1>1, <1>2, QuietStep
<1>3. CASE SendEntry
  BY <1>3, EntryStep DEF SendEntry
<1>4. CASE ExitPosition
  <2>1. desk # Idle /\ desk.cmd \in Exits
    BY <1>4 DEF ExitPosition, Idle, DeskInv, DeskTypes, DeskStates, Requests, Entries,
                CloseAlls, Previews
  <2>2. desk.cmd.contract \in DeskContracts /\ desk.cmd.units \in Nat
    BY <2>1, DeskAssumption DEF Exits, Unsized
  <2>. QED  BY <1>4, <2>1, <2>2, ExitStep DEF ExitPosition
<1>5. CASE CloseAll
  <2>1. desk # Idle  BY <1>5 DEF CloseAll, Idle
  <2>2. Unsized \in Nat  BY DEF Unsized
  <2>. QED  BY <1>5, <2>1, <2>2, ExitStep DEF CloseAll
<1>6. ASSUME NEW command \in Requests, StartCommand(command) PROVE DeskInv' /\ Reduces
  <2>1. held' = held  BY <1>6 DEF StartCommand
  <2>. QED  BY <1>1, <1>6, <2>1, StartStep
<1>7. ASSUME NEW c \in DeskContracts, WorkingFills(c) PROVE DeskInv' /\ Reduces
  BY <1>7, FillStep
<1>8. ASSUME NEW c \in DeskContracts, CancelWorking(c) PROVE DeskInv' /\ Reduces
  <2>1. held' = held  BY <1>8 DEF CancelWorking
  <2>. QED  BY <1>1, <1>8, <2>1, CancelStep
<1>. QED  BY <1>2, <1>3, <1>4, <1>5, <1>6, <1>7, <1>8 DEF DeskNext

\* Exits left working always fit into the position they were sent for, and a command knows
\* what it may close, of every contract that was not crossed.
THEOREM DeskInvariant == DeskSpec => []DeskInv
<1>1. DeskInv /\ [DeskNext]_deskVars => DeskInv'
  BY DeskStep
<1>. QED  BY <1>1, DeskInvInit, PTL DEF DeskSpec

\* Manual exits only ever reduce what is held, for every number of contracts and units,
\* unless another order of the contract was sent while an exit was working.
THEOREM ManualExitsOnlyReduce == DeskSpec => ManualExitsReduce
<1>1. DeskInv /\ [DeskNext]_deskVars =>
        [\A c \in DeskContracts :
            (~crossed'[c] /\ desk.stage # "send") => Shrinks(held[c], held'[c])]_deskVars
  BY DeskStep
<1>. QED  BY <1>1, DeskInvariant, PTL DEF DeskSpec, ManualExitsReduce

\* What a contract may hold, or have working.
DeskUnits == -MaxDeskUnits..MaxDeskUnits

\* A number of a size within the bound is within the bounds.
LEMMA SizedIsUnits ==
    ASSUME NEW n \in Int, Size(n) <= MaxDeskUnits
    PROVE  n \in DeskUnits
BY DeskAssumption DEF Size, DeskUnits

\* A working exit that fills, or is made smaller, stays within them.
LEMMA TowardsZero ==
    ASSUME NEW w \in DeskUnits, w # 0
    PROVE  /\ w - Sgn(w) \in DeskUnits
           /\ \A n \in 0..(Size(w) - 1) : Sgn(w) * n \in DeskUnits
<1>1. PICK M \in Nat \ {0} : M = MaxDeskUnits  BY DeskAssumption
<1>2. CASE w > 0
  <2>1. Sgn(w) = 1 /\ Size(w) = w  BY <1>2 DEF Sgn, Size, DeskUnits
  <2>. QED  BY <1>1, <1>2, <2>1 DEF DeskUnits
<1>3. CASE w < 0
  <2>1. Sgn(w) = -1 /\ Size(w) = -w  BY <1>3 DEF Sgn, Size, DeskUnits
  <2>2. ASSUME NEW n \in 0..(-w - 1) PROVE Sgn(w) * n \in DeskUnits
    <3>1. Sgn(w) * n = -n  BY <1>1, <2>1 DEF DeskUnits
    <3>. QED  BY <1>1, <3>1 DEF DeskUnits
  <2>. QED  BY <1>1, <1>3, <2>1, <2>2 DEF DeskUnits
<1>. QED  BY <1>1, <1>2, <1>3 DEF DeskUnits

DeskRecords ==
    [stage : {"ready", "send"}, cmd : Requests, blocked : BOOLEAN,
     book : [DeskContracts -> DeskUnits], beside : SUBSET DeskContracts, units : 0..MaxDeskUnits]

\* The bounds of what is held survive every command.
LEMMA DeskTypeStep ==
    ASSUME DeskInv, DeskTypeOK, [DeskNext]_deskVars
    PROVE  DeskTypeOK'
<1>0. MaxDeskUnits \in Nat \ {0}  BY DeskAssumption
<1>1. /\ switchOnDisk \in BOOLEAN /\ held \in [DeskContracts -> DeskUnits]
      /\ working \in [DeskContracts -> DeskUnits] /\ crossed \in [DeskContracts -> BOOLEAN]
      /\ desk # Idle => desk \in DeskRecords
  BY DEF DeskTypeOK, DeskUnits, DeskRecords
<1>2. ASSUME switchOnDisk' \in BOOLEAN, held' \in [DeskContracts -> DeskUnits],
             working' \in [DeskContracts -> DeskUnits], crossed' \in [DeskContracts -> BOOLEAN],
             desk' # Idle => desk' \in DeskRecords
      PROVE  DeskTypeOK'
  BY <1>2 DEF DeskTypeOK, DeskUnits, DeskRecords
<1>3. CASE UNCHANGED deskVars  BY <1>1, <1>2, <1>3 DEF deskVars
<1>4. CASE Switch \/ Decline \/ Preview
  BY <1>1, <1>2, <1>4 DEF Switch, Decline, Preview
<1>5. CASE Assess
  <2>1. desk \in DeskRecords /\ desk.cmd \in Entries
    <3>1. desk.stage = "ready" /\ desk.cmd.kind = "entry"  BY <1>5 DEF Assess
    <3>2. desk # Idle  BY <3>1 DEF Idle
    <3>3. desk.cmd \in Requests  BY <1>1, <3>2 DEF DeskRecords
    <3>. QED  BY <1>1, <3>1, <3>2, <3>3 DEF Requests, Exits, CloseAlls, Previews
  <2>2. PICK approved \in 0..MaxDeskUnits :
          desk' = IF EntryUnits(desk.cmd, desk.blocked, approved) = 0 THEN Idle
                  ELSE [desk EXCEPT !.stage = "send",
                               !.units = EntryUnits(desk.cmd, desk.blocked, approved)]
    BY <1>5 DEF Assess
  <2>3. EntryUnits(desk.cmd, desk.blocked, approved) \in 0..MaxDeskUnits
    BY <1>0, <2>1 DEF EntryUnits, Entries, Unsized
  <2>4. PICK n \in 0..MaxDeskUnits : n = EntryUnits(desk.cmd, desk.blocked, approved)
    BY <2>3
  <2>5. desk' = Idle \/ desk' = [desk EXCEPT !.stage = "send", !.units = n]  BY <2>2, <2>4
  <2>6. desk' # Idle => desk' \in DeskRecords
    <3>1. [desk EXCEPT !.stage = "send"] \in DeskRecords  BY <2>1 DEF DeskRecords
    <3>2. \A d \in DeskRecords : [d EXCEPT !.units = n] \in DeskRecords  BY DEF DeskRecords
    <3>3. [desk EXCEPT !.stage = "send", !.units = n]
            = [[desk EXCEPT !.stage = "send"] EXCEPT !.units = n]
      OBVIOUS
    <3>. QED  BY <2>5, <3>1, <3>2, <3>3
  <2>. QED  BY <1>1, <1>2, <1>5, <2>6 DEF Assess
<1>6. CASE SendEntry
  <2>1. desk \in DeskRecords /\ desk.cmd \in Entries
    <3>1. desk.stage = "send"  BY <1>6 DEF SendEntry
    <3>2. desk # Idle  BY <3>1 DEF Idle
    <3>. QED  BY <1>1, <3>1, <3>2 DEF DeskInv, DeskTypes
  <2>. DEFINE c == desk.cmd.contract
  <2>2. PICK n \in 0..desk.units : Size(held[c] + desk.cmd.side * n) <= MaxDeskUnits
                                   /\ held' = [held EXCEPT ![c] = @ + desk.cmd.side * n]
    BY <1>6 DEF SendEntry
  <2>3. c \in DeskContracts /\ desk.cmd.side \in {1, -1} /\ desk.units \in Nat
    BY <2>1 DEF Entries, DeskRecords
  <2>4. held[c] + desk.cmd.side * n \in DeskUnits
    <3>1. held[c] \in Int  BY <1>0, <1>1, <2>3 DEF DeskUnits
    <3>2. desk.cmd.side * n \in Int  BY <2>3
    <3>3. held[c] + desk.cmd.side * n \in Int  BY <3>1, <3>2
    <3>. QED  BY <2>2, <3>3, SizedIsUnits
  <2>5. held' \in [DeskContracts -> DeskUnits]  BY <1>1, <2>2, <2>4
  <2>6. crossed' \in [DeskContracts -> BOOLEAN] /\ desk' = Idle
        /\ UNCHANGED <<switchOnDisk, working>>
    BY <1>1, <1>6 DEF SendEntry, Meets
  <2>. QED  BY <1>1, <1>2, <2>5, <2>6
<1>7. ASSUME NEW c \in DeskContracts, NEW asked \in Nat, SendExit(c, asked), desk \in DeskRecords
      PROVE  DeskTypeOK'
  <2>1. ExitUnits(c, asked) \in Nat
    <3>1. desk.book[c] \in Int  BY <1>0, <1>7 DEF DeskRecords, DeskUnits
    <3>. QED  BY <1>7, <3>1 DEF ExitUnits, Size, Unsized
  <2>2. PICK u \in Nat, a \in Int : u = ExitUnits(c, asked) /\ a = -Sgn(desk.book[c])
    BY <2>1 DEF Sgn
  <2>3. PICK n \in 0..u :
             /\ held' = [held EXCEPT ![c] = @ + a * n]
             /\ working' = [working EXCEPT ![c] = @ + a * (u - n)]
             /\ Size(held'[c]) <= MaxDeskUnits /\ Size(working'[c]) <= MaxDeskUnits
             /\ desk' = IF n = 0 /\ desk.cmd.kind = "close_all"
                          THEN [desk EXCEPT !.book[c] = 0] ELSE Idle
    BY <1>7, <2>2 DEF SendExit
  <2>4. PICK h \in Int, w \in Int, x \in Int, y \in Int :
             h = held[c] /\ w = working[c] /\ x = a * n /\ y = a * (u - n)
    BY <1>0, <1>1 DEF DeskUnits
  <2>5. held'[c] = h + x /\ working'[c] = w + y  BY <1>1, <2>3, <2>4
  <2>6. h + x \in DeskUnits /\ w + y \in DeskUnits  BY <2>3, <2>5, SizedIsUnits
  <2>7. held' \in [DeskContracts -> DeskUnits] /\ working' \in [DeskContracts -> DeskUnits]
    BY <1>1, <2>3, <2>4, <2>6
  <2>8. desk' # Idle => desk' \in DeskRecords
    <3>1. 0 \in DeskUnits  BY <1>0 DEF DeskUnits
    <3>2. [desk.book EXCEPT ![c] = 0] \in [DeskContracts -> DeskUnits]
      BY <1>7, <3>1 DEF DeskRecords
    <3>3. PICK empty \in [DeskContracts -> DeskUnits] : empty = [desk.book EXCEPT ![c] = 0]
      BY <3>2
    <3>4. [desk EXCEPT !.book[c] = 0] = [desk EXCEPT !.book = empty]  BY <3>3
    <3>5. [desk EXCEPT !.book = empty] \in DeskRecords  BY <1>7 DEF DeskRecords
    <3>. QED  BY <2>3, <3>4, <3>5
  <2>9. crossed' \in [DeskContracts -> BOOLEAN] /\ switchOnDisk' = switchOnDisk
    BY <1>1, <1>7 DEF SendExit, Meets
  <2>. QED  BY <1>1, <1>2, <2>7, <2>8, <2>9
<1>8. CASE ExitPosition
  <2>1. desk \in DeskRecords /\ desk.cmd \in Exits
    <3>1. desk.stage = "ready" /\ desk.cmd.kind = "exit"  BY <1>8 DEF ExitPosition
    <3>2. desk # Idle  BY <3>1 DEF Idle
    <3>3. desk.cmd \in Requests  BY <1>1, <3>2 DEF DeskRecords
    <3>. QED  BY <1>1, <3>1, <3>2, <3>3 DEF Requests, Entries, CloseAlls, Previews
  <2>2. desk.cmd.contract \in DeskContracts /\ desk.cmd.units \in Nat
    BY <1>0, <2>1 DEF Exits, Unsized
  <2>. QED  BY <1>7, <1>8, <2>1, <2>2 DEF ExitPosition
<1>9. CASE CloseAll
  <2>1. desk \in DeskRecords
    <3>1. desk # Idle  BY <1>9 DEF CloseAll, Idle
    <3>. QED  BY <1>1, <3>1
  <2>2. PICK c \in DeskContracts : SendExit(c, Unsized)  BY <1>9 DEF CloseAll
  <2>3. Unsized \in Nat  BY DEF Unsized
  <2>. QED  BY <1>7, <2>1, <2>2, <2>3
<1>10. ASSUME NEW command \in Requests, StartCommand(command) PROVE DeskTypeOK'
  <2>1. /\ desk' = [stage |-> "ready", cmd |-> command, blocked |-> switchOnDisk,
                    book |-> held, beside |-> {c \in DeskContracts : working[c] # 0}, units |-> 0]
        /\ UNCHANGED <<switchOnDisk, held, working, crossed>>
    BY <1>10 DEF StartCommand
  <2>2. desk' \in DeskRecords  BY <1>0, <1>1, <2>1 DEF DeskRecords
  <2>. QED  BY <1>1, <1>2, <2>1, <2>2
<1>11. ASSUME NEW c \in DeskContracts, WorkingFills(c) PROVE DeskTypeOK'
  <2>1. /\ working[c] # 0 /\ Size(held'[c]) <= MaxDeskUnits
        /\ held' = [held EXCEPT ![c] = @ + Sgn(working[c])]
        /\ working' = [working EXCEPT ![c] = @ - Sgn(working[c])]
        /\ UNCHANGED <<switchOnDisk, desk, crossed>>
    BY <1>11 DEF WorkingFills
  <2>2. working[c] - Sgn(working[c]) \in DeskUnits  BY <1>1, <2>1, TowardsZero
  <2>3. held[c] + Sgn(working[c]) \in DeskUnits
    <3>1. PICK h \in Int, s \in Int : h = held[c] /\ s = Sgn(working[c])
      BY <1>0, <1>1 DEF DeskUnits, Sgn
    <3>2. held'[c] = h + s  BY <1>1, <2>1, <3>1
    <3>. QED  BY <2>1, <3>1, <3>2, SizedIsUnits
  <2>4. held' \in [DeskContracts -> DeskUnits] /\ working' \in [DeskContracts -> DeskUnits]
    BY <1>1, <2>1, <2>2, <2>3
  <2>. QED  BY <1>1, <1>2, <2>1, <2>4
<1>12. ASSUME NEW c \in DeskContracts, CancelWorking(c) PROVE DeskTypeOK'
  <2>1. PICK n \in 0..(Size(working[c]) - 1) :
             working[c] # 0 /\ working' = [working EXCEPT ![c] = Sgn(@) * n]
    BY <1>12 DEF CancelWorking
  <2>2. Sgn(working[c]) * n \in DeskUnits  BY <1>1, <2>1, TowardsZero
  <2>3. working' \in [DeskContracts -> DeskUnits]  BY <1>1, <2>1, <2>2
  <2>. QED  BY <1>1, <1>2, <1>12, <2>3 DEF CancelWorking
<1>. QED  BY <1>3, <1>4, <1>5, <1>6, <1>8, <1>9, <1>10, <1>11, <1>12 DEF DeskNext

\* What a trade command knows, and what is held, keeps its type.
THEOREM DeskTypesKept == DeskSpec => []DeskTypeOK
<1>1. DeskInit => DeskTypeOK
  <2>1. 0 \in -MaxDeskUnits..MaxDeskUnits  BY DeskAssumption
  <2>. QED  BY <2>1 DEF DeskInit, DeskTypeOK
<1>2. DeskInv /\ DeskTypeOK /\ [DeskNext]_deskVars => DeskTypeOK'  BY DeskTypeStep
<1>. QED  BY <1>1, <1>2, DeskInvariant, PTL DEF DeskSpec

-----------------------------------------------------------------------------
(* The broker session *)

\* Days, of TokenLife slots each.
LEMMA DaysPass ==
    ASSUME NEW t \in Nat
    PROVE  /\ DayOf(t) \in Nat /\ NextExpiry(t) \in Nat
           /\ DayOf(t) * TokenLife <= t /\ t < NextExpiry(t)
<1>1. TokenLife \in Nat \ {0}  BY SessionAssumption
<1>2. PICK L \in Nat \ {0} : L = TokenLife  BY <1>1
<1>3. t \div L \in Nat /\ (t \div L) * L <= t /\ t < (t \div L + 1) * L  OBVIOUS
<1>4. (t \div L + 1) * L \in Nat  BY <1>3
<1>. QED  BY <1>2, <1>3, <1>4 DEF DayOf, NextExpiry

\* What begins no later than a time before the end of a day is of that day or an earlier one.
LEMMA DaysCompare ==
    ASSUME NEW a \in Nat, NEW b \in Nat, NEW t \in Nat,
           a * TokenLife <= t, t < (b + 1) * TokenLife
    PROVE  a <= b
<1>1. PICK L \in Nat \ {0} : L = TokenLife  BY SessionAssumption
<1>2. SUFFICES ASSUME a > b PROVE FALSE  OBVIOUS
<1>3. PICK k \in Nat : k = a - (b + 1)  BY <1>2
<1>4. a = b + 1 + k  BY <1>3
<1>5. a * L = (b + 1) * L + k * L  BY <1>4
<1>6. k * L >= 0 /\ a * L \in Int /\ (b + 1) * L \in Int /\ k * L \in Int  OBVIOUS
<1>. QED  BY <1>1, <1>5, <1>6

\* Days and expiries come in the order of their slots.
LEMMA DaysInOrder ==
    ASSUME NEW s \in Nat, NEW t \in Nat, s <= t
    PROVE  DayOf(s) <= DayOf(t) /\ NextExpiry(s) <= NextExpiry(t)
<1>1. /\ DayOf(s) \in Nat /\ DayOf(t) \in Nat /\ NextExpiry(t) \in Nat
      /\ DayOf(s) * TokenLife <= s /\ t < NextExpiry(t)
  BY DaysPass
<1>2. PICK L \in Nat \ {0}, a \in Nat, b \in Nat : L = TokenLife /\ a = DayOf(s) /\ b = DayOf(t)
  BY <1>1, SessionAssumption
<1>3. a * L \in Int /\ (b + 1) * L \in Int  OBVIOUS
<1>4. a * TokenLife <= t /\ t < (b + 1) * TokenLife
  BY <1>1, <1>2, <1>3 DEF NextExpiry
<1>5. a <= b  BY <1>4, DaysCompare
<1>6. PICK k \in Nat : k = b - a  BY <1>5
<1>7. b = a + k  BY <1>6
<1>8. (b + 1) * L = (a + 1) * L + k * L /\ k * L >= 0 /\ (a + 1) * L \in Int /\ k * L \in Int
  BY <1>7
<1>9. (a + 1) * L <= (b + 1) * L  BY <1>8
<1>. QED  BY <1>2, <1>5, <1>9 DEF NextExpiry

\* A slot before the end of the day is of the same day.
LEMMA SameDay ==
    ASSUME NEW s \in Nat, NEW t \in Nat, s <= t, t < NextExpiry(s)
    PROVE  DayOf(t) = DayOf(s)
<1>1. DayOf(s) <= DayOf(t) /\ DayOf(s) \in Nat /\ DayOf(t) \in Nat /\ DayOf(t) * TokenLife <= t
  BY DaysInOrder, DaysPass
<1>2. t < (DayOf(s) + 1) * TokenLife  BY DEF NextExpiry
<1>3. DayOf(t) <= DayOf(s)  BY <1>1, <1>2, DaysCompare
<1>. QED  BY <1>1, <1>3

-----------------------------------------------------------------------------
\* What is left of a sequence, and its last element.
LEMMA PartOfSequence ==
    ASSUME NEW S, NEW s \in Seq(S), NEW m \in 1..(Len(s) + 1)
    PROVE  SubSeq(s, m, Len(s)) \in Seq(S) /\ (s # <<>> => Last(s) \in S)
BY DEF Last

\* The events that are left are slots like the others, and no more of them.
LEMMA RecentType ==
    ASSUME SessionTypeOK
    PROVE  Recent \in Seq(0..LastSlot)
<1>1. sends \in Seq(0..LastSlot) /\ Len(sends) \in Nat /\ DOMAIN sends = 1..Len(sends)
  BY DEF SessionTypeOK
<1>2. IsFiniteSet(1..Len(sends)) /\ Cardinality(1..Len(sends)) = Len(sends)
  BY <1>1, FS_Interval
<1>3. Old \subseteq 1..Len(sends)  BY <1>1 DEF Old
<1>4. Cardinality(Old) \in Nat /\ Cardinality(Old) <= Len(sends)
  BY <1>2, <1>3, FS_Subset, FS_CardinalityType
<1>. DEFINE m == Cardinality(Old) + 1
<1>5. m \in 1..(Len(sends) + 1)  BY <1>1, <1>4
<1>. HIDE DEF m
<1>6. SubSeq(sends, m, Len(sends)) \in Seq(0..LastSlot)  BY <1>1, <1>5, PartOfSequence
<1>. QED  BY <1>6 DEF Recent, m

\* A request after it was let through, and a token good for the day or not.
Fresh == issued = DayOf(slot)
LetThrough == sends # <<>> /\ (DayOf(Last(sends)) < DayOf(slot) => spansRenewal)
LoginHolds == (authMode = "login" /\ issued # NoToken /\ slot < expiry) => (Fresh \/ spansRenewal)
Excused == authMode = "token" \/ Fresh \/ spansRenewal

SessionInv ==
    /\ SessionTypeOK
    /\ expiry <= NextExpiry(slot)
    /\ request.stage = "sent" => LetThrough
    /\ LoginHolds
    /\ (request # NoRequest /\ request.kind # "login") => Excused
    /\ request.stage = "refused" => request.kind # "login"
    /\ (request # NoRequest /\ request.kind = "login") => request.next \in {"read", "order"}
    /\ RefusalsExplained

\* Time is a number.
LEMMA SlotIsNat == SessionTypeOK => slot \in Nat /\ LastSlot \in Nat /\ slot <= LastSlot
BY SessionAssumption DEF SessionTypeOK

\* A session without a token owes nothing.
LEMMA SessionInvInit == SessionInit => SessionInv
<1>1. SUFFICES ASSUME SessionInit PROVE SessionInv  OBVIOUS
<1>2. LastSlot \in Nat /\ PerMinute \in Nat  BY SessionAssumption
<1>3. NextExpiry(LastSlot) \in Nat /\ NextExpiry(0) \in Nat  BY <1>2, DaysPass
<1>4. Len(sends) = 0 /\ sends \in Seq(0..LastSlot)  BY <1>1 DEF SessionInit
<1>5. SessionTypeOK
  <2>1. 0 \in 0..LastSlot /\ 0 \in 0..NextExpiry(LastSlot) /\ Len(sends) <= PerMinute
    BY <1>2, <1>3, <1>4
  <2>. QED  BY <1>1, <1>4, <2>1 DEF SessionInit, SessionTypeOK
<1>. QED  BY <1>1, <1>3, <1>5 DEF SessionInit, SessionInv, NoRequest, LoginHolds, RefusalsExplained

\* Time passes, over an expiry or not.
LEMMA ElapseKeeps ==
    ASSUME SessionInv, Elapse
    PROVE  SessionInv'
<1>1. /\ slot \in Nat /\ LastSlot \in Nat /\ slot' = slot + 1 /\ slot' \in Nat
      /\ slot <= slot' /\ slot' \in 0..LastSlot
  BY SlotIsNat DEF SessionInv, Elapse
<1>2. DayOf(slot) <= DayOf(slot') /\ NextExpiry(slot) <= NextExpiry(slot')
  BY <1>1, DaysInOrder
<1>3. /\ DayOf(slot) \in Nat /\ DayOf(slot') \in Nat
      /\ NextExpiry(slot) \in Nat /\ NextExpiry(slot') \in Nat /\ NextExpiry(LastSlot) \in Nat
  BY <1>1, DaysPass
<1>4. UNCHANGED <<authMode, issued, expiry, sends, request>>  BY DEF Elapse
<1>5. /\ spansRenewal \in BOOLEAN /\ spansRenewal' \in BOOLEAN
      /\ DayOf(slot') = DayOf(slot) => spansRenewal' = spansRenewal
      /\ DayOf(slot') # DayOf(slot) => spansRenewal' = (request # NoRequest)
  BY <1>1 DEF SessionInv, SessionTypeOK, Elapse
<1>6. SessionTypeOK'
  BY <1>1, <1>4, <1>5 DEF SessionInv, SessionTypeOK
<1>7. expiry' <= NextExpiry(slot')
  <2>1. expiry \in Nat /\ expiry <= NextExpiry(slot)
    BY <1>3 DEF SessionInv, SessionTypeOK
  <2>. QED  BY <1>2, <1>3, <1>4, <2>1
<1>8. LoginHolds'
  <2>1. SUFFICES ASSUME slot' < expiry, LoginHolds, issued # NoToken, authMode = "login"
                 PROVE  (Fresh \/ spansRenewal)'
    BY <1>4 DEF LoginHolds, SessionInv
  <2>2. expiry \in Nat /\ expiry <= NextExpiry(slot)
    BY <1>3 DEF SessionInv, SessionTypeOK
  <2>3. slot' < NextExpiry(slot) /\ slot < expiry  BY <1>1, <1>3, <2>1, <2>2
  <2>4. DayOf(slot') = DayOf(slot)  BY <1>1, <2>3, SameDay
  <2>. QED  BY <1>4, <1>5, <2>1, <2>3, <2>4 DEF LoginHolds, Fresh
<1>9. CASE DayOf(slot') = DayOf(slot)
  <2>1. spansRenewal' = spansRenewal  BY <1>5, <1>9
  <2>. QED  BY <1>4, <1>6, <1>7, <1>8, <1>9, <2>1
            DEF SessionInv, LetThrough, Excused, Fresh, RefusalsExplained
<1>10. CASE DayOf(slot') # DayOf(slot) /\ request # NoRequest
  <2>1. spansRenewal'  BY <1>5, <1>10
  <2>. QED  BY <1>4, <1>6, <1>7, <1>8, <2>1
            DEF SessionInv, LetThrough, Excused, RefusalsExplained
<1>11. CASE request = NoRequest
  <2>1. request'.stage = "none"  BY <1>4, <1>11 DEF NoRequest
  <2>. QED  BY <1>4, <1>6, <1>7, <1>8, <1>11, <2>1 DEF SessionInv, RefusalsExplained
<1>. QED  BY <1>9, <1>10, <1>11

\* A request of the adapter's, at some stage.
RequestRecords ==
    [stage : {"waiting", "sent", "refused"}, kind : {"read", "order", "login"},
     attempt : 1..MaxRetries, next : {"none", "read", "order"}]

\* A request that has just begun waits, at its first attempt.
LEMMA NewRequest ==
    ASSUME NEW kind \in {"read", "order", "login"}, NEW next \in {"none", "read", "order"}
    PROVE  LET r == [stage |-> "waiting", kind |-> kind, attempt |-> 1, next |-> next] IN
           /\ r \in RequestRecords /\ r # NoRequest /\ r.stage = "waiting" /\ r.kind = kind
           /\ r.next = next
<1>1. 1 \in 1..MaxRetries  BY SessionAssumption
<1>2. PICK one \in 1..MaxRetries : one = 1  BY <1>1
<1>3. [stage |-> "waiting", kind |-> kind, attempt |-> one, next |-> next] \in RequestRecords
  BY DEF RequestRecords
<1>. QED  BY <1>2, <1>3 DEF NoRequest

\* A token from the environment, or a login: no token is set that the clock has outrun.
LEMMA TokenSet ==
    ASSUME SessionInv
    PROVE  /\ NextExpiry(slot) \in 0..NextExpiry(LastSlot) /\ NextExpiry(slot) \in Nat
           /\ 0 \in {NoToken} \union 0..DayOf(LastSlot)
<1>1. slot \in Nat /\ LastSlot \in Nat /\ slot <= LastSlot  BY SlotIsNat DEF SessionInv
<1>2. /\ NextExpiry(slot) \in Nat /\ NextExpiry(LastSlot) \in Nat /\ DayOf(LastSlot) \in Nat
      /\ NextExpiry(slot) <= NextExpiry(LastSlot)
  BY <1>1, DaysPass, DaysInOrder
<1>. QED  BY <1>2

\* Steps that begin a request, of a caller or of the supervisor.
LEMMA BeginKeeps ==
    ASSUME SessionInv, (\E kind \in {"read", "order"} : Call(kind)) \/ Reauthenticate
    PROVE  SessionInv'
<1>1. UNCHANGED <<slot, authMode, sends, spansRenewal>> /\ request = NoRequest
  BY DEF Call, Reauthenticate
<1>2. SessionTypeOK /\ expiry <= NextExpiry(slot) /\ LoginHolds  BY DEF SessionInv
<1>3. \/ /\ authMode = "token" /\ issued' = 0 /\ expiry' = NextExpiry(slot)
         /\ \/ request' = request
            \/ \E kind \in {"read", "order"} :
                 request' = [stage |-> "waiting", kind |-> kind, attempt |-> 1, next |-> "none"]
      \/ /\ UNCHANGED <<issued, expiry>> /\ IsAuthenticated
         /\ \E kind \in {"read", "order"} :
                 request' = [stage |-> "waiting", kind |-> kind, attempt |-> 1, next |-> "none"]
      \/ /\ UNCHANGED <<issued, expiry>>
         /\ \E kind \in {"read", "order"} :
                 request' = [stage |-> "waiting", kind |-> "login", attempt |-> 1, next |-> kind]
  BY DEF Call, Reauthenticate
<1>4. CASE /\ authMode = "token" /\ issued' = 0 /\ expiry' = NextExpiry(slot)
           /\ \/ request' = request
              \/ \E kind \in {"read", "order"} :
                 request' = [stage |-> "waiting", kind |-> kind, attempt |-> 1, next |-> "none"]
  <2>1. /\ request' # NoRequest => request' \in RequestRecords
        /\ request'.stage \in {"none", "waiting"}
        /\ request' # NoRequest => request'.kind \in {"read", "order"}
    BY <1>1, <1>4, NewRequest DEF NoRequest
  <2>2. SessionTypeOK'
    BY <1>1, <1>2, <1>4, <2>1, TokenSet DEF SessionTypeOK, RequestRecords
  <2>3. expiry' <= NextExpiry(slot')  BY <1>1, <1>4, TokenSet
  <2>. QED  BY <1>1, <1>4, <2>1, <2>2, <2>3
            DEF SessionInv, LoginHolds, Excused, RefusalsExplained
<1>5. CASE /\ UNCHANGED <<issued, expiry>> /\ IsAuthenticated
           /\ \E kind \in {"read", "order"} :
                 request' = [stage |-> "waiting", kind |-> kind, attempt |-> 1, next |-> "none"]
  <2>1. /\ request' \in RequestRecords /\ request'.stage = "waiting"
        /\ request'.kind \in {"read", "order"}
    BY <1>5, NewRequest
  <2>2. SessionTypeOK'  BY <1>1, <1>2, <1>5, <2>1 DEF SessionTypeOK, RequestRecords
  <2>3. Excused'
    <3>1. authMode = "token" \/ authMode = "login"
      BY <1>2, SessionAssumption DEF SessionTypeOK
    <3>. QED  BY <1>1, <1>2, <1>5, <3>1 DEF LoginHolds, IsAuthenticated, Excused, Fresh
  <2>. QED  BY <1>1, <1>2, <1>5, <2>1, <2>2, <2>3
            DEF SessionInv, LoginHolds, Fresh, RefusalsExplained
<1>6. CASE /\ UNCHANGED <<issued, expiry>>
           /\ \E kind \in {"read", "order"} :
                 request' = [stage |-> "waiting", kind |-> "login", attempt |-> 1, next |-> kind]
  <2>1. /\ request' \in RequestRecords /\ request'.stage = "waiting"
        /\ request'.kind = "login" /\ request'.next \in {"read", "order"}
    BY <1>6, NewRequest
  <2>2. SessionTypeOK'  BY <1>1, <1>2, <1>6, <2>1 DEF SessionTypeOK, RequestRecords
  <2>. QED  BY <1>1, <1>2, <1>6, <2>1, <2>2
            DEF SessionInv, LoginHolds, Fresh, RefusalsExplained
<1>. QED  BY <1>3, <1>4, <1>5, <1>6

\* A request that gets its slot is sent with the token of the moment.
LEMMA AcquireKeeps ==
    ASSUME SessionInv, Acquire
    PROVE  SessionInv'
<1>1. SessionTypeOK /\ slot \in Nat /\ LastSlot \in Nat  BY SlotIsNat DEF SessionInv
<1>2. request # NoRequest /\ request \in RequestRecords
  BY <1>1 DEF Acquire, SessionTypeOK, NoRequest, RequestRecords
<1>3. /\ request' \in RequestRecords /\ request'.stage = "sent"
      /\ request'.kind = request.kind /\ request'.next = request.next
  BY <1>2 DEF Acquire, RequestRecords
<1>4. Recent \in Seq(0..LastSlot) /\ Len(Recent) < PerMinute /\ PerMinute \in Nat
  BY <1>1, RecentType, SessionAssumption DEF Acquire, MayProceed
<1>5. slot \in 0..LastSlot  BY <1>1 DEF SessionTypeOK
<1>. DEFINE kept == Recent  later == Append(kept, slot)
<1>6. sends' = later  BY DEF Acquire
<1>. HIDE DEF kept
<1>7. kept \in Seq(0..LastSlot) /\ Len(kept) < PerMinute  BY <1>4 DEF kept
<1>8. /\ later \in Seq(0..LastSlot) /\ Len(later) = Len(kept) + 1 /\ later # <<>>
      /\ later[Len(later)] = slot
  BY <1>5, <1>7
<1>9. Len(later) <= PerMinute  BY <1>4, <1>7, <1>8
<1>. HIDE DEF later
<1>10. SessionTypeOK'
  BY <1>1, <1>3, <1>6, <1>8, <1>9 DEF Acquire, SessionTypeOK, RequestRecords
<1>11. LetThrough'
  <2>1. Last(sends') = slot /\ sends' # <<>> /\ slot' = slot
    BY <1>6, <1>8 DEF Last, Acquire
  <2>2. ~(DayOf(slot) < DayOf(slot))  BY <1>1, DaysPass
  <2>. QED  BY <2>1, <2>2 DEF LetThrough
<1>. QED  BY <1>2, <1>3, <1>10, <1>11
          DEF Acquire, SessionInv, LoginHolds, Excused, Fresh, RefusalsExplained

\* A login that is answered renews the token for the day.
LEMMA LoginKeeps ==
    ASSUME SessionInv, LoginAnswered
    PROVE  SessionInv'
<1>1. /\ SessionTypeOK /\ slot \in Nat /\ LastSlot \in Nat /\ slot <= LastSlot /\ LetThrough
  BY SlotIsNat DEF SessionInv, LoginAnswered
<1>2. request # NoRequest /\ request \in RequestRecords
  BY <1>1 DEF LoginAnswered, SessionTypeOK, NoRequest, RequestRecords
<1>3. /\ request' \in RequestRecords /\ request'.stage = "waiting"
      /\ request'.kind \in {"read", "order"}
  <2>1. request.next \in {"read", "order"}  BY <1>2 DEF LoginAnswered, SessionInv
  <2>. QED  BY <2>1, NewRequest DEF LoginAnswered
<1>4. Last(sends) \in 0..LastSlot
  <2>1. sends \in Seq(0..LastSlot) /\ sends # <<>>  BY <1>1 DEF SessionTypeOK, LetThrough
  <2>2. 1 \in 1..(Len(sends) + 1)  BY <2>1
  <2>. QED  BY <2>1, <2>2, PartOfSequence
<1>5. PICK d \in Int : d = DayOf(slot) /\ d \in Nat /\ d <= DayOf(LastSlot) /\ DayOf(LastSlot) \in Nat
  BY <1>1, DaysPass, DaysInOrder
<1>6. PICK e \in Nat : e = DayOf(Last(sends))
  <2>1. Last(sends) \in Nat  BY <1>1, <1>4
  <2>. QED  BY <2>1, DaysPass
<1>7. PICK n \in e..d : n = issued'  BY <1>5, <1>6 DEF LoginAnswered
<1>8. n \in 0..DayOf(LastSlot)  BY <1>5, <1>6, <1>7
<1>9. expiry' = NextExpiry(slot) /\ UNCHANGED <<slot, authMode, sends>>
      /\ spansRenewal' = (spansRenewal /\ issued' # DayOf(slot))
  BY DEF LoginAnswered
<1>10. SessionTypeOK'
  BY <1>1, <1>3, <1>7, <1>8, <1>9, TokenSet DEF SessionTypeOK, RequestRecords
<1>11. Fresh' \/ spansRenewal'
  <2>1. CASE n = d  BY <1>5, <1>7, <1>9, <2>1 DEF Fresh
  <2>2. CASE n # d
    <3>1. e < d  BY <1>5, <1>6, <1>7, <2>2
    <3>2. spansRenewal  BY <1>1, <1>5, <1>6, <3>1 DEF LetThrough
    <3>. QED  BY <1>5, <1>7, <1>9, <2>2, <3>2
  <2>. QED  BY <2>1, <2>2
<1>12. expiry' <= NextExpiry(slot')  BY <1>9, TokenSet
<1>. QED  BY <1>3, <1>10, <1>11, <1>12 DEF SessionInv, LoginHolds, Excused, RefusalsExplained

\* What the broker answers, or that it does not.
LEMMA AnswerKeeps ==
    ASSUME SessionInv,
           Answered \/ Unauthorized \/ TransientFailure \/ DefiniteFailure \/ RefusalRaised
    PROVE  SessionInv'
<1>1. /\ UNCHANGED <<slot, authMode, issued, expiry, sends, spansRenewal>>
      /\ request.stage \in {"sent", "refused"}
  BY DEF Answered, Unauthorized, TransientFailure, DefiniteFailure, RefusalRaised
<1>2. SessionTypeOK /\ request # NoRequest /\ request \in RequestRecords
  BY <1>1 DEF SessionInv, SessionTypeOK, NoRequest, RequestRecords
<1>3. CASE request' = NoRequest
  <2>1. request'.stage = "none"  BY <1>3 DEF NoRequest
  <2>2. SessionTypeOK'  BY <1>1, <1>2, <1>3 DEF SessionTypeOK
  <2>. QED  BY <1>1, <1>3, <2>1, <2>2 DEF SessionInv, LoginHolds, Fresh, RefusalsExplained
<1>4. CASE Unauthorized
  <2>1. /\ request' \in RequestRecords /\ request'.stage = "refused"
        /\ request'.kind = request.kind
    BY <1>2, <1>4 DEF Unauthorized, RequestRecords
  <2>2. SessionTypeOK'  BY <1>1, <1>2, <2>1 DEF SessionTypeOK, RequestRecords
  <2>3. request.kind # "login" /\ ~Fresh  BY <1>4 DEF Unauthorized, Valid, Fresh
  <2>. QED  BY <1>1, <1>2, <2>1, <2>2, <2>3
            DEF SessionInv, LoginHolds, Fresh, Excused, RefusalsExplained
<1>5. CASE TransientFailure /\ request' # NoRequest
  <2>1. PICK n \in 1..MaxRetries : n = request.attempt + 1
    <3>1. request.attempt \in Nat /\ request.attempt < Attempts(request.kind)
      BY <1>2, <1>5 DEF TransientFailure, RequestRecords
    <3>2. Attempts(request.kind) \in 1..MaxRetries  BY SessionAssumption DEF Attempts
    <3>. QED  BY <3>1, <3>2, SessionAssumption
  <2>2. request' = [[request EXCEPT !.stage = "waiting"] EXCEPT !.attempt = n]
    BY <1>2, <1>5, <2>1 DEF TransientFailure, RequestRecords
  <2>3. [request EXCEPT !.stage = "waiting"] \in RequestRecords  BY <1>2 DEF RequestRecords
  <2>4. /\ request' \in RequestRecords /\ request'.stage = "waiting"
        /\ request'.kind = request.kind /\ request'.next = request.next
    BY <1>2, <2>2, <2>3 DEF RequestRecords
  <2>5. SessionTypeOK'  BY <1>1, <1>2, <2>4 DEF SessionTypeOK, RequestRecords
  <2>. QED  BY <1>1, <1>2, <2>4, <2>5
            DEF SessionInv, LoginHolds, Fresh, Excused, RefusalsExplained
<1>. QED  BY <1>3, <1>4, <1>5
          DEF Answered, Unauthorized, TransientFailure, DefiniteFailure, RefusalRaised

\* No step leaves a refusal that has no reason.
LEMMA SessionStep == SessionInv /\ [SessionNext]_sessionVars => SessionInv'
<1>1. SUFFICES ASSUME SessionInv, [SessionNext]_sessionVars PROVE SessionInv'  OBVIOUS
<1>2. CASE UNCHANGED sessionVars
  BY <1>1, <1>2 DEF sessionVars, SessionInv, SessionTypeOK, LetThrough, LoginHolds, Fresh,
                    Excused, RefusalsExplained
<1>. QED  BY <1>1, <1>2, ElapseKeeps, BeginKeeps, AcquireKeeps, LoginKeeps, AnswerKeeps
          DEF SessionNext

\* A refusal of the token is explained, for every length of the day, limit and delay.
THEOREM RefusalsAreExplained == SessionSpec => [](SessionTypeOK /\ RefusalsExplained)
<1>1. SessionInv => SessionTypeOK /\ RefusalsExplained  BY DEF SessionInv
<1>. QED  BY <1>1, SessionInvInit, SessionStep, PTL DEF SessionSpec

-----------------------------------------------------------------------------
(* Strategy health *)

\* A state, a pause and a sentence that agree at the minute now.  A pause that is owed
\* is noted; a disabled strategy is barred, and stays so unless a pause was left over.
Agree(now, st, pause, owed) ==
    /\ owed.until > now => pause = owed.until
    /\ st = "DISABLED" => owed.barred
    /\ (owed.barred /\ st # "DISABLED") => owed.until <= now
    /\ st = "ACTIVE" => owed.until <= now
    /\ (owed.barred /\ ~owed.leftover) => (st = "DISABLED" /\ pause = NoPause)

SentenceType == [until : Int, barred : BOOLEAN, leftover : BOOLEAN]

\* The inductive invariant.
HealthInv ==
    /\ minute \in Nat /\ running \in Nat /\ pausedUntil \in Int
    /\ state \in States /\ sentence \in SentenceType
    /\ Agree(minute, state, pausedUntil, sentence)

-----------------------------------------------------------------------------
\* A strategy starts unsentenced.
LEMMA HealthInvInit == HealthInit => HealthInv
BY DEF HealthInit, HealthInv, Free, NoPause, States, SentenceType, Agree

\* Time only makes a sentence less.
LEMMA AgreeLater ==
    ASSUME NEW now \in Nat, NEW st, NEW pause \in Int, NEW owed \in SentenceType,
           Agree(now, st, pause, owed)
    PROVE  Agree(now + 1, st, pause, owed)
BY DEF Agree, SentenceType

\* The end of a pause, or no change.
LEMMA AskedAgrees ==
    ASSUME HealthInv
    PROVE  /\ Asked.state \in States /\ Asked.pause \in Int
           /\ Agree(minute, Asked.state, Asked.pause, sentence)
<1>1. CASE Expired
  <2>1. Asked = [state |-> "REDUCED", pause |-> NoPause]  BY <1>1 DEF Asked
  <2>. QED  BY <1>1, <2>1 DEF Expired, HealthInv, Agree, NoPause, SentenceType, States
<1>2. CASE ~Expired
  <2>1. Asked = [state |-> state, pause |-> pausedUntil]  BY <1>2 DEF Asked
  <2>. QED  BY <2>1 DEF HealthInv
<1>. QED  BY <1>1, <1>2

\* What a judgement does to the strategy and what it owes for it agree.
LEMMA JudgementAgrees ==
    ASSUME HealthInv, NEW outcomes
    PROVE  /\ Transition(outcomes).state \in States /\ Transition(outcomes).pause \in Int
           /\ Sentence(outcomes) \in SentenceType
           /\ Agree(minute, Transition(outcomes).state, Transition(outcomes).pause,
                    Sentence(outcomes))
<1>. DEFINE t == Transition(outcomes)
            s == Sentence(outcomes)
<1>. USE DEF HealthInv
<1>1. CASE state = "DISABLED" \/ Len(outcomes) < MinTrades
  <2>1. t = [state |-> state, pause |-> pausedUntil]  BY <1>1 DEF Transition
  <2>2. s = sentence  BY <1>1 DEF Sentence, Agree
  <2>. QED  BY <2>1, <2>2
<1>2. CASE state # "DISABLED" /\ ~(Len(outcomes) < MinTrades)
  <2>1. t = Judged(outcomes)  BY <1>2 DEF Transition
  <2>2. t.state \in States /\ t.pause \in Int
    <3>1. minute + PauseFor \in Int  BY HealthAssumption DEF StrategyHealthConfig
    <3>. QED  BY <2>1, <3>1 DEF Judged, States, NoPause
  <2>3. CASE sentence.barred
    <3>1. s = sentence  BY <2>3 DEF Sentence
    <3>2. sentence.leftover /\ sentence.until <= minute  BY <1>2, <2>3 DEF Agree
    <3>3. sentence.until \in Int  BY DEF SentenceType
    <3>. QED  BY <2>2, <2>3, <3>1, <3>2, <3>3 DEF Agree
  <2>4. CASE ~sentence.barred /\ AtOrBelow(outcomes, DisableBelow)
    <3>1. t = [state |-> "DISABLED", pause |-> pausedUntil]  BY <2>1, <2>4 DEF Judged
    <3>2. s = [sentence EXCEPT !.barred = TRUE, !.leftover = pausedUntil # NoPause]
      BY <1>2, <2>4 DEF Sentence
    <3>3. /\ s \in SentenceType /\ s.until = sentence.until /\ s.barred
          /\ ~s.leftover => pausedUntil = NoPause
      BY <3>2 DEF SentenceType
    <3>. QED  BY <2>2, <3>1, <3>3 DEF Agree
  <2>5. CASE ~sentence.barred /\ ~AtOrBelow(outcomes, DisableBelow) /\ AtOrBelow(outcomes, PauseBelow)
    <3>1. t = [state |-> "PAUSED", pause |-> minute + PauseFor]  BY <2>1, <2>5 DEF Judged
    <3>2. s = [Free EXCEPT !.until = minute + PauseFor]  BY <1>2, <2>5 DEF Sentence
    <3>3. minute + PauseFor \in Int  BY HealthAssumption DEF StrategyHealthConfig
    <3>4. s \in SentenceType /\ s.until = minute + PauseFor /\ ~s.barred
      BY <3>2, <3>3 DEF Free, NoPause, SentenceType
    <3>. QED  BY <2>2, <3>1, <3>4 DEF Agree
  <2>6. CASE /\ ~sentence.barred /\ ~AtOrBelow(outcomes, DisableBelow)
             /\ ~AtOrBelow(outcomes, PauseBelow)
    <3>1. CASE AtOrBelow(outcomes, ReduceBelow)
      <4>1. t = [state |-> "REDUCED", pause |-> pausedUntil]  BY <2>1, <2>6, <3>1 DEF Judged
      <4>2. s = sentence  BY <1>2, <2>6, <3>1 DEF Sentence
      <4>. QED  BY <2>2, <2>6, <4>1, <4>2 DEF Agree
    <3>2. CASE ~AtOrBelow(outcomes, ReduceBelow) /\ Recovered(outcomes)
      <4>1. t = [state |-> "ACTIVE", pause |-> NoPause]  BY <2>1, <2>6, <3>2 DEF Judged
      <4>2. s = Free  BY <1>2, <2>6, <3>2 DEF Sentence
      <4>. QED  BY <2>2, <4>1, <4>2 DEF Agree, Free, NoPause, SentenceType
    <3>3. CASE ~AtOrBelow(outcomes, ReduceBelow) /\ ~Recovered(outcomes)
      <4>1. s = sentence  BY <1>2, <2>6, <3>3 DEF Sentence
      <4>2. CASE state = "ACTIVE"
        <5>1. t = [state |-> "ACTIVE", pause |-> NoPause]
          BY <2>1, <2>6, <3>3, <4>2 DEF Judged
        <5>2. sentence.until <= minute /\ sentence.until \in Int
          BY <4>2 DEF Agree, SentenceType
        <5>. QED  BY <2>2, <2>6, <4>1, <5>1, <5>2 DEF Agree
      <4>3. CASE state # "ACTIVE"
        <5>1. t = [state |-> state, pause |-> pausedUntil]
          BY <2>1, <2>6, <3>3, <4>3 DEF Judged
        <5>. QED  BY <4>1, <5>1
      <4>. QED  BY <4>2, <4>3
    <3>. QED  BY <3>1, <3>2, <3>3
  <2>. QED  BY <2>3, <2>4, <2>5, <2>6
<1>. QED  BY <1>1, <1>2

\* No step leaves a sentence unserved.
LEMMA HealthInvStep == HealthInv /\ [HealthNext]_healthVars => HealthInv'
<1>. SUFFICES ASSUME HealthInv, [HealthNext]_healthVars PROVE HealthInv'
  OBVIOUS
<1>1. CASE UNCHANGED healthVars
  BY <1>1 DEF HealthInv, healthVars, Agree
<1>2. CASE MinutePasses
  <2>1. Agree(minute + 1, state, pausedUntil, sentence)  BY AgreeLater DEF HealthInv
  <2>2. minute + 1 \in Nat  BY DEF HealthInv
  <2>. QED  BY <1>2, <2>1, <2>2 DEF HealthInv, MinutePasses, Agree
<1>3. CASE Ask
  <2>1. running' = running \/ running' = running + 1  BY <1>3 DEF Ask
  <2>2. running' \in Nat  BY <2>1 DEF HealthInv
  <2>. QED  BY <1>3, <2>2, AskedAgrees DEF HealthInv, Ask, Agree
<1>4. ASSUME NEW r \in Outcomes, Record(r) PROVE HealthInv'
  <2>1. PICK outcomes : /\ state' = Transition(outcomes).state
                        /\ pausedUntil' = Transition(outcomes).pause
                        /\ sentence' = Sentence(outcomes)
    BY <1>4 DEF Record
  <2>2. running' \in Nat  BY <1>4 DEF HealthInv, Record
  <2>3. minute' = minute  BY <1>4 DEF Record
  <2>. QED  BY <2>1, <2>2, <2>3, JudgementAgrees DEF HealthInv, Agree
<1>5. CASE Reset
  BY <1>5 DEF Reset, HealthInv, Free, NoPause, States, SentenceType, Agree
<1>. QED  BY <1>1, <1>2, <1>3, <1>4, <1>5 DEF HealthNext

\* The monitor's state and pause always agree with what the strategy's trades sentenced
\* it to.
THEOREM SentenceInvariant == HealthSpec => []HealthInv
BY HealthInvInit, HealthInvStep, PTL DEF HealthSpec

\* A strategy enters only after it has served a pause, and after a disablement only when
\* it was disabled during a pause: for every configuration and history of trades.
THEOREM SentencesServed == HealthSpec => SentencesAreServed
<1>1. HealthInv /\ [HealthNext]_healthVars =>
        [running' > running =>
           /\ sentence.until <= minute
           /\ ~sentence.barred \/ sentence.leftover]_healthVars
  <2>. SUFFICES ASSUME HealthInv, HealthNext, running' > running
                PROVE  /\ sentence.until <= minute
                       /\ ~sentence.barred \/ sentence.leftover
    BY DEF healthVars
  <2>. USE DEF HealthInv
  <2>1. Ask
    BY DEF HealthNext, MinutePasses, Reset, Record
  <2>2. CanTrade  BY <2>1 DEF Ask
  <2>3. sentence.until <= minute
    BY <2>2 DEF CanTrade, Agree, SentenceType, NoPause
  <2>4. ~sentence.barred \/ sentence.leftover
    <3>. SUFFICES ASSUME sentence.barred, ~sentence.leftover PROVE FALSE
      OBVIOUS
    <3>1. state = "DISABLED" /\ pausedUntil = NoPause  BY DEF Agree
    <3>2. Asked = [state |-> state, pause |-> pausedUntil]  BY <3>1 DEF Asked, Expired
    <3>. QED  BY <2>2, <3>1, <3>2 DEF CanTrade
  <2>. QED  BY <2>3, <2>4
<1>. QED  BY <1>1, SentenceInvariant, PTL DEF HealthSpec, SentencesAreServed

\* Moments a pause may end at.
Ends == {NoPause} \union 0..(LastMinute + PauseFor)

\* What is looked back on: the last outcomes, no more of them than Lookback.
LEMMA LatestType ==
    ASSUME NEW outcomes \in Seq(Outcomes)
    PROVE  Latest(outcomes) \in BoundedSeq(Outcomes, Lookback)
<1>1. PICK n \in Nat, L \in Nat \ {0} : n = Len(outcomes) /\ L = Lookback
  BY HealthAssumption DEF StrategyHealthConfig
<1>2. PICK m \in 1..(n + 1) : /\ m = (IF n > L THEN n - L + 1 ELSE 1)
                              /\ n - m + 1 <= L /\ n - m + 1 \in Nat
  <2>1. CASE n > L
    <3>1. n - L + 1 \in 1..(n + 1) /\ n - (n - L + 1) + 1 = L  BY <2>1
    <3>. QED  BY <2>1, <3>1
  <2>2. CASE ~(n > L)
    <3>1. 1 \in 1..(n + 1) /\ n - 1 + 1 = n  OBVIOUS
    <3>. QED  BY <2>2, <3>1
  <2>. QED  BY <2>1, <2>2
<1>3. \A k \in m..n : outcomes[k] \in Outcomes
  <2>1. DOMAIN outcomes = 1..n  BY <1>1
  <2>. QED  BY <2>1
<1>4. SubSeq(outcomes, m, n) \in Seq(Outcomes)
      /\ Len(SubSeq(outcomes, m, n)) = IF m <= n THEN n - m + 1 ELSE 0
  BY <1>3, SubSeqProperties
<1>5. Latest(outcomes) = SubSeq(outcomes, m, n)  BY <1>1, <1>2 DEF Latest
<1>. DEFINE last == SubSeq(outcomes, m, n)
<1>6. Len(last) \in 0..L  BY <1>2, <1>4
<1>7. last \in [1..Len(last) -> Outcomes]
  <2>1. last \in Seq(Outcomes)  BY <1>4
  <2>. HIDE DEF last
  <2>. QED  BY <2>1
<1>. HIDE DEF last
<1>8. last \in UNION {[1..k -> Outcomes] : k \in 0..L}  BY <1>6, <1>7
<1>. QED  BY <1>1, <1>5, <1>8 DEF BoundedSeq, SeqOf, last

\* One outcome more.
LEMMA RecordedType ==
    ASSUME NEW outcomes \in BoundedSeq(Outcomes, Lookback), NEW r \in Outcomes
    PROVE  Append(outcomes, r) \in Seq(Outcomes)
<1>1. PICK k \in 0..Lookback : outcomes \in [1..k -> Outcomes]  BY DEF BoundedSeq, SeqOf
<1>2. k \in Nat  BY <1>1, HealthAssumption DEF StrategyHealthConfig
<1>3. outcomes \in Seq(Outcomes)  BY <1>1, <1>2
<1>. QED  BY <1>3

\* The bounds of the monitor's state survive every judgement.
LEMMA HealthTypeStep ==
    ASSUME HealthTypeOK, [HealthNext]_healthVars
    PROVE  HealthTypeOK'
<1>0. /\ LastMinute \in Nat /\ PauseFor \in Nat \ {0} /\ MaxRunning \in Nat \ {0} /\ Lookback \in Nat
      /\ NoPause = -1
  BY HealthAssumption DEF StrategyHealthConfig, NoPause
<1>. DEFINE Sentences == [until : Ends, barred : BOOLEAN, leftover : BOOLEAN]
<1>1. /\ minute \in 0..LastMinute /\ results \in BoundedSeq(Outcomes, Lookback) /\ state \in States
      /\ running \in 0..MaxRunning /\ pausedUntil \in Ends /\ sentence \in Sentences
  BY DEF HealthTypeOK, Ends
<1>2. ASSUME minute' \in 0..LastMinute, results' \in BoundedSeq(Outcomes, Lookback),
             state' \in States, running' \in 0..MaxRunning, pausedUntil' \in Ends,
             sentence' \in Sentences
      PROVE  HealthTypeOK'
  BY <1>2 DEF HealthTypeOK, Ends
<1>3. Free \in Sentences /\ NoPause \in Ends  BY DEF Free, Ends
<1>4. minute + PauseFor \in Ends
  <2>1. PICK m \in Int : m = minute /\ 0 <= m /\ m <= LastMinute  BY <1>0, <1>1
  <2>2. m + PauseFor \in 0..(LastMinute + PauseFor)  BY <1>0, <2>1
  <2>. QED  BY <2>1, <2>2 DEF Ends
<1>5. CASE UNCHANGED healthVars  BY <1>1, <1>2, <1>5 DEF healthVars
<1>6. CASE MinutePasses
  <2>1. minute' \in 0..LastMinute  BY <1>0, <1>1, <1>6 DEF MinutePasses
  <2>. QED  BY <1>1, <1>2, <1>6, <2>1 DEF MinutePasses
<1>7. CASE Ask
  <2>1. state' \in States /\ pausedUntil' \in Ends
    BY <1>1, <1>3, <1>7 DEF Ask, Asked, States
  <2>2. running' \in 0..MaxRunning  BY <1>0, <1>1, <1>7 DEF Ask
  <2>. QED  BY <1>1, <1>2, <1>7, <2>1, <2>2 DEF Ask
<1>8. CASE Reset
  <2>1. <<>> \in BoundedSeq(Outcomes, Lookback)
    <3>1. <<>> \in [1..0 -> Outcomes]  OBVIOUS
    <3>2. 0 \in 0..Lookback  BY <1>0
    <3>. QED  BY <3>1, <3>2 DEF BoundedSeq, SeqOf
  <2>2. state' \in States  BY <1>8 DEF Reset, States
  <2>. QED  BY <1>1, <1>2, <1>3, <1>8, <2>1, <2>2 DEF Reset
<1>9. ASSUME NEW r \in Outcomes, Record(r) PROVE HealthTypeOK'
  <2>. DEFINE outcomes == Latest(Append(results, r))
  <2>1. outcomes \in BoundedSeq(Outcomes, Lookback)  BY <1>1, RecordedType, LatestType
  <2>2. /\ running > 0 /\ running' = running - 1 /\ results' = outcomes
        /\ state' = Transition(outcomes).state /\ pausedUntil' = Transition(outcomes).pause
        /\ sentence' = Sentence(outcomes) /\ minute' = minute
    BY <1>9 DEF Record
  <2>. HIDE DEF outcomes
  <2>3. Transition(outcomes).state \in States /\ Transition(outcomes).pause \in Ends
    BY <1>1, <1>3, <1>4 DEF Transition, Judged, States
  <2>4. Sentence(outcomes) \in Sentences
    <3>1. [Free EXCEPT !.until = minute + PauseFor] \in Sentences  BY <1>3, <1>4
    <3>2. [sentence EXCEPT !.barred = TRUE, !.leftover = pausedUntil # NoPause] \in Sentences
      BY <1>1
    <3>. HIDE DEF Sentences
    <3>. QED  BY <1>1, <1>3, <3>1, <3>2 DEF Sentence
  <2>5. running' \in 0..MaxRunning  BY <1>0, <1>1, <2>2
  <2>. QED  BY <1>1, <1>2, <2>1, <2>2, <2>3, <2>4, <2>5
<1>. QED  BY <1>5, <1>6, <1>7, <1>8, <1>9 DEF HealthNext

\* The monitor keeps its types.
THEOREM HealthTypesKept == HealthSpec => []HealthTypeOK
<1>1. HealthInit => HealthTypeOK
  <2>1. /\ LastMinute \in Nat /\ PauseFor \in Nat \ {0} /\ MaxRunning \in Nat \ {0}
        /\ Lookback \in Nat
    BY HealthAssumption DEF StrategyHealthConfig
  <2>2. <<>> \in BoundedSeq(Outcomes, Lookback)
    <3>1. <<>> \in [1..0 -> Outcomes]  OBVIOUS
    <3>2. 0 \in 0..Lookback  BY <2>1
    <3>. QED  BY <3>1, <3>2 DEF BoundedSeq, SeqOf
  <2>. QED  BY <2>1, <2>2 DEF HealthInit, HealthTypeOK, States, NoPause, Free
<1>. QED  BY <1>1, HealthTypeStep, PTL DEF HealthSpec

-----------------------------------------------------------------------------
(* The event calendar *)

\* What the provider holds, against what is on disk.
CalendarInv ==
    /\ EventTypeOK
    /\ Readable => lastGood = file.events
    /\ wasRead => cache = lastGood
    /\ seen = mtime /\ Readable => wasRead
    /\ seen <= mtime
    /\ CalendarIsHeeded

\* What a file holds, by its kind.
LEMMA FileKinds ==
    ASSUME NEW f \in Files
    PROVE  /\ f.events \in Calendars \union {{}}
           /\ f = Missing \/ f = Malformed \/ f.kind = "calendar"
           /\ Missing.kind # "calendar" /\ Malformed.kind # "calendar" /\ Missing # Malformed
<1>1. Missing.kind # "calendar" /\ Malformed.kind # "calendar" /\ Missing # Malformed
  BY DEF Missing, Malformed
<1>2. Missing.events = {} /\ Malformed.events = {}  BY DEF Missing, Malformed
<1>3. ASSUME NEW cal \in Calendars, f = [kind |-> "calendar", events |-> cal]
      PROVE  f.kind = "calendar" /\ f.events = cal
  BY <1>3
<1>. QED  BY <1>1, <1>2, <1>3 DEF Files

\* What the calendar asks for is one of its actions.
LEMMA ActionType ==
    ASSUME EventTypeOK, NEW calendar, NEW u
    PROVE  Action(calendar, u, time) \in HighActions \union {"none", "reduce_risk", "continue"}
BY DEF Action, EventTypeOK

\* Nothing is known before the file is read.
LEMMA CalendarInvInit == EventInit => CalendarInv
<1>1. SUFFICES ASSUME EventInit PROVE CalendarInv
  OBVIOUS
<1>2. file \in Files /\ lastGood = file.events /\ seen = Never /\ mtime = 0 /\ time = 0
  BY <1>1 DEF EventInit
<1>3. LastTime \in Nat /\ MaxEdits \in Nat  BY EventAssumption
<1>4. EventTypeOK
  <2>1. window \in [underlying : Underlyings \union {Wide},
                    action : HighActions \union {"none", "reduce_risk", "continue"}]
    BY <1>1 DEF EventInit, NoWindow
  <2>2. cache \in Calendars \union {{}} /\ lastGood \in Calendars \union {{}}
    BY <1>1, <1>2, FileKinds DEF EventInit
  <2>3. time \in 0..LastTime /\ mtime \in 0..MaxEdits /\ seen \in Never..MaxEdits
    BY <1>2, <1>3 DEF Never
  <2>. QED  BY <1>1, <2>1, <2>2, <2>3 DEF EventInit, EventTypeOK
<1>. QED  BY <1>1, <1>2, <1>4 DEF EventInit, CalendarInv, CalendarIsHeeded, Never

\* Whatever is loaded of a readable file, or with one that was read, is the last
\* well-formed calendar.
LEMMA LoadedIsGood ==
    ASSUME CalendarInv, file # Missing, Readable \/ wasRead
    PROVE  Loaded = lastGood
<1>1. file = Malformed \/ Readable  BY FileKinds DEF CalendarInv, EventTypeOK, Readable
<1>2. CASE Readable
  <2>1. file # Malformed /\ lastGood = file.events
    BY <1>2, FileKinds DEF CalendarInv, EventTypeOK, Readable
  <2>2. seen = mtime => cache = lastGood  BY <1>2 DEF CalendarInv
  <2>. QED  BY <2>1, <2>2 DEF Loaded
<1>3. CASE file = Malformed /\ ~Readable
  <2>1. cache = lastGood  BY <1>3 DEF CalendarInv
  <2>. QED  BY <1>3, <2>1 DEF Loaded
<1>. QED  BY <1>1, <1>2, <1>3

\* No step leaves the provider with a calendar the file did not hold.
LEMMA CalendarStep ==
    ASSUME CalendarInv, [EventNext]_eventVars
    PROVE  CalendarInv'
<1>. USE DEF Never
<1>0. /\ EventTypeOK /\ LastTime \in Nat /\ MaxEdits \in Nat
      /\ NoWindow \in [underlying : Underlyings \union {Wide},
                       action : HighActions \union {"none", "reduce_risk", "continue"}]
  BY EventAssumption DEF CalendarInv, NoWindow
<1>1. CASE UNCHANGED eventVars
  BY <1>1 DEF eventVars, CalendarInv, EventTypeOK, CalendarIsHeeded, Readable, Action,
              InWindow, Affects
<1>2. CASE TimePasses
  <2>1. time' \in 0..LastTime  BY <1>0, <1>2 DEF TimePasses, EventTypeOK
  <2>2. EventTypeOK'  BY <1>0, <1>2, <2>1 DEF TimePasses, EventTypeOK
  <2>. QED  BY <1>2, <2>2 DEF TimePasses, CalendarInv, CalendarIsHeeded, Readable
<1>3. CASE Edit
  <2>1. mtime' = mtime + 1 /\ mtime < MaxEdits /\ mtime \in Nat /\ seen \in -1..MaxEdits
        /\ seen' = seen /\ seen <= mtime
    BY <1>0, <1>3 DEF Edit, EventTypeOK, CalendarInv
  <2>2. mtime' \in 0..MaxEdits /\ seen' <= mtime' /\ seen' # mtime'  BY <1>0, <2>1
  <2>3. lastGood' \in Calendars \union {{}} /\ wasRead' \in BOOLEAN
    BY <1>0, <1>3, FileKinds DEF Edit, EventTypeOK
  <2>4. EventTypeOK'
    BY <1>0, <1>3, <2>1, <2>2, <2>3 DEF Edit, EventTypeOK
  <2>5. Readable' => lastGood' = file'.events  BY <1>3 DEF Edit, Readable
  <2>6. wasRead' => cache' = lastGood'  BY <1>3 DEF Edit, CalendarInv
  <2>. QED  BY <1>3, <2>2, <2>4, <2>5, <2>6 DEF Edit, CalendarInv, CalendarIsHeeded
<1>4. CASE Restart
  <2>0. seen' = -1 /\ -1 \in -1..MaxEdits  BY <1>0, <1>4 DEF Restart
  <2>1. EventTypeOK'  BY <1>0, <1>4, <2>0 DEF Restart, EventTypeOK
  <2>2. seen' <= mtime' /\ seen' # mtime'  BY <1>0, <1>4 DEF Restart, EventTypeOK
  <2>. QED  BY <1>4, <2>1, <2>2 DEF Restart, CalendarInv, CalendarIsHeeded, Readable
<1>5. ASSUME NEW u \in Underlyings, AssessWindow(u)
      PROVE  CalendarInv'
  <2>1. Loaded \in Calendars \union {{}}
    BY <1>0, FileKinds DEF Loaded, EventTypeOK
  <2>2. seen' \in -1..MaxEdits /\ seen' <= mtime'
    BY <1>0, <1>5 DEF AssessWindow, EventTypeOK
  <2>3. wasRead' \in BOOLEAN
    BY <1>5 DEF AssessWindow
  <2>4. window' = [underlying |-> u, action |-> Action(Loaded, u, time)]
    BY <1>5 DEF AssessWindow
  <2>5. EventTypeOK'
    BY <1>0, <1>5, <2>1, <2>2, <2>3, <2>4, ActionType DEF AssessWindow, EventTypeOK
  <2>6. Readable' = Readable /\ lastGood' = lastGood /\ file' = file /\ cache' = Loaded
        /\ time' = time /\ highAction' = highAction
    BY <1>5 DEF AssessWindow, Readable
  <2>7. wasRead' => (file # Missing /\ (Readable \/ wasRead))
    BY <1>5, FileKinds DEF AssessWindow, EventTypeOK, CalendarInv, Readable
  <2>8. wasRead' => cache' = lastGood'  BY <2>6, <2>7, LoadedIsGood
  <2>9. Readable => wasRead'  BY <1>5 DEF AssessWindow
  <2>10. CalendarIsHeeded'
    <3>1. window'.underlying = u /\ window'.action = Action(Loaded, u, time)
      BY <2>4
    <3>2. (file # Missing /\ (Readable \/ wasRead')) => Loaded = lastGood
      BY <2>7, LoadedIsGood
    <3>3. Action(lastGood, u, time)' = Action(lastGood, u, time)
      BY <2>6 DEF Action, InWindow, Affects
    <3>. QED  BY <2>6, <3>1, <3>2, <3>3 DEF CalendarIsHeeded
  <2>. QED  BY <2>2, <2>5, <2>6, <2>8, <2>9, <2>10 DEF CalendarInv
<1>. QED  BY <1>1, <1>2, <1>3, <1>4, <1>5 DEF EventNext

\* The bot never trades straight through an event it could know of: for any calendars,
\* edits, restarts and times.
THEOREM CalendarHeeded == EventSpec => [](EventTypeOK /\ CalendarIsHeeded)
<1>1. CalendarInv /\ [EventNext]_eventVars => CalendarInv'  BY CalendarStep
<1>2. CalendarInv => EventTypeOK /\ CalendarIsHeeded  BY DEF CalendarInv
<1>. QED  BY <1>1, <1>2, CalendarInvInit, PTL DEF EventSpec

-----------------------------------------------------------------------------
(* The model registry *)

\* What a set of records owes when the models of passed passed their walk-forward and those
\* of seasoned were in PAPER: ACTIVE only after both, and one ACTIVE model of a family.
Sound(recs, passed, seasoned) ==
    /\ recs \in RecordSets
    /\ \A m \in Models : recs[m] = "ACTIVE" => m \in passed /\ m \in seasoned
    /\ \A m \in Models : recs[m] = "PAPER" => m \in seasoned
    /\ \A m, o \in Models :
         (recs[m] = "ACTIVE" /\ recs[o] = "ACTIVE" /\ FamilyOf[m] = FamilyOf[o]) => m = o

RegistryFiles == [state : {"absent", "broken", "readable"}, records : RecordSets]

\* The inductive invariant: types, and every set of records sound.
RegistryInv ==
    /\ RegistryTypeOK
    /\ Sound(index.records, passing, survivedPaper)
    /\ Sound(draft.records, passing, survivedPaper)
    /\ \A c \in Commands : Sound(records[c], passing, survivedPaper)

-----------------------------------------------------------------------------
\* No records, no debts.
LEMMA NoRecordsSound == ASSUME NEW P, NEW S PROVE Sound(NoRecords, P, S)
BY DEF Sound, NoRecords, RecordSets, Unknown, Statuses

\* What a file may hold.
LEMMA FileTypes ==
    /\ Absent \in RegistryFiles /\ Broken \in RegistryFiles
    /\ Absent.records = NoRecords /\ Broken.records = NoRecords
    /\ \A recs \in RecordSets : Holds(recs) \in RegistryFiles /\ Holds(recs).records = recs
BY DEF Absent, Broken, Holds, RegistryFiles, NoRecords, RecordSets

\* Registering adds a RESEARCH model, of which nothing is owed.
LEMMA RegisteredSound ==
    ASSUME NEW P, NEW S, NEW recs, Sound(recs, P, S), NEW m \in Models
    PROVE  Sound(Registered(recs, m), P, S)
BY DEF Sound, Registered, RecordSets, Statuses

\* What MayPromote asks, with the models that passed as a parameter.
LEMMA ActiveComesFromPaper ==
    ASSUME NEW from \in Statuses, "ACTIVE" \in Allowed(from) PROVE from = "PAPER"
BY DEF Allowed, Statuses

\* A promotion keeps the records sound, once the model counts as having been in PAPER.
LEMMA PromotedSound ==
    ASSUME NEW P, NEW S, NEW recs, Sound(recs, P, S), NEW m \in Models, NEW status \in Statuses,
           recs[m] # Unknown, status \in Allowed(recs[m]), status = "ACTIVE" => m \in P,
           status = "PAPER" => m \in S
    PROVE  Sound(Promoted(recs, m, status), P, S)
<1>. DEFINE new == Promoted(recs, m, status)
<1>1. new \in RecordSets  BY DEF Promoted, RecordSets, Sound, Statuses
<1>2. ASSUME NEW o \in Models, new[o] = "ACTIVE" PROVE o \in P /\ o \in S
  <2>1. CASE o = m
    <3>1. status = "ACTIVE"  BY <1>2, <2>1 DEF Promoted
    <3>2. recs[m] \in Statuses  BY DEF Sound, RecordSets
    <3>3. recs[m] = "PAPER"  BY <3>1, <3>2, ActiveComesFromPaper
    <3>. QED  BY <2>1, <3>1, <3>3 DEF Sound
  <2>2. CASE o # m  BY <1>2, <2>2 DEF Promoted, Sound
  <2>. QED  BY <2>1, <2>2
<1>3. ASSUME NEW o \in Models, new[o] = "PAPER" PROVE o \in S
  BY <1>3 DEF Promoted, Sound
<1>4. ASSUME NEW o \in Models, NEW p \in Models, new[o] = "ACTIVE", new[p] = "ACTIVE",
             FamilyOf[o] = FamilyOf[p]
      PROVE  o = p
  <2>1. CASE o # m /\ p # m
    <3>1. recs[o] = "ACTIVE" /\ recs[p] = "ACTIVE"  BY <1>4, <2>1 DEF Promoted
    <3>. QED  BY <1>4, <3>1 DEF Sound
  <2>2. CASE o = m \/ p = m  BY <1>4, <2>2 DEF Promoted
  <2>. QED  BY <2>1, <2>2
<1>. QED  BY <1>1, <1>2, <1>3, <1>4 DEF Sound

\* More models having been in PAPER takes nothing from a sound set.
LEMMA SoundMonotone ==
    ASSUME NEW P, NEW S, NEW T, NEW recs, Sound(recs, P, S), S \subseteq T
    PROVE  Sound(recs, P, T)
BY DEF Sound

-----------------------------------------------------------------------------
\* The registry starts empty.
LEMMA RegistryInvInit == RegistryInit => RegistryInv
<1>. SUFFICES ASSUME RegistryInit PROVE RegistryInv
  OBVIOUS
<1>1. RegistryTypeOK
  BY FileTypes DEF RegistryInit, RegistryTypeOK, RegistryFiles, NoRecords, RecordSets
<1>. QED  BY <1>1, NoRecordsSound, FileTypes DEF RegistryInit, RegistryInv

\* A command that loads sound records leaves everything sound.
LEMMA LoadsStep ==
    ASSUME RegistryInv, NEW c \in Commands, NEW recs, Loads(c, recs),
           Sound(recs, passing, survivedPaper'), survivedPaper \subseteq survivedPaper',
           survivedPaper' \subseteq Models
    PROVE  RegistryInv'
<1>1. RegistryTypeOK'
  BY DEF RegistryInv, RegistryTypeOK, Loads, Sound
<1>2. Sound(index.records, passing, survivedPaper)' /\ Sound(draft.records, passing, survivedPaper)'
  BY SoundMonotone DEF RegistryInv, Loads
<1>3. ASSUME NEW d \in Commands PROVE Sound(records'[d], passing', survivedPaper')
  BY SoundMonotone DEF RegistryInv, RegistryTypeOK, Loads
<1>. QED  BY <1>1, <1>2, <1>3 DEF RegistryInv

\* A model that is registered starts as a candidate.
LEMMA RegisterStep ==
    ASSUME RegistryInv, NEW c \in Commands, NEW m \in Models, Register(c, m)
    PROVE  RegistryInv'
<1>1. Sound(Registered(index.records, m), passing, survivedPaper)
  BY RegisteredSound DEF RegistryInv
<1>2. survivedPaper' = survivedPaper /\ survivedPaper \subseteq Models
  BY DEF Register, RegistryInv, RegistryTypeOK
<1>. QED  BY <1>1, <1>2, LoadsStep DEF Register

\* A model that is promoted has passed what its state asks for.
LEMMA PromoteStep ==
    ASSUME RegistryInv, NEW c \in Commands, NEW m \in Models, NEW status \in Statuses,
           Promote(c, m, status)
    PROVE  RegistryInv'
<1>1. /\ survivedPaper \subseteq survivedPaper' /\ survivedPaper' \subseteq Models
      /\ status = "PAPER" => m \in survivedPaper'
  BY DEF Promote, RegistryInv, RegistryTypeOK
<1>2. Sound(index.records, passing, survivedPaper')
  BY <1>1, SoundMonotone DEF RegistryInv
<1>3. Sound(Promoted(index.records, m, status), passing, survivedPaper')
  BY <1>1, <1>2, PromotedSound DEF Promote, MayPromote
<1>. QED  BY <1>1, <1>3, LoadsStep DEF Promote

\* A write over a file leaves it absent, broken or with the records written.
LEMMA OverSound ==
    ASSUME NEW P, NEW S, NEW content, NEW recs, Sound(recs, P, S), NEW f \in Over(content, recs)
    PROVE  f \in RegistryFiles /\ Sound(f.records, P, S)
<1>1. recs \in RecordSets  BY DEF Sound
<1>2. f = Holds(recs) \/ f = Broken  BY DEF Over
<1>. QED  BY <1>1, <1>2, FileTypes, NoRecordsSound

\* A write puts one sound set in the place of another.
LEMMA WriteStep ==
    ASSUME RegistryInv, NEW c \in Commands, Write(c) PROVE RegistryInv'
<1>. USE DEF RegistryInv
<1>1. records' \in [Commands -> RecordSets]
      /\ \A d \in Commands : Sound(records'[d], passing', survivedPaper')
  BY NoRecordsSound DEF Write, RegistryTypeOK, Sound
<1>2. /\ index' \in RegistryFiles /\ Sound(index'.records, passing', survivedPaper')
      /\ draft' \in RegistryFiles /\ Sound(draft'.records, passing', survivedPaper')
  <2>1. index \in RegistryFiles /\ draft \in RegistryFiles  BY DEF RegistryTypeOK, RegistryFiles
  <2>2. CASE draft' \in Over(draft, records[c]) /\ UNCHANGED index
    BY <2>1, <2>2, OverSound DEF Write
  <2>3. CASE index' \in Over(index, records[c]) /\ UNCHANGED draft
    BY <2>1, <2>3, OverSound DEF Write
  <2>4. CASE UNCHANGED <<index, draft>>  BY <2>1, <2>4 DEF Write
  <2>. QED  BY <2>2, <2>3, <2>4 DEF Write
<1>3. RegistryTypeOK'  BY <1>1, <1>2 DEF Write, RegistryTypeOK, RegistryFiles
<1>. QED  BY <1>1, <1>2, <1>3

\* No step of a command leaves an unsound set behind.
LEMMA RegistryInvStep == RegistryInv /\ [RegistryNext]_registryVars => RegistryInv'
<1>. SUFFICES ASSUME RegistryInv, [RegistryNext]_registryVars PROVE RegistryInv'
  OBVIOUS
<1>1. CASE UNCHANGED registryVars
  BY <1>1 DEF RegistryInv, RegistryTypeOK, registryVars, Sound, RecordSets
<1>2. ASSUME NEW c \in Commands, NEW m \in Models, Register(c, m) PROVE RegistryInv'
  BY <1>2, RegisterStep
<1>3. ASSUME NEW c \in Commands, NEW m \in Models, NEW status \in Statuses, Promote(c, m, status)
      PROVE  RegistryInv'
  BY <1>3, PromoteStep
<1>4. ASSUME NEW c \in Commands, Truncate(c) PROVE RegistryInv'
  <2>1. RegistryTypeOK'
    BY <1>4, FileTypes DEF RegistryInv, RegistryTypeOK, Truncate, RegistryFiles
  <2>. QED  BY <1>4, <2>1, FileTypes, NoRecordsSound DEF RegistryInv, Truncate
<1>5. ASSUME NEW c \in Commands, Write(c) PROVE RegistryInv'
  BY <1>5, WriteStep
<1>6. ASSUME NEW c \in Commands, Replace(c) PROVE RegistryInv'
  <2>1. target' \in [Commands -> {"none", "draft", "index"}]
    BY <1>6 DEF RegistryInv, RegistryTypeOK, Replace, Handles
  <2>2. /\ index' \in RegistryFiles /\ draft' \in RegistryFiles
        /\ Sound(index'.records, passing', survivedPaper')
        /\ Sound(draft'.records, passing', survivedPaper')
    BY <1>6, FileTypes, NoRecordsSound DEF RegistryInv, RegistryTypeOK, Replace, RegistryFiles
  <2>3. RegistryTypeOK'
    BY <1>6, <2>1, <2>2 DEF RegistryInv, RegistryTypeOK, Replace, RegistryFiles
  <2>. QED  BY <1>6, <2>2, <2>3 DEF RegistryInv, Replace
<1>7. ASSUME NEW c \in Commands, Crash(c) PROVE RegistryInv'
  <2>1. RegistryTypeOK'
    BY <1>7, NoRecordsSound DEF RegistryInv, RegistryTypeOK, Crash, Sound
  <2>. QED  BY <1>7, <2>1, NoRecordsSound DEF RegistryInv, RegistryTypeOK, Crash
<1>. QED  BY <1>1, <1>2, <1>3, <1>4, <1>5, <1>6, <1>7 DEF RegistryNext

\* What the commands of the research CLI keep in files and memory is sound, always.
THEOREM RegistryInvariant == RegistrySpec => []RegistryInv
BY RegistryInvInit, RegistryInvStep, PTL DEF RegistrySpec

\* A model earns live capital: every model a readable index shows as ACTIVE passed its
\* walk-forward and was in PAPER before, and no family has two.
THEOREM LiveModelsAreEarned == RegistrySpec => []ActiveIsEarned
<1>1. RegistryInv => ActiveIsEarned
  BY DEF RegistryInv, Sound, ActiveIsEarned
<1>. QED  BY <1>1, RegistryInvariant, PTL

-----------------------------------------------------------------------------
(* Market data *)

\* A series: bars at finitely many times.
Series(series) ==
    /\ DOMAIN series \subseteq Int /\ IsFiniteSet(DOMAIN series)
    /\ \A t \in DOMAIN series : series[t] \in Bars

Later(series, t) == {u \in DOMAIN series : u > t}

\* Trimming keeps series as they are, and no more than may be kept.
LEMMA TrimmedProperties ==
    ASSUME NEW series, Series(series)
    PROVE  /\ Series(Trimmed(series)) /\ DOMAIN Trimmed(series) \subseteq DOMAIN series
           /\ \A t \in DOMAIN Trimmed(series) : Trimmed(series)[t] = series[t]
           /\ Cardinality(DOMAIN Trimmed(series)) <= MaxBars
<1>. DEFINE kept == {t \in DOMAIN series : Cardinality({u \in DOMAIN series : u > t}) < MaxBars}
<1>1. Trimmed(series) = [t \in kept |-> series[t]]  BY DEF Trimmed
<1>2. DOMAIN Trimmed(series) = kept /\ kept \subseteq DOMAIN series
      /\ \A t \in kept : Trimmed(series)[t] = series[t] /\ Cardinality(Later(series, t)) < MaxBars
  BY <1>1 DEF Later
<1>. HIDE DEF kept
<1>3. IsFiniteSet(kept) /\ Cardinality(kept) \in Nat
  BY <1>2, FS_Subset, FS_CardinalityType DEF Series
<1>4. Series(Trimmed(series))  BY <1>2, <1>3 DEF Series
<1>5. Cardinality(kept) <= MaxBars
  <2>1. MaxBars \in Nat  BY MarketDataAssumption
  <2>2. CASE kept = {}  BY <2>1, <2>2, FS_EmptySet
  <2>3. CASE kept # {}
    <3>1. kept \subseteq Int  BY <1>2 DEF Series
    <3>2. PICK m \in kept : \A x \in kept : m <= x  BY <1>3, <2>3, <3>1, FiniteExtremes
    <3>3. \A x \in kept \ {m} : x > m  BY <3>1, <3>2
    <3>4. kept \ {m} \subseteq Later(series, m)  BY <1>2, <3>3 DEF Later
    <3>5. IsFiniteSet(Later(series, m))
      <4>1. Later(series, m) \subseteq DOMAIN series  BY DEF Later
      <4>. QED  BY <4>1, FS_Subset DEF Series
    <3>6. Cardinality(kept \ {m}) <= Cardinality(Later(series, m))
          /\ Cardinality(Later(series, m)) \in Nat
      BY <3>4, <3>5, FS_Subset, FS_CardinalityType
    <3>7. Cardinality(kept \ {m}) = Cardinality(kept) - 1  BY <1>3, <3>2, FS_RemoveElement
    <3>8. Cardinality(Later(series, m)) < MaxBars  BY <1>2, <3>2
    <3>. QED  BY <1>3, <2>1, <3>6, <3>7, <3>8
  <2>. QED  BY <2>2, <2>3
<1>. QED  BY <1>2, <1>4, <1>5

\* A derived bar has parts, a first and a last one among them.
LEMMA GroupProperties ==
    ASSUME NEW series, Series(series), NEW label \in {Label(t) : t \in DOMAIN series}
    PROVE  LET group == Group(series, label) IN
           /\ group \subseteq DOMAIN series /\ group \subseteq Int
           /\ IsFiniteSet(group) /\ group # {}
           /\ Max(group) \in group /\ Min(group) \in group
<1>1. Group(series, label) \subseteq DOMAIN series /\ Group(series, label) # {}  BY DEF Group
<1>2. Group(series, label) \subseteq Int /\ IsFiniteSet(Group(series, label))
  BY <1>1, FS_Subset DEF Series
<1>. QED  BY <1>1, <1>2, ExtremesOf

\* A derived bar is a bar.
LEMMA ResampleProperties ==
    ASSUME NEW series, Series(series)
    PROVE  \A label \in DOMAIN Resample(series) :
             /\ Resample(series)[label] \in Bars
             /\ label \in {Label(t) : t \in DOMAIN series}
             /\ Resample(series)[label].close = series[Max(Group(series, label))].close
<1>. SUFFICES ASSUME NEW label \in DOMAIN Resample(series)
              PROVE  /\ Resample(series)[label] \in Bars
                     /\ label \in {Label(t) : t \in DOMAIN series}
                     /\ Resample(series)[label].close = series[Max(Group(series, label))].close
  OBVIOUS
<1>. DEFINE group == Group(series, label)
            highs == [t \in group |-> series[t].high]
            lows == [t \in group |-> series[t].low]
<1>1. label \in {Label(t) : t \in DOMAIN series}  BY DEF Resample
<1>2. /\ group \subseteq DOMAIN series /\ IsFiniteSet(group) /\ group # {}
      /\ Max(group) \in group /\ Min(group) \in group
  BY <1>1, GroupProperties
<1>. HIDE DEF group
<1>3. \A t \in group : /\ series[t].open \in Prices /\ series[t].high \in Prices
                       /\ series[t].low \in Prices /\ series[t].close \in Prices
  BY <1>2 DEF Series, Bars
<1>4. Prices \subseteq Int  BY MarketDataAssumption
<1>5. Max({series[t].high : t \in group}) \in Prices
  <2>1. {series[t].high : t \in group} = {highs[t] : t \in group}  OBVIOUS
  <2>2. IsFiniteSet({highs[t] : t \in group})  BY <1>2, ValuesAreFinite
  <2>3. {series[t].high : t \in group} \subseteq Prices /\ {series[t].high : t \in group} # {}
    BY <1>2, <1>3
  <2>4. Max({series[t].high : t \in group}) \in {series[t].high : t \in group}
    BY <1>4, <2>1, <2>2, <2>3, ExtremesOf
  <2>. QED  BY <2>3, <2>4
<1>6. Min({series[t].low : t \in group}) \in Prices
  <2>1. {series[t].low : t \in group} = {lows[t] : t \in group}  OBVIOUS
  <2>2. IsFiniteSet({lows[t] : t \in group})  BY <1>2, ValuesAreFinite
  <2>3. {series[t].low : t \in group} \subseteq Prices /\ {series[t].low : t \in group} # {}
    BY <1>2, <1>3
  <2>4. Min({series[t].low : t \in group}) \in {series[t].low : t \in group}
    BY <1>4, <2>1, <2>2, <2>3, ExtremesOf
  <2>. QED  BY <2>3, <2>4
<1>7. Resample(series)[label] =
        [open |-> series[Min(group)].open, close |-> series[Max(group)].close,
         high |-> Max({series[t].high : t \in group}), low |-> Min({series[t].low : t \in group})]
  BY <1>1 DEF Resample, group
<1>8. Resample(series)[label].close = series[Max(group)].close  BY <1>7
<1>9. Resample(series)[label] \in Bars  BY <1>2, <1>3, <1>5, <1>6, <1>7 DEF Bars
<1>. QED  BY <1>1, <1>8, <1>9 DEF group

-----------------------------------------------------------------------------
(* Time. *)

\* A time lies in its day.
LEMMA DayProperties ==
    ASSUME NEW t \in Int
    PROVE  /\ Day(t) \in Int /\ Day(t) * BarsPerDay \in Int
           /\ Day(t) * BarsPerDay <= t /\ t < Day(t) * BarsPerDay + BarsPerDay
<1>1. PICK D \in Nat \ {0} : D = BarsPerDay  BY MarketDataAssumption
<1>2. PICK q \in Int : q = t \div D  OBVIOUS
<1>3. q * D <= t /\ t < q * D + D /\ q * D \in Int  BY <1>2
<1>. QED  BY <1>1, <1>2, <1>3 DEF Day

\* Days come in the order of their times.
LEMMA DayGrows ==
    ASSUME NEW s \in Int, NEW t \in Int, s <= t
    PROVE  Day(s) <= Day(t)
<1>1. PICK D \in Nat \ {0} : D = BarsPerDay  BY MarketDataAssumption
<1>2. PICK p \in Int, q \in Int : p = Day(s) /\ q = Day(t)  BY DayProperties
<1>3. p * D <= s /\ t < q * D + D  BY <1>1, <1>2, DayProperties
<1>4. SUFFICES ASSUME q + 1 <= p PROVE FALSE  BY <1>2
<1>5. PICK k \in Nat : p = q + 1 + k
  <2>1. p - (q + 1) \in Nat /\ p = q + 1 + (p - (q + 1))  BY <1>4
  <2>. QED  BY <2>1
<1>6. p * D = q * D + D + k * D /\ k * D >= 0 /\ q * D \in Int /\ k * D \in Int  BY <1>5
<1>. QED  BY <1>3, <1>6

\* A bar of one period starts when it is.
LEMMA BaseBarStart ==
    ASSUME NEW t \in Int
    PROVE  BarStart(t, 1) = t
<1>1. PICK o \in Int, D \in Nat : o = OpenOf(t) /\ D = BarsPerDay
  BY DayProperties, MarketDataAssumption DEF OpenOf
<1>2. PICK a \in Int : a = IF t < OpenOf(t) THEN OpenOf(t) - BarsPerDay ELSE OpenOf(t)
  BY <1>1
<1>3. BarStart(t, 1) = a + ((t - a) \div 1) * 1  BY <1>2 DEF BarStart
<1>4. (t - a) \div 1 = t - a  OBVIOUS
<1>. QED  BY <1>3, <1>4

\* The session opens on the grid of the coarse series, counted from midnight.
OpensOnGrid == BarsPerDay % Coarse = 0 /\ Open % Coarse = 0

OnGrid(x) == \E q \in Int : x = Coarse * q

\* Two bars of the grid are a bar apart.
LEMMA GridSteps ==
    ASSUME NEW x \in Int, NEW y \in Int, OnGrid(x), OnGrid(y), x < y
    PROVE  x + Coarse <= y
<1>1. PICK K \in Nat \ {0}, p \in Int, q \in Int : K = Coarse /\ x = K * p /\ y = K * q
  BY MarketDataAssumption DEF OnGrid
<1>2. p < q
  <2>1. SUFFICES ASSUME q <= p PROVE FALSE  BY <1>1
  <2>2. PICK k \in Nat : p = q + k
    <3>1. p - q \in Nat /\ p = q + (p - q)  BY <2>1
    <3>. QED  BY <3>1
  <2>3. K * p = K * q + K * k /\ K * k >= 0 /\ K * q \in Int /\ K * k \in Int  BY <2>2
  <2>. QED  BY <1>1, <2>3
<1>3. PICK k \in Nat : q = p + 1 + k
  <2>1. q - (p + 1) \in Nat /\ q = p + 1 + (q - (p + 1))  BY <1>2
  <2>. QED  BY <2>1
<1>4. K * q = K * p + K + K * k /\ K * k >= 0 /\ K * p \in Int /\ K * k \in Int  BY <1>3
<1>. QED  BY <1>1, <1>4

\* On that grid a derived bar and the bar of the clock are counted alike.
LEMMA LabelOnGrid ==
    ASSUME OpensOnGrid, NEW t \in Int
    PROVE  OnGrid(Label(t)) /\ Label(t) \in Int /\ Label(t) <= t /\ t < Label(t) + Coarse
<1>1. PICK K \in Nat \ {0}, D \in Nat \ {0} : K = Coarse /\ D = BarsPerDay /\ D % K = 0
  BY MarketDataAssumption DEF OpensOnGrid
<1>2. PICK e \in Int : D = K * e
  <2>1. D = K * (D \div K) + (D % K) /\ D \div K \in Int  OBVIOUS
  <2>2. D = K * (D \div K)  BY <1>1, <2>1
  <2>. QED  BY <2>1, <2>2
<1>3. PICK a \in Int, r \in 0..(D - 1) : t = D * a + r /\ r = t % D
  <2>1. t = D * (t \div D) + (t % D) /\ t \div D \in Int /\ t % D \in 0..(D - 1)  OBVIOUS
  <2>. QED  BY <2>1
<1>4. PICK b \in Int, s \in 0..(K - 1) : r = K * b + s /\ s = r % K
  <2>1. r = K * (r \div K) + (r % K) /\ r \div K \in Int /\ r % K \in 0..(K - 1)  OBVIOUS
  <2>. QED  BY <2>1
<1>5. Label(t) = t - s  BY <1>1, <1>3, <1>4 DEF Label
<1>6. K * b \in Int /\ K * e * a \in Int /\ D * a = K * e * a  BY <1>2
<1>7. t - s = K * e * a + K * b
  <2>1. PICK u \in Int, v \in Int : u = D * a /\ v = K * b  OBVIOUS
  <2>2. t = u + r /\ r = v + s  BY <1>3, <1>4, <2>1
  <2>3. t - s = u + v  BY <2>2
  <2>. QED  BY <1>6, <2>1, <2>3
<1>8. K * e * a + K * b = K * (e * a + b) /\ e * a + b \in Int
  <2>1. PICK ea \in Int : ea = e * a  OBVIOUS
  <2>2. K * e * a = K * ea  BY <2>1
  <2>3. K * ea + K * b = K * (ea + b)  OBVIOUS
  <2>. QED  BY <2>1, <2>2, <2>3
<1>9. OnGrid(Label(t))  BY <1>1, <1>5, <1>7, <1>8 DEF OnGrid
<1>10. t - s \in Int /\ t - s <= t /\ t < t - s + K  OBVIOUS
<1>. QED  BY <1>1, <1>5, <1>9, <1>10

\* So is the bar of the clock, counted from the open.
LEMMA BarStartOnGrid ==
    ASSUME OpensOnGrid, NEW t \in Int
    PROVE  /\ OnGrid(BarStart(t, Coarse)) /\ BarStart(t, Coarse) \in Int
           /\ BarStart(t, Coarse) <= t /\ t < BarStart(t, Coarse) + Coarse
<1>1. PICK K \in Nat \ {0}, D \in Nat \ {0}, O \in Nat :
           K = Coarse /\ D = BarsPerDay /\ O = Open /\ D % K = 0 /\ O % K = 0
  BY MarketDataAssumption DEF OpensOnGrid
<1>2. PICK e \in Int, f \in Int : D = K * e /\ O = K * f
  <2>1. D = K * (D \div K) + (D % K) /\ D \div K \in Int  OBVIOUS
  <2>2. O = K * (O \div K) + (O % K) /\ O \div K \in Int  OBVIOUS
  <2>3. D = K * (D \div K) /\ O = K * (O \div K)  BY <1>1, <2>1, <2>2
  <2>. QED  BY <2>1, <2>2, <2>3
<1>3. PICK d \in Int : d = Day(t)  BY DayProperties
<1>4. PICK a \in Int, m \in Int :
           a = (IF t < OpenOf(t) THEN OpenOf(t) - BarsPerDay ELSE OpenOf(t)) /\ a = K * m
  <2>1. OpenOf(t) = d * D + O  BY <1>1, <1>3 DEF OpenOf
  <2>2. d * D = K * (d * e) /\ d * e \in Int
    <3>1. PICK de \in Int : de = d * e  OBVIOUS
    <3>2. d * D = K * de  BY <1>2, <3>1
    <3>. QED  BY <3>1, <3>2
  <2>3. PICK de \in Int : de = d * e  BY <2>2
  <2>4. K * de + K * f = K * (de + f) /\ K * de + K * f - K * e = K * (de + f - e)  OBVIOUS
  <2>5. OpenOf(t) = K * (de + f) /\ OpenOf(t) - D = K * (de + f - e)
    <3>1. OpenOf(t) = K * de + K * f  BY <1>2, <2>1, <2>2, <2>3
    <3>2. OpenOf(t) - D = K * de + K * f - K * e  BY <1>2, <3>1
    <3>. QED  BY <2>4, <3>1, <3>2
  <2>6. CASE t < OpenOf(t)
    <3>1. K * (de + f - e) \in Int /\ de + f - e \in Int  OBVIOUS
    <3>. QED  BY <1>1, <2>5, <2>6, <3>1
  <2>7. CASE ~(t < OpenOf(t))
    <3>1. K * (de + f) \in Int /\ de + f \in Int  OBVIOUS
    <3>. QED  BY <1>1, <2>5, <2>7, <3>1
  <2>. QED  BY <2>6, <2>7
<1>5. PICK n \in Int : n = (t - a) \div K  OBVIOUS
<1>6. n * K <= t - a /\ t - a < n * K + K /\ n * K \in Int  BY <1>5, t - a \in Int
<1>7. BarStart(t, Coarse) = a + n * K  BY <1>1, <1>4, <1>5 DEF BarStart
<1>8. a + n * K = K * (m + n) /\ m + n \in Int  BY <1>4
<1>9. OnGrid(BarStart(t, Coarse))  BY <1>1, <1>7, <1>8 DEF OnGrid
<1>10. a + n * K \in Int /\ a + n * K <= t /\ t < a + n * K + K  BY <1>6
<1>. QED  BY <1>1, <1>7, <1>9, <1>10

\* The bar of the clock only moves on.
LEMMA BarStartGrows ==
    ASSUME OpensOnGrid, NEW s \in Int, NEW t \in Int, s <= t
    PROVE  BarStart(s, Coarse) <= BarStart(t, Coarse)
<1>1. PICK x \in Int, y \in Int : x = BarStart(s, Coarse) /\ y = BarStart(t, Coarse)
  BY BarStartOnGrid
<1>2. OnGrid(x) /\ OnGrid(y) /\ x <= s /\ t < y + Coarse  BY <1>1, BarStartOnGrid
<1>3. Coarse \in Int  BY MarketDataAssumption
<1>4. SUFFICES ASSUME y < x PROVE FALSE  BY <1>1
<1>5. y + Coarse <= x  BY <1>2, <1>4, GridSteps
<1>. QED  BY <1>2, <1>3, <1>5

-----------------------------------------------------------------------------
MarketDataInv ==
    /\ MarketDataTypeOK
    /\ identical <= answered /\ failures <= answered + 1
    /\ Series(base)
    /\ ~dirty => coarse = Resample(base)

\* The store starts empty.
LEMMA MarketDataInvInit == MarketDataInit => MarketDataInv
<1>. SUFFICES ASSUME MarketDataInit PROVE MarketDataInv  OBVIOUS
<1>1. /\ FirstTime \in Nat /\ LastClock \in Nat /\ MaxAge \in Nat /\ MaxSkew \in Nat
      /\ MaxQuotes \in Nat /\ MaxBars \in Nat /\ FirstTime <= LastClock
  BY MarketDataAssumption DEF DataQualityConfig
<1>2. /\ clock = FirstTime /\ session = -1 /\ lastPrice = Nothing /\ lastStamp = 0
      /\ identical = 0 /\ failures = 0 /\ base = NoBars /\ coarse = NoBars /\ dirty = TRUE
      /\ answered = 0
  BY DEF MarketDataInit
<1>3. DOMAIN base = {} /\ DOMAIN coarse = {}  BY <1>2 DEF NoBars
<1>4. IsFiniteSet({}) /\ Cardinality({}) = 0  BY FS_EmptySet
<1>5. Series(base)  BY <1>3, <1>4 DEF Series
<1>6. session \in -1..Day(LastClock)
  <2>1. Day(0) <= Day(LastClock)  BY <1>1, DayGrows
  <2>2. PICK d \in Int, z \in Int : d = Day(LastClock) /\ z = Day(0)  BY <1>1, DayProperties
  <2>3. z >= 0
    <3>1. PICK D \in Nat \ {0} : D = BarsPerDay  BY MarketDataAssumption
    <3>2. z = 0 \div D  BY <2>2, <3>1 DEF Day
    <3>. QED  BY <3>2
  <2>. QED  BY <1>2, <2>1, <2>2, <2>3
<1>7. clock \in FirstTime..LastClock /\ lastStamp \in (-MaxAge - 1)..(LastClock + MaxSkew + 1)
  BY <1>1, <1>2
<1>8. {identical, failures} \subseteq 0..(MaxQuotes + 1) /\ answered \in 0..MaxQuotes
  BY <1>1, <1>2
<1>9. Cardinality(DOMAIN base) <= MaxBars  BY <1>1, <1>3, <1>4
<1>10. MarketDataTypeOK  BY <1>2, <1>3, <1>6, <1>7, <1>8, <1>9 DEF MarketDataTypeOK
<1>. QED  BY <1>1, <1>2, <1>5, <1>10 DEF MarketDataInv

\* A tick leaves every bar but its own as it was, unless it is trimmed away.
LEMMA FoldProperties ==
    ASSUME NEW series, Series(series), NEW q, q.stamp \in Int, q.price \in Prices
    PROVE  /\ Series(Fold(series, q)) /\ Cardinality(DOMAIN Fold(series, q)) <= MaxBars
           /\ DOMAIN Fold(series, q) \subseteq DOMAIN series \union {q.stamp}
           /\ \A t \in DOMAIN Fold(series, q) : t # q.stamp => Fold(series, q)[t] = series[t]
<1>. DEFINE start == BarStart(q.stamp, 1)
            folded(bar) == [bar EXCEPT !.high = Max({@, q.price}), !.low = Min({@, q.price}),
                                       !.close = q.price]
            more == [t \in DOMAIN series \union {start} |->
                       IF t # start THEN series[t]
                       ELSE IF start \in DOMAIN series THEN folded(series[start]) ELSE Bar(q.price)]
<1>1. start = q.stamp  BY BaseBarStart
<1>2. Fold(series, q) = Trimmed(more)  BY DEF Fold
<1>3. Bar(q.price) \in Bars  BY DEF Bar, Bars
<1>4. ASSUME NEW bar \in Bars
      PROVE  folded(bar) \in Bars
  <2>1. bar.high \in Prices /\ bar.low \in Prices /\ Prices \subseteq Int
    BY MarketDataAssumption DEF Bars
  <2>2. ASSUME NEW x \in Prices
        PROVE  Max({x, q.price}) \in Prices /\ Min({x, q.price}) \in Prices
    <3>1. {x, q.price} \subseteq Int /\ {x, q.price} # {}  BY <2>1
    <3>2. IsFiniteSet({x, q.price})
      <4>1. IsFiniteSet({x})  BY FS_Singleton
      <4>2. IsFiniteSet({x} \union {q.price})  BY <4>1, FS_AddElement
      <4>3. {x, q.price} = {x} \union {q.price}  OBVIOUS
      <4>. QED  BY <4>2, <4>3
    <3>3. Max({x, q.price}) \in {x, q.price} /\ Min({x, q.price}) \in {x, q.price}
      BY <3>1, <3>2, ExtremesOf
    <3>. QED  BY <3>3
  <2>3. PICK h \in Prices, l \in Prices :
             h = Max({bar.high, q.price}) /\ l = Min({bar.low, q.price})
    BY <2>1, <2>2
  <2>4. folded(bar) = [bar EXCEPT !.high = h, !.low = l, !.close = q.price]  BY <2>3
  <2>5. [bar EXCEPT !.high = h, !.low = l, !.close = q.price]
          = [[[bar EXCEPT !.high = h] EXCEPT !.low = l] EXCEPT !.close = q.price]
    OBVIOUS
  <2>6. [bar EXCEPT !.high = h] \in Bars  BY DEF Bars
  <2>7. ASSUME NEW b \in Bars PROVE [b EXCEPT !.low = l] \in Bars  BY DEF Bars
  <2>8. ASSUME NEW b \in Bars PROVE [b EXCEPT !.close = q.price] \in Bars  BY DEF Bars
  <2>. HIDE DEF folded
  <2>. QED  BY <2>4, <2>5, <2>6, <2>7, <2>8
<1>. HIDE DEF start, folded
<1>5. DOMAIN more = DOMAIN series \union {q.stamp}
      /\ \A t \in DOMAIN series : t # q.stamp => more[t] = series[t]
  BY <1>1
<1>6. \A t \in DOMAIN more : more[t] \in Bars
  <2>1. \A t \in DOMAIN series : series[t] \in Bars  BY DEF Series
  <2>2. start \in DOMAIN series => folded(series[start]) \in Bars  BY <1>4, <2>1
  <2>. QED  BY <1>3, <2>1, <2>2
<1>. HIDE DEF more
<1>7. IsFiniteSet(DOMAIN more) /\ DOMAIN more \subseteq Int
  BY <1>5, FS_AddElement DEF Series
<1>8. Series(more)  BY <1>6, <1>7 DEF Series
<1>. QED  BY <1>2, <1>5, <1>8, TrimmedProperties

\* No step leaves the store with a bar that is none, or derived bars that are not of its own.
LEMMA MarketDataInvStep ==
    ASSUME MarketDataInv, [MarketDataNext]_marketDataVars
    PROVE  MarketDataInv'
<1>0. /\ FirstTime \in Nat /\ LastClock \in Nat /\ MaxAge \in Nat /\ MaxSkew \in Nat
      /\ MaxQuotes \in Nat /\ MaxBars \in Nat
  BY MarketDataAssumption DEF DataQualityConfig
<1>1. /\ clock \in FirstTime..LastClock /\ session \in -1..Day(LastClock)
      /\ lastPrice \in Prices \union {Nothing}
      /\ lastStamp \in (-MaxAge - 1)..(LastClock + MaxSkew + 1)
      /\ identical \in Nat /\ failures \in Nat /\ answered \in 0..MaxQuotes
      /\ identical <= answered /\ failures <= answered + 1
      /\ Series(base) /\ Cardinality(DOMAIN base) <= MaxBars
      /\ \A t \in DOMAIN coarse : coarse[t] \in Bars
      /\ dirty \in BOOLEAN /\ (~dirty => coarse = Resample(base))
  BY DEF MarketDataInv, MarketDataTypeOK
<1>2. ASSUME clock' \in FirstTime..LastClock, session' \in -1..Day(LastClock),
             lastPrice' \in Prices \union {Nothing},
             lastStamp' \in (-MaxAge - 1)..(LastClock + MaxSkew + 1),
             identical' \in Nat, failures' \in Nat, answered' \in 0..MaxQuotes,
             identical' <= answered', failures' <= answered' + 1,
             Series(base'), Cardinality(DOMAIN base') <= MaxBars,
             \A t \in DOMAIN coarse' : coarse'[t] \in Bars,
             dirty' \in BOOLEAN, ~dirty' => coarse' = Resample(base')
      PROVE  MarketDataInv'
  <2>1. {identical', failures'} \subseteq 0..(MaxQuotes + 1)
    <3>1. PICK x \in Nat, y \in Nat, z \in 0..MaxQuotes :
               x = identical' /\ y = failures' /\ z = answered'
      BY <1>2
    <3>2. x <= z /\ y <= z + 1  BY <1>2, <3>1
    <3>3. x \in 0..(MaxQuotes + 1) /\ y \in 0..(MaxQuotes + 1)  BY <1>0, <3>2
    <3>. QED  BY <3>1, <3>3
  <2>2. MarketDataTypeOK'  BY <1>2, <2>1 DEF MarketDataTypeOK, Series
  <2>3. Series(base)'  BY <1>2 DEF Series
  <2>4. (~dirty => coarse = Resample(base))'  BY <1>2 DEF Resample, Group
  <2>. QED  BY <1>2, <2>2, <2>3, <2>4 DEF MarketDataInv
<1>3. CASE ClockAdvances
  <2>1. clock' \in FirstTime..LastClock  BY <1>0, <1>1, <1>3 DEF ClockAdvances
  <2>. QED  BY <1>1, <1>2, <1>3, <2>1 DEF ClockAdvances, memory
<1>4. CASE WarmUp
  <2>1. PICK until \in {clock, clock + 1}, p \in Prices :
             base' = Trimmed([t \in {t \in 0..(until - 1) : InSession(t)} |-> Bar(p)])
             /\ coarse' = Resample(base')
    BY <1>4 DEF WarmUp
  <2>. DEFINE history == [t \in {t \in 0..(until - 1) : InSession(t)} |-> Bar(p)]
  <2>2. Series(history)
    <3>1. DOMAIN history \subseteq 0..(until - 1)  OBVIOUS
    <3>2. IsFiniteSet(0..(until - 1)) /\ 0..(until - 1) \subseteq Int
      <4>1. until - 1 \in Int  BY <1>0, <1>1
      <4>. QED  BY <4>1, FS_Interval
    <3>3. Bar(p) \in Bars  BY DEF Bar, Bars
    <3>4. \A t \in DOMAIN history : history[t] = Bar(p)  OBVIOUS
    <3>. HIDE DEF history
    <3>. QED  BY <3>1, <3>2, <3>3, <3>4, FS_Subset DEF Series
  <2>. HIDE DEF history
  <2>3. Series(base') /\ Cardinality(DOMAIN base') <= MaxBars
    BY <2>1, <2>2, TrimmedProperties DEF history
  <2>4. \A t \in DOMAIN coarse' : coarse'[t] \in Bars  BY <2>1, <2>3, ResampleProperties
  <2>. QED  BY <1>1, <1>2, <1>4, <2>1, <2>3, <2>4 DEF WarmUp, memory
<1>5. CASE WarmUpFails
  <2>1. failures' \in Nat /\ failures' <= answered + 1  BY <1>1, <1>5 DEF WarmUpFails
  <2>. QED  BY <1>1, <1>2, <1>5, <2>1 DEF WarmUpFails
<1>6. CASE NewSession
  <2>1. session' \in -1..Day(LastClock)
    <3>1. clock \in Int /\ LastClock \in Int /\ clock <= LastClock  BY <1>0, <1>1
    <3>2. PICK d \in Int, e \in Int, z \in Int : d = Day(clock) /\ e = Day(LastClock) /\ z = Day(0)
      <4>1. Day(clock) \in Int /\ Day(LastClock) \in Int  BY <3>1, DayProperties
      <4>2. Day(0) \in Int
        <5>1. 0 \in Int  OBVIOUS
        <5>. QED  BY <5>1, DayProperties
      <4>. QED  BY <4>1, <4>2
    <3>3. d <= e  BY <3>1, <3>2, DayGrows
    <3>4. z <= d
      <4>1. 0 <= clock  BY <1>0, <1>1
      <4>. QED  BY <3>1, <3>2, <4>1, DayGrows
    <3>5. z = 0
      <4>1. PICK D \in Nat \ {0} : D = BarsPerDay  BY MarketDataAssumption
      <4>2. z = 0 \div D  BY <3>2, <4>1 DEF Day
      <4>. QED  BY <4>2
    <3>6. session' = d  BY <1>6, <3>2 DEF NewSession
    <3>. QED  BY <3>2, <3>3, <3>4, <3>5, <3>6
  <2>2. lastPrice' = Nothing /\ lastStamp' = 0 /\ identical' = 0 /\ failures' = 0
        /\ UNCHANGED <<clock, base, coarse, dirty, answered>>
    BY <1>6 DEF NewSession
  <2>3. lastStamp' \in (-MaxAge - 1)..(LastClock + MaxSkew + 1)  BY <1>0, <2>2
  <2>4. identical' <= answered' /\ failures' <= answered' + 1  BY <1>1, <2>2
  <2>5. identical' \in Nat /\ failures' \in Nat  BY <2>2
  <2>. QED  BY <1>1, <1>2, <2>1, <2>2, <2>3, <2>4, <2>5
<1>7. CASE Ingest
  <2>1. answered' \in 0..MaxQuotes /\ answered' = answered + 1
        /\ UNCHANGED <<clock, session, coarse>>
    BY <1>0, <1>1, <1>7 DEF Ingest, Scanning
  <2>2. PICK q \in Quotes :
             /\ Remember(q)
             /\ IF ValidQuote(q) THEN base' = Fold(base, q) /\ dirty' = TRUE
                ELSE UNCHANGED <<base, dirty>>
    BY <1>7 DEF Ingest
  <2>3. q.price \in Prices /\ q.stamp \in (clock - MaxAge - 1)..(clock + MaxSkew + 1)
    BY <2>2 DEF Quotes
  <2>4. q.stamp \in Int /\ q.stamp \in (-MaxAge - 1)..(LastClock + MaxSkew + 1)
    <3>1. PICK x \in Int : x = q.stamp /\ clock - MaxAge - 1 <= x /\ x <= clock + MaxSkew + 1
      BY <1>0, <1>1, <2>3
    <3>. QED  BY <1>0, <1>1, <3>1
  <2>5. /\ identical' \in Nat /\ failures' \in Nat
        /\ identical' <= answered' /\ failures' <= answered' + 1
    <3>1. identical' = identical + 1 \/ identical' = 0  BY <2>2 DEF Remember
    <3>2. failures' = failures + 1 \/ failures' = 0  BY <2>2 DEF Remember
    <3>3. PICK x \in Nat, y \in Nat, z \in Nat : x = identical /\ y = failures /\ z = answered
      BY <1>0, <1>1
    <3>4. x <= z /\ y <= z + 1 /\ answered' = z + 1
          /\ (identical' = x + 1 \/ identical' = 0) /\ (failures' = y + 1 \/ failures' = 0)
      BY <1>1, <2>1, <3>1, <3>2, <3>3
    <3>5. (identical' = x + 1 \/ identical' = 0) /\ (failures' = y + 1 \/ failures' = 0)
          /\ answered' = z + 1
      BY <3>4
    <3>6. x + 1 \in Nat /\ y + 1 \in Nat /\ x + 1 <= z + 1 /\ y + 1 <= z + 1 + 1
          /\ 0 <= z + 1 /\ 0 <= z + 1 + 1
      BY <3>4
    <3>. QED  BY <3>5, <3>6
  <2>6. /\ lastPrice' \in Prices \union {Nothing}
        /\ lastStamp' \in (-MaxAge - 1)..(LastClock + MaxSkew + 1)
    <3>1. (lastPrice' = lastPrice /\ lastStamp' = lastStamp)
          \/ (lastPrice' = q.price /\ lastStamp' = q.stamp)
      BY <2>2 DEF Remember
    <3>. QED  BY <1>1, <2>3, <2>4, <3>1
  <2>7. Series(base') /\ Cardinality(DOMAIN base') <= MaxBars
        /\ dirty' \in BOOLEAN /\ (~dirty' => coarse' = Resample(base'))
    <3>1. CASE ValidQuote(q)
      <4>1. base' = Fold(base, q) /\ dirty' = TRUE  BY <2>2, <3>1
      <4>. QED  BY <1>1, <2>3, <2>4, <4>1, FoldProperties
    <3>2. CASE ~ValidQuote(q)
      <4>1. base' = base /\ dirty' = dirty /\ coarse' = coarse  BY <2>1, <2>2, <3>2
      <4>. QED  BY <1>1, <4>1
    <3>. QED  BY <3>1, <3>2
  <2>. QED  BY <1>1, <1>2, <2>1, <2>5, <2>6, <2>7
<1>8. CASE QuoteFails
  <2>1. answered' \in 0..MaxQuotes /\ answered' = answered + 1 /\ failures' = failures + 1
        /\ UNCHANGED <<clock, session, lastPrice, lastStamp, identical, base, coarse, dirty>>
    BY <1>0, <1>1, <1>8 DEF QuoteFails, Scanning
  <2>2. /\ failures' \in Nat /\ identical' <= answered' /\ failures' <= answered' + 1
    <3>1. PICK x \in Nat, y \in Nat, z \in Nat : x = identical /\ y = failures /\ z = answered
      BY <1>0, <1>1
    <3>2. x <= z /\ y <= z + 1 /\ answered' = z + 1 /\ identical' = x /\ failures' = y + 1
      BY <1>1, <2>1, <3>1
    <3>. QED  BY <3>2
  <2>. QED  BY <1>1, <1>2, <2>1, <2>2
<1>9. CASE UNCHANGED marketDataVars
  BY <1>1, <1>2, <1>9 DEF marketDataVars, memory
<1>. QED  BY <1>3, <1>4, <1>5, <1>6, <1>7, <1>8, <1>9 DEF MarketDataNext

\* Market data keeps its types, for any history, quotes and bounds; with it, that derived
\* bars are never served from base bars that have changed.
THEOREM MarketDataTypes == MarketDataSpec => []MarketDataTypeOK
<1>1. MarketDataInv => MarketDataTypeOK  BY DEF MarketDataInv
<1>. QED  BY <1>1, MarketDataInvInit, MarketDataInvStep, PTL DEF MarketDataSpec

-----------------------------------------------------------------------------
(* History does not repaint. *)

\* What is served of the derived series is always derived from the base series as they are.
LEMMA CoarseIsDerived ==
    ASSUME MarketDataInv
    PROVE  CoarseBars = Resample(base)
BY DEF MarketDataInv, MarketDataTypeOK, CoarseBars

\* What is served of the base bars: those that start before the clock.
LEMMA BaseFrameProperties ==
    ASSUME MarketDataInv
    PROVE  /\ DOMAIN BaseFrame = {t \in DOMAIN base : t < clock}
           /\ \A t \in DOMAIN BaseFrame : t \in Int /\ BaseFrame[t] = base[t]
<1>1. clock \in Int /\ Series(base)
  BY MarketDataAssumption DEF MarketDataInv, MarketDataTypeOK
<1>2. BarStart(clock, 1) = clock  BY <1>1, BaseBarStart
<1>3. BaseFrame = [t \in {u \in DOMAIN base : u < clock} |-> base[t]]
  BY <1>2 DEF BaseFrame, Closed
<1>. QED  BY <1>1, <1>3 DEF Series

\* What is served of the derived bars: those that start before the bar of the clock.
LEMMA CoarseFrameProperties ==
    ASSUME MarketDataInv
    PROVE  /\ DOMAIN CoarseFrame = {t \in DOMAIN Resample(base) : t < BarStart(clock, Coarse)}
           /\ \A t \in DOMAIN CoarseFrame : CoarseFrame[t] = Resample(base)[t]
<1>1. CoarseFrame = Closed(Resample(base), Coarse, clock)  BY CoarseIsDerived DEF CoarseFrame
<1>. QED  BY <1>1 DEF Closed

\* A derived bar lies on the grid.
LEMMA DerivedOnGrid ==
    ASSUME OpensOnGrid, MarketDataInv, NEW t \in DOMAIN Resample(base)
    PROVE  OnGrid(t) /\ t \in Int
<1>1. Series(base)  BY DEF MarketDataInv
<1>2. PICK u \in DOMAIN base : t = Label(u)  BY <1>1, ResampleProperties
<1>3. u \in Int  BY <1>1 DEF Series
<1>. QED  BY <1>2, <1>3, LabelOnGrid

\* No bar that is served is still open.
LEMMA ServedBarsHaveEnded ==
    ASSUME OpensOnGrid, MarketDataInv
    PROVE  ClosedBarsEnded
<1>1. clock \in Int /\ Coarse \in Int
  BY MarketDataAssumption DEF MarketDataInv, MarketDataTypeOK
<1>2. ASSUME NEW t \in DOMAIN BaseFrame
      PROVE  t + 1 <= clock
  BY <1>1, <1>2, BaseFrameProperties
<1>3. ASSUME NEW t \in DOMAIN CoarseFrame
      PROVE  t + Coarse <= clock
  <2>1. t \in DOMAIN Resample(base) /\ t < BarStart(clock, Coarse)
    BY <1>3, CoarseFrameProperties
  <2>2. OnGrid(t) /\ t \in Int  BY <2>1, DerivedOnGrid
  <2>3. PICK s \in Int : s = BarStart(clock, Coarse)  BY <1>1, BarStartOnGrid
  <2>4. OnGrid(s) /\ s <= clock  BY <1>1, <2>3, BarStartOnGrid
  <2>5. t + Coarse <= s  BY <2>1, <2>2, <2>3, <2>4, GridSteps
  <2>. QED  BY <1>1, <2>2, <2>4, <2>5
<1>. QED  BY <1>2, <1>3 DEF ClosedBarsEnded

\* A step leaves the series of the store as they are, but for one that is younger than the
\* oldest quote the gate takes.
LEMMA BaseStep ==
    ASSUME MarketDataInv, [MarketDataNext]_marketDataVars
    PROVE  /\ clock \in Int /\ clock' \in Int /\ clock <= clock'
           /\ \/ DOMAIN base = {}
              \/ \E s \in Int : /\ clock - MaxAge <= s
                                /\ DOMAIN base' \subseteq DOMAIN base \union {s}
                                /\ \A t \in DOMAIN base' : t # s => base'[t] = base[t]
<1>1. clock \in Int /\ MaxAge \in Nat /\ MaxSkew \in Nat /\ Series(base)
  BY MarketDataAssumption DEF MarketDataInv, MarketDataTypeOK, DataQualityConfig
<1>2. clock' = clock \/ clock' = clock + 1
  BY DEF MarketDataNext, ClockAdvances, WarmUp, WarmUpFails, NewSession, Ingest, QuoteFails,
         marketDataVars
<1>3. \/ base' = base \/ base = NoBars
      \/ \E q \in Quotes : ValidQuote(q) /\ base' = Fold(base, q)
  BY DEF MarketDataNext, ClockAdvances, WarmUp, WarmUpFails, NewSession, Ingest, QuoteFails,
         marketDataVars
<1>4. CASE base' = base
  <2>1. clock \in Int /\ clock - MaxAge <= clock  BY <1>1
  <2>. QED  BY <1>1, <1>2, <1>4, <2>1
<1>5. CASE base = NoBars
  <2>1. DOMAIN base = {}  BY <1>5 DEF NoBars
  <2>. QED  BY <1>1, <1>2, <2>1
<1>6. ASSUME NEW q \in Quotes, ValidQuote(q), base' = Fold(base, q)
      PROVE  \E s \in Int : /\ clock - MaxAge <= s
                            /\ DOMAIN base' \subseteq DOMAIN base \union {s}
                            /\ \A t \in DOMAIN base' : t # s => base'[t] = base[t]
  <2>1. q.stamp \in (clock - MaxAge - 1)..(clock + MaxSkew + 1) /\ q.price \in Prices
    BY DEF Quotes
  <2>2. q.stamp \in Int /\ clock - q.stamp <= MaxAge  BY <1>1, <1>6, <2>1 DEF ValidQuote
  <2>3. PICK s \in Int : s = q.stamp  BY <2>2
  <2>4. clock - MaxAge <= s  BY <1>1, <2>2, <2>3
  <2>5. /\ DOMAIN base' \subseteq DOMAIN base \union {s}
        /\ \A t \in DOMAIN base' : t # s => base'[t] = base[t]
    BY <1>1, <1>6, <2>1, <2>2, <2>3, FoldProperties
  <2>. QED  BY <2>4, <2>5
<1>. QED  BY <1>1, <1>2, <1>3, <1>4, <1>5, <1>6

\* A derived bar whose parts stay in the store, and which no quote can reach any more, is
\* derived as it was.
LEMMA DerivedBarStays ==
    ASSUME OpensOnGrid, MarketDataInv, MarketDataInv', [MarketDataNext]_marketDataVars,
           NEW t \in DOMAIN Resample(base), t + Coarse + MaxAge <= clock,
           Group(base, t) \subseteq DOMAIN base'
    PROVE  t \in DOMAIN Resample(base') /\ Resample(base')[t] = Resample(base)[t]
<1>1. clock \in Int /\ MaxAge \in Nat /\ Coarse \in Nat \ {0} /\ Series(base)
  BY MarketDataAssumption DEF MarketDataInv, MarketDataTypeOK, DataQualityConfig
<1>2. Series(base')  BY DEF MarketDataInv, Series
<1>3. t \in {Label(u) : u \in DOMAIN base} /\ t \in Int
  BY <1>1, ResampleProperties, DerivedOnGrid
<1>4. DOMAIN base # {}  BY <1>3
<1>5. PICK s \in Int : /\ clock - MaxAge <= s
                       /\ DOMAIN base' \subseteq DOMAIN base \union {s}
                       /\ \A u \in DOMAIN base' : u # s => base'[u] = base[u]
  BY <1>4, BaseStep
<1>6. Label(s) # t
  <2>1. PICK l \in Int : l = Label(s) /\ s < l + Coarse  BY LabelOnGrid
  <2>2. l # t  BY <1>1, <1>3, <1>5, <2>1
  <2>. QED  BY <2>1, <2>2
<1>. DEFINE group == Group(base, t)
<1>7. Group(base', t) = group  BY <1>5, <1>6 DEF Group
<1>8. \A u \in group : base'[u] = base[u]
  <2>1. \A u \in group : u # s /\ u \in DOMAIN base'  BY <1>6 DEF Group
  <2>. QED  BY <1>5, <2>1
<1>9. Min(group) \in group /\ Max(group) \in group /\ group # {}
  BY <1>1, <1>3, GroupProperties
<1>10. t \in {Label(u) : u \in DOMAIN base'}
  <2>1. PICK u \in Group(base', t) : TRUE  BY <1>7, <1>9
  <2>. QED  BY <2>1 DEF Group
<1>. HIDE DEF group
<1>11. {base'[u].high : u \in group} = {base[u].high : u \in group}
       /\ {base'[u].low : u \in group} = {base[u].low : u \in group}
  BY <1>8
<1>12. Resample(base)[t] =
         [open |-> base[Min(group)].open, close |-> base[Max(group)].close,
          high |-> Max({base[u].high : u \in group}), low |-> Min({base[u].low : u \in group})]
  BY <1>3 DEF Resample, group
<1>13. Resample(base')[t] =
         [open |-> base'[Min(group)].open, close |-> base'[Max(group)].close,
          high |-> Max({base'[u].high : u \in group}), low |-> Min({base'[u].low : u \in group})]
  BY <1>7, <1>10 DEF Resample
<1>14. t \in DOMAIN Resample(base')  BY <1>10 DEF Resample
<1>. QED  BY <1>8, <1>9, <1>11, <1>12, <1>13, <1>14

\* What is served stays as it was once no quote can reach it.
LEMMA BarsStayFinal ==
    ASSUME OpensOnGrid, MarketDataInv, MarketDataInv', [MarketDataNext]_marketDataVars
    PROVE  /\ \A t \in DOMAIN BaseFrame : t + 1 + MaxAge <= clock /\ t \in DOMAIN base' =>
                t \in DOMAIN BaseFrame' /\ BaseFrame'[t] = BaseFrame[t]
           /\ \A t \in DOMAIN CoarseFrame :
                t + Coarse + MaxAge <= clock /\ Group(base, t) \subseteq DOMAIN base' =>
                t \in DOMAIN CoarseFrame' /\ CoarseFrame'[t] = CoarseFrame[t]
           /\ \A t \in DOMAIN CoarseFrame' :
                CoarseFrame'[t].close = base'[Max(Group(base', t))].close
<1>1. clock \in Int /\ MaxAge \in Nat /\ Series(base)
  BY MarketDataAssumption DEF MarketDataInv, MarketDataTypeOK, DataQualityConfig
<1>2. clock' \in Int /\ clock <= clock' /\ Series(base')
  BY BaseStep DEF MarketDataInv, Series
<1>3. PICK c \in Int, d \in Int : c = clock /\ d = clock' /\ c <= d  BY <1>1, <1>2
<1>4. BaseFrame' = [t \in {u \in DOMAIN base' : u < d} |-> base'[t]]
  <2>1. BarStart(d, 1) = d  BY BaseBarStart
  <2>2. BaseFrame' = Closed(base', 1, d)  BY <1>3 DEF BaseFrame, Closed, BarStart, OpenOf, Day
  <2>. QED  BY <2>1, <2>2 DEF Closed
<1>5. CoarseFrame' = [t \in {u \in DOMAIN Resample(base') : u < BarStart(d, Coarse)}
                         |-> Resample(base')[t]]
  <2>1. CoarseBars' = Resample(base')
    BY DEF MarketDataInv, MarketDataTypeOK, CoarseBars, Resample, Group
  <2>2. CoarseFrame' = Closed(Resample(base'), Coarse, d)
    BY <1>3, <2>1 DEF CoarseFrame, Closed, BarStart, OpenOf, Day
  <2>. QED  BY <2>2 DEF Closed
<1>6. ASSUME NEW t \in DOMAIN BaseFrame, t + 1 + MaxAge <= clock, t \in DOMAIN base'
      PROVE  t \in DOMAIN BaseFrame' /\ BaseFrame'[t] = BaseFrame[t]
  <2>1. t \in DOMAIN base /\ t < c /\ t \in Int /\ BaseFrame[t] = base[t]
    BY <1>3, BaseFrameProperties
  <2>2. PICK s \in Int : clock - MaxAge <= s
                         /\ \A u \in DOMAIN base' : u # s => base'[u] = base[u]
    BY <2>1, BaseStep
  <2>3. t # s  BY <1>1, <1>6, <2>1, <2>2
  <2>4. base'[t] = base[t] /\ t < d  BY <1>3, <1>6, <2>1, <2>2, <2>3
  <2>. QED  BY <1>4, <1>6, <2>1, <2>4
<1>7. ASSUME NEW t \in DOMAIN CoarseFrame, t + Coarse + MaxAge <= clock,
             Group(base, t) \subseteq DOMAIN base'
      PROVE  t \in DOMAIN CoarseFrame' /\ CoarseFrame'[t] = CoarseFrame[t]
  <2>1. /\ t \in DOMAIN Resample(base) /\ t < BarStart(c, Coarse)
        /\ CoarseFrame[t] = Resample(base)[t]
    BY <1>3, CoarseFrameProperties
  <2>2. t \in DOMAIN Resample(base') /\ Resample(base')[t] = Resample(base)[t]
    BY <1>7, <2>1, DerivedBarStays
  <2>3. t < BarStart(d, Coarse)
    <3>1. PICK x \in Int, y \in Int : x = BarStart(c, Coarse) /\ y = BarStart(d, Coarse)
      BY BarStartOnGrid
    <3>2. x <= y  BY <1>3, <3>1, BarStartGrows
    <3>3. t \in Int  BY <2>1, DerivedOnGrid
    <3>. QED  BY <2>1, <3>1, <3>2, <3>3
  <2>. QED  BY <1>5, <2>1, <2>2, <2>3
<1>8. ASSUME NEW t \in DOMAIN CoarseFrame'
      PROVE  CoarseFrame'[t].close = base'[Max(Group(base', t))].close
  <2>1. t \in DOMAIN Resample(base') /\ CoarseFrame'[t] = Resample(base')[t]  BY <1>5, <1>8
  <2>2. Resample(base')[t].close = base'[Max(Group(base', t))].close
    BY <1>2, <2>1, ResampleProperties
  <2>. QED  BY <2>1, <2>2
<1>. QED  BY <1>6, <1>7, <1>8

\* History does not repaint when the session opens on the grid of the coarse bars, for any
\* quotes, late, refused or frozen, and any number of bars kept.
THEOREM HistoryDoesNotRepaint ==
    ASSUME OpensOnGrid
    PROVE  MarketDataSpec => ClosedBarsFinal
<1>. DEFINE Step ==
         LET settled(end) == end + MaxAge <= clock
             kept(label) == Group(base, label) \subseteq DOMAIN base' IN
         /\ ClosedBarsEnded
         /\ \A t \in DOMAIN BaseFrame : settled(t + 1) /\ t \in DOMAIN base' =>
              t \in DOMAIN BaseFrame' /\ BaseFrame'[t] = BaseFrame[t]
         /\ \A t \in DOMAIN CoarseFrame : settled(t + Coarse) /\ kept(t) =>
              t \in DOMAIN CoarseFrame' /\ CoarseFrame'[t] = CoarseFrame[t]
         /\ \A t \in DOMAIN CoarseFrame' :
              CoarseFrame'[t].close = base'[Max(Group(base', t))].close
<1>1. MarketDataInv /\ MarketDataInv' /\ [MarketDataNext]_marketDataVars => Step
  BY ServedBarsHaveEnded, BarsStayFinal
<1>2. MarketDataInv /\ MarketDataInv' /\ [MarketDataNext]_marketDataVars => [Step]_marketDataVars
  BY <1>1
<1>3. [][Step]_marketDataVars => ClosedBarsFinal  BY PTL DEF ClosedBarsFinal
<1>. HIDE DEF Step
<1>. QED  BY <1>2, <1>3, MarketDataInvInit, MarketDataInvStep, PTL DEF MarketDataSpec

-----------------------------------------------------------------------------
(* The replay *)

\* Rounding up an amount worsens a price that is a multiple of the tick, and so does
\* rounding down.
LEMMA RoundWorsens ==
    ASSUME NEW open \in Nat, open % Tick = 0, NEW worse \in Nat
    PROVE  /\ RoundTick(open + worse) \in Int /\ open <= RoundTick(open + worse)
           /\ RoundTick(open - worse) \in Int /\ RoundTick(open - worse) <= open
<1>1. PICK T \in Nat \ {0} : T = Tick  BY BacktestAssumption
<1>2. PICK m \in Nat : m = open \div T /\ open = T * m
  <2>1. open \div T \in Nat /\ open = T * (open \div T) + (open % T)  BY <1>1
  <2>2. open % T = 0  BY <1>1
  <2>3. PICK m \in Nat : m = open \div T  BY <2>1
  <2>4. open = T * m  BY <2>1, <2>2, <2>3
  <2>. QED  BY <2>3, <2>4
<1>3. ASSUME NEW x \in Int
      PROVE  \E q \in Int, r \in 0..(T - 1) :
               /\ x = T * q + r
               /\ RoundTick(x) \in {q * T, (q + 1) * T} /\ (r = 0 => RoundTick(x) = q * T)
  <2>1. PICK q \in Int, r \in 0..(T - 1) : q = x \div T /\ r = x % T /\ x = T * q + r
    <3>1. x \div T \in Int /\ x % T \in 0..(T - 1) /\ x = T * (x \div T) + (x % T)  OBVIOUS
    <3>. QED  BY <3>1
  <2>2. RoundTick(x) = (IF 2 * r < T \/ (2 * r = T /\ q % 2 = 0) THEN q ELSE q + 1) * T
    BY <1>1, <2>1 DEF RoundTick
  <2>3. r = 0 => 2 * r < T  OBVIOUS
  <2>. QED  BY <2>1, <2>2, <2>3
<1>4. PICK q \in Int, r \in 0..(T - 1) :
           /\ open + worse = T * q + r
           /\ RoundTick(open + worse) \in {q * T, (q + 1) * T}
  BY <1>3, open + worse \in Int
<1>5. q >= m
  <2>1. SUFFICES ASSUME q + 1 <= m PROVE FALSE  OBVIOUS
  <2>2. PICK d \in Nat : m = q + 1 + d
    <3>1. m - (q + 1) \in Nat /\ m = q + 1 + (m - (q + 1))  BY <2>1
    <3>. QED  BY <3>1
  <2>3. T * m = T * q + T + T * d /\ T * d >= 0 /\ T * q \in Int /\ T * d \in Int  BY <2>2
  <2>4. r < T /\ r \in Int  OBVIOUS
  <2>. QED  BY <1>2, <1>4, <2>3, <2>4
<1>6. /\ RoundTick(open + worse) \in Int /\ open <= RoundTick(open + worse)
  <2>1. PICK d \in Nat : q = m + d
    <3>1. q - m \in Nat /\ q = m + (q - m)  BY <1>5
    <3>. QED  BY <3>1
  <2>2. /\ q * T = T * m + T * d /\ (q + 1) * T = T * m + T * d + T
        /\ T * d >= 0 /\ T * m \in Int /\ T * d \in Int
    BY <2>1
  <2>3. PICK x \in Int : x = RoundTick(open + worse) /\ (x = q * T \/ x = (q + 1) * T)
    BY <1>4, q * T \in Int, (q + 1) * T \in Int
  <2>. QED  BY <1>2, <2>2, <2>3
<1>7. PICK p \in Int, s \in 0..(T - 1) :
           /\ open - worse = T * p + s
           /\ RoundTick(open - worse) \in {p * T, (p + 1) * T}
           /\ (s = 0 => RoundTick(open - worse) = p * T)
  BY <1>3, open - worse \in Int
<1>8. p <= m
  <2>1. SUFFICES ASSUME p >= m + 1 PROVE FALSE  OBVIOUS
  <2>2. PICK d \in Nat : p = m + 1 + d
    <3>1. p - (m + 1) \in Nat /\ p = m + 1 + (p - (m + 1))  BY <2>1
    <3>. QED  BY <3>1
  <2>3. T * p = T * m + T + T * d /\ T * d >= 0 /\ T * m \in Int /\ T * d \in Int  BY <2>2
  <2>4. s >= 0 /\ s \in Int  OBVIOUS
  <2>. QED  BY <1>2, <1>7, <2>3, <2>4
<1>9. RoundTick(open - worse) \in Int /\ RoundTick(open - worse) <= open
  <2>1. CASE p = m
    <3>1. s = 0
      <4>1. T * p = open  BY <1>2, <2>1
      <4>2. s >= 0 /\ s \in Int  OBVIOUS
      <4>. QED  BY <1>7, <4>1, <4>2
    <3>2. RoundTick(open - worse) = p * T  BY <1>7, <3>1
    <3>3. p * T = T * m  BY <2>1
    <3>. QED  BY <1>2, <3>2, <3>3
  <2>2. CASE p # m
    <3>1. PICK d \in Nat : m = p + 1 + d
      <4>1. m - (p + 1) \in Nat /\ m = p + 1 + (m - (p + 1))  BY <1>8, <2>2
      <4>. QED  BY <4>1
    <3>2. /\ (p + 1) * T = T * p + T /\ p * T = T * p /\ T * m = T * p + T + T * d
          /\ T * d >= 0 /\ T * p \in Int /\ T * d \in Int
      BY <3>1
    <3>3. PICK x \in Int : x = RoundTick(open - worse) /\ (x = p * T \/ x = (p + 1) * T)
      BY <1>7, p * T \in Int, (p + 1) * T \in Int
    <3>. QED  BY <1>2, <3>2, <3>3
  <2>. QED  BY <2>1, <2>2
<1>. QED  BY <1>6, <1>9

\* A fill is no better than the open.
LEMMA FillWorsens ==
    ASSUME NEW b \in FrameBars, NEW sign \in {1, -1}
    PROVE  /\ FillPrice(b.open, sign) \in Nat \ {0}
           /\ sign * (FillPrice(b.open, sign) - b.open) >= 0
<1>1. PICK open \in Nat, low \in Nat \ {0}, worse \in Nat :
           open = b.open /\ low = LowestPrice /\ worse = HalfSpread + Slippage /\ low <= open
           /\ open % Tick = 0
  <2>1. b.open \in Nat /\ b.open >= LowestPrice /\ b.open % Tick = 0 /\ LowestPrice \in Nat \ {0}
    BY BacktestAssumption
  <2>2. HalfSpread + Slippage \in Nat
    <3>1. HalfSpread \in Nat /\ Slippage \in Nat  BY BacktestAssumption
    <3>. QED  BY <3>1
  <2>. QED  BY <2>1, <2>2
<1>2. /\ RoundTick(open + worse) \in Int /\ open <= RoundTick(open + worse)
      /\ RoundTick(open - worse) \in Int /\ RoundTick(open - worse) <= open
  BY <1>1, RoundWorsens
<1>3. CASE sign = 1
  <2>1. sign * worse = worse  BY <1>3
  <2>2. FillPrice(b.open, sign) = MaxOf(low, RoundTick(open + worse))
    BY <1>1, <2>1 DEF FillPrice
  <2>3. PICK f \in Nat \ {0} : f = MaxOf(low, RoundTick(open + worse)) /\ f >= open
    BY <1>1, <1>2 DEF MaxOf
  <2>. QED  BY <1>1, <1>3, <2>2, <2>3
<1>4. CASE sign = -1
  <2>1. open + sign * worse = open - worse  BY <1>4
  <2>2. FillPrice(b.open, sign) = MaxOf(low, RoundTick(open - worse))
    BY <1>1, <2>1 DEF FillPrice
  <2>3. PICK f \in Nat \ {0} : f = MaxOf(low, RoundTick(open - worse)) /\ f <= open
    BY <1>1, <1>2 DEF MaxOf
  <2>. QED  BY <1>1, <1>4, <2>2, <2>3
<1>. QED  BY <1>3, <1>4

-----------------------------------------------------------------------------
PositionRecord ==
    [sign : {1, -1}, entry : Nat, stop : Int, target : Int, quantity : Nat \ {0},
     holding : Nat, entryBar : Nat, signalBar : Nat, entryOpen : Nat]
EntrySound(p) ==
    /\ p \in PositionRecord
    /\ p.signalBar < p.entryBar
    /\ p.sign * (p.entry - p.entryOpen) >= 0

WaitingSound(w) == w.signal \in Signals /\ w.signalBar \in Nat /\ w.signalBar <= i

BacktestInv ==
    /\ i \in 0..LastBar /\ funds \in Int
    /\ delay \in Delays /\ fillModel \in FillModels
    /\ IsFiniteSet(waiting) /\ Cardinality(waiting) <= 1 /\ \A w \in waiting : WaitingSound(w)
    /\ IsFiniteSet(opened) /\ Cardinality(opened) <= MaxSimultaneous
    /\ \A p \in opened : EntrySound(p) /\ p.entryBar <= i
    /\ \A t \in closed : t.exit # NoExit
    /\ ResultsNotInflated

\* A position opens on the bar it fills on, at a price no better than the one of the bar.
LEMMA OpenedSound ==
    ASSUME BacktestInv, NEW b \in FrameBars, NEW w \in Fillable(b)
    PROVE  EntrySound(Opened(w, b)) /\ Opened(w, b).entryBar = i + 1
<1>. DEFINE s == w.signal
            fill == FillPrice(b.open, s.sign)
            lots == LotsFor(fill, s.risk)
<1>1. WaitingSound(w) /\ lots >= 1 /\ s.risk > 0
  BY DEF Fillable, Due, BacktestInv
<1>2. /\ s.sign \in {1, -1} /\ s.risk \in Nat \ {0} /\ s.reward \in Nat /\ s.holding \in Nat
      /\ w.signalBar \in Nat /\ w.signalBar <= i /\ i \in Nat
  BY <1>1, BacktestAssumption DEF WaitingSound, Signals, BacktestInv
<1>3. fill \in Nat \ {0} /\ s.sign * (fill - b.open) >= 0 /\ b.open \in Nat
  BY <1>2, FillWorsens, BacktestAssumption
<1>. HIDE DEF fill
<1>4. lots * LotSize \in Nat \ {0}
  <2>1. PICK f \in Int, F \in Nat \ {0}, C \in Nat \ {0}, L \in Nat \ {0}, r \in Nat \ {0},
             price \in Nat \ {0} :
             f = funds /\ F = RiskFraction /\ C = CapitalFraction /\ L = LotSize /\ r = s.risk
             /\ price = fill
    BY <1>2, <1>3, BacktestAssumption DEF BacktestInv
  <2>2. r * L \in Nat \ {0} /\ price * L \in Nat \ {0} /\ f \div F \in Int /\ f \div C \in Int
    OBVIOUS
  <2>3. (f \div F) \div (r * L) \in Int /\ (f \div C) \div (price * L) \in Int
    <3>1. PICK x \in Int, y \in Int, u \in Nat \ {0}, v \in Nat \ {0} :
               x = f \div F /\ y = f \div C /\ u = r * L /\ v = price * L
      BY <2>2
    <3>2. x \div u \in Int /\ y \div v \in Int  OBVIOUS
    <3>. QED  BY <3>1, <3>2
  <2>4. lots = MinOf((f \div F) \div (r * L), (f \div C) \div (price * L))
    BY <2>1 DEF LotsFor
  <2>5. lots \in Int  BY <2>3, <2>4 DEF MinOf
  <2>. HIDE DEF lots
  <2>6. PICK n \in Nat \ {0} : n = lots  BY <1>1, <2>5
  <2>7. n * L \in Nat /\ n * L > 0  OBVIOUS
  <2>. QED  BY <2>1, <2>6, <2>7
<1>5. Opened(w, b) =
        [sign |-> s.sign, entry |-> fill, stop |-> fill - s.sign * s.risk,
         target |-> fill + s.sign * s.reward, quantity |-> lots * LotSize,
         holding |-> s.holding, entryBar |-> i + 1, signalBar |-> w.signalBar,
         entryOpen |-> b.open]
  BY DEF Opened, fill
<1>6. fill - s.sign * s.risk \in Int /\ fill + s.sign * s.reward \in Int
  <2>1. s.sign * s.risk \in Int /\ s.sign * s.reward \in Int  BY <1>2
  <2>. QED  BY <1>3, <2>1
<1>. HIDE DEF s, lots
<1>7. Opened(w, b) \in PositionRecord
  BY <1>2, <1>3, <1>4, <1>5, <1>6 DEF PositionRecord
<1>8. w.signalBar < i + 1  BY <1>2
<1>. QED  BY <1>3, <1>5, <1>7, <1>8 DEF EntrySound

\* What one position may end with.
LEMMA TradeSound ==
    ASSUME NEW p, EntrySound(p), NEW b \in FrameBars, CheckExit(p, b) # NoExit
    PROVE  LET t == Trade(p, b)
               best == IF p.sign = 1 THEN b.high ELSE b.low
               gap == p.sign * (b.open - p.stop) < 0 IN
           /\ t.exit # NoExit /\ t.position = p /\ t.bar = b
           /\ Reaches(p, b, p.stop).stop => p.sign * (t.exit - p.stop) <= 0
           /\ gap \/ t.net <= p.quantity * p.sign * (best - p.entryOpen)
           /\ t.net \in Int /\ t.net = Net(p, CheckExit(p, b))
<1>. DEFINE exit == CheckExit(p, b)
            t == Trade(p, b)
            best == IF p.sign = 1 THEN b.high ELSE b.low
            gap == p.sign * (b.open - p.stop) < 0
<1>1. t.exit = exit /\ t.position = p /\ t.bar = b /\ t.net = Net(p, exit)  BY DEF Trade
<1>2. PICK open \in Nat, high \in Nat, low \in Nat, close \in Nat :
           /\ open = b.open /\ high = b.high /\ low = b.low /\ close = b.close
           /\ low <= open /\ low <= close /\ open <= high /\ close <= high
  <2>1. /\ b.open \in Nat /\ b.high \in Nat /\ b.low \in Nat /\ b.close \in Nat
        /\ b.low <= MinOf(b.open, b.close) /\ MaxOf(b.open, b.close) <= b.high
    BY BacktestAssumption
  <2>2. b.low <= b.open /\ b.low <= b.close /\ b.open <= b.high /\ b.close <= b.high
    BY <2>1 DEF MinOf, MaxOf
  <2>. QED  BY <2>1, <2>2
<1>3. PICK sign \in {1, -1}, entry \in Nat, stop \in Int, aim \in Int, Q \in Nat \ {0},
           eo \in Nat :
           /\ sign = p.sign /\ entry = p.entry /\ stop = p.stop /\ aim = p.target
           /\ Q = p.quantity /\ eo = p.entryOpen /\ sign * (entry - eo) >= 0
  BY DEF EntrySound, PositionRecord
<1>4. /\ Reaches(p, b, p.stop).stop <=> (IF sign = 1 THEN low <= stop ELSE high >= stop)
      /\ Reaches(p, b, p.target).target <=> (IF sign = 1 THEN high >= aim ELSE low <= aim)
  BY <1>2, <1>3 DEF Reaches
<1>5. /\ Reaches(p, b, p.stop).stop => exit = stop
      /\ ~Reaches(p, b, p.stop).stop =>
           (exit = aim /\ Reaches(p, b, p.target).target) \/ exit = close
  BY <1>2, <1>3 DEF CheckExit
<1>6. PICK x \in Int : x = exit  BY <1>5
<1>7. Reaches(p, b, p.stop).stop => p.sign * (t.exit - p.stop) <= 0
  BY <1>1, <1>3, <1>5
<1>8. PICK top \in Nat : top = best  BY <1>2
<1>9. ASSUME ~gap
      PROVE  sign * (top - x) >= 0
  <2>1. sign * (open - stop) >= 0  BY <1>2, <1>3, <1>9
  <2>2. CASE sign = 1
    <3>1. top = high /\ stop <= open  BY <1>2, <1>3, <1>8, <2>1, <2>2
    <3>2. x = stop \/ (x = aim /\ high >= aim) \/ x = close
      BY <1>4, <1>5, <1>6, <2>2
    <3>. QED  BY <1>2, <2>2, <3>1, <3>2
  <2>3. CASE sign = -1
    <3>1. top = low /\ open <= stop  BY <1>2, <1>3, <1>8, <2>1, <2>3
    <3>2. x = stop \/ (x = aim /\ low <= aim) \/ x = close
      BY <1>4, <1>5, <1>6, <2>3
    <3>. QED  BY <1>2, <2>3, <3>1, <3>2
  <2>. QED  BY <2>2, <2>3
<1>. HIDE DEF best, gap
<1>10. PICK k \in Nat, fees \in Nat : k = HalfSpread + Slippage /\ fees = 2 * Fee + 2 * Slippage
  BY BacktestAssumption
<1>11. t.net = Q * (sign * (x - entry) - k - fees)
  <2>1. t.net = Q * (sign * ((x - sign * k) - entry) - 2 * Fee - 2 * Slippage)
    BY <1>1, <1>3, <1>6, <1>10 DEF Net, Realized
  <2>2. sign * ((x - sign * k) - entry) = sign * (x - entry) - k
    <3>1. CASE sign = 1  BY <3>1
    <3>2. CASE sign = -1  BY <3>2
    <3>. QED  BY <3>1, <3>2
  <2>3. sign * (x - entry) \in Int  OBVIOUS
  <2>4. PICK y \in Int : y = sign * (x - entry)  BY <2>3
  <2>5. y - k - 2 * Fee - 2 * Slippage = y - k - fees
    <3>1. Fee \in Nat /\ Slippage \in Nat  BY BacktestAssumption
    <3>. QED  BY <1>10, <3>1
  <2>. QED  BY <2>1, <2>2, <2>4, <2>5
<1>12. PICK y \in Int : y = sign * (x - entry) - k - fees
  <2>1. sign * (x - entry) \in Int  OBVIOUS
  <2>. QED  BY <2>1
<1>13. t.net = Q * y /\ t.net \in Int
  <2>1. Q * y \in Int  OBVIOUS
  <2>. QED  BY <1>11, <1>12, <2>1
<1>14. ASSUME ~gap
       PROVE  t.net <= Q * sign * (top - eo)
  <2>1. PICK z \in Int : z = sign * (top - eo)  OBVIOUS
  <2>2. y <= z
    <3>1. sign * (top - x) >= 0 /\ sign * (entry - eo) >= 0  BY <1>3, <1>9, <1>14
    <3>2. CASE sign = 1  BY <1>12, <2>1, <3>1, <3>2
    <3>3. CASE sign = -1  BY <1>12, <2>1, <3>1, <3>3
    <3>. QED  BY <3>2, <3>3
  <2>3. PICK d \in Nat : z = y + d
    <3>1. z - y \in Nat /\ z = y + (z - y)  BY <2>2
    <3>. QED  BY <3>1
  <2>4. Q * z = Q * y + Q * d /\ Q * d >= 0 /\ Q * y \in Int /\ Q * d \in Int  BY <2>3
  <2>5. Q * sign * (top - eo) = Q * z
    <3>1. CASE sign = 1  BY <2>1, <3>1
    <3>2. CASE sign = -1
      <4>1. PICK e \in Int : e = top - eo  OBVIOUS
      <4>2. Q * sign * e = Q * (sign * e)  BY <3>2
      <4>. QED  BY <2>1, <4>1, <4>2
    <3>. QED  BY <3>1, <3>2
  <2>. QED  BY <1>13, <2>4, <2>5
<1>. HIDE DEF t
<1>15. gap \/ t.net <= p.quantity * p.sign * (best - p.entryOpen)
  BY <1>3, <1>8, <1>14
<1>16. t.exit # NoExit  BY <1>1
<1>. QED  BY <1>1, <1>7, <1>13, <1>15, <1>16 DEF t, best, gap

-----------------------------------------------------------------------------
\* The results of a set of positions are summed.
Results(b, S) == MapThenSumSet(LAMBDA p : Net(p, CheckExit(p, b)), S)

\* What the exits of a bar earn together is a number.
LEMMA ResultsType ==
    ASSUME NEW b, NEW S, IsFiniteSet(S), \A p \in S : Net(p, CheckExit(p, b)) \in Int
    PROVE  Results(b, S) \in Int
<1>. DEFINE w == [p \in S |-> Net(p, CheckExit(p, b))]
            Turn(g) ==
              [t \in SUBSET S |->
                 IF t = {} THEN 0
                 ELSE LET x == CHOOSE x \in t : TRUE
                      IN Net(x, CheckExit(x, b)) + g[t \ {x}]]
            Iter == CHOOSE g : g = Turn(g)
<1>1. Results(b, S) = Iter[S]
  BY DEF Results, MapThenSumSet, MapThenFoldSet
<1>2. \A g : AddsUp(g, w, S) <=> g = Turn(g)
  BY ChosenIsMember DEF AddsUp, Chosen
<1>3. \A p \in S : w[p] \in Int  OBVIOUS
<1>. HIDE DEF Turn, w
<1>4. PICK g \in [SUBSET S -> Int] : AddsUp(g, w, S)  BY <1>3, SomethingAddsUp
<1>5. AddsUp(Iter, w, S)  BY <1>2, <1>4
<1>6. SumOver(w, S) = Iter[S] /\ SumOver(w, S) \in Int  BY <1>3, <1>5, SumIsSum, SumType
<1>. QED  BY <1>1, <1>6

\* An empty account is sound.
LEMMA BacktestInvInit == BacktestInit => BacktestInv
<1>. SUFFICES ASSUME BacktestInit PROVE BacktestInv  OBVIOUS
<1>1. /\ i = 0 /\ funds = Capital /\ waiting = {} /\ opened = {} /\ closed = {}
      /\ delay \in Delays /\ fillModel \in FillModels
  BY DEF BacktestInit
<1>2. IsFiniteSet({}) /\ Cardinality({}) = 0  BY FS_EmptySet
<1>3. LastBar \in Nat /\ MaxSimultaneous \in Nat /\ Capital \in Int
  BY BacktestAssumption DEF BacktestConfig
<1>4. ResultsNotInflated  BY <1>1 DEF ResultsNotInflated
<1>. QED  BY <1>1, <1>2, <1>3, <1>4 DEF BacktestInv

\* A bar opens no more than MaxSimultaneous leaves room for, and what it opens is sound.
LEMMA WithFillsBounded ==
    ASSUME BacktestInv, NEW b \in FrameBars
    PROVE  /\ IsFiniteSet(WithFills(b)) /\ Cardinality(WithFills(b)) <= MaxSimultaneous
           /\ \A p \in WithFills(b) : EntrySound(p) /\ p.entryBar \in Nat /\ p.entryBar <= i + 1
<1>1. /\ IsFiniteSet(opened) /\ Cardinality(opened) \in Nat /\ Cardinality(opened) <= MaxSimultaneous
      /\ MaxSimultaneous \in Nat /\ i \in Nat
  BY FS_CardinalityType, BacktestAssumption DEF BacktestInv
<1>2. /\ IsFiniteSet(WithFills(b)) /\ Cardinality(WithFills(b)) <= MaxSimultaneous
  <2>1. CASE Fillable(b) = {}
    <3>1. WithFills(b) = opened  BY <2>1 DEF WithFills
    <3>. QED  BY <1>1, <3>1
  <2>2. CASE Fillable(b) # {}
    <3>1. PICK w : w \in Fillable(b)  BY <2>2
    <3>2. Fillable(b) \subseteq waiting  BY DEF Fillable, Due
    <3>3. Fillable(b) = {w}
      <4>1. IsFiniteSet(waiting) /\ Cardinality(waiting) \in Nat /\ Cardinality(waiting) <= 1
        BY FS_CardinalityType DEF BacktestInv
      <4>2. w \in waiting  BY <3>1, <3>2
      <4>3. IsFiniteSet({w}) /\ Cardinality({w}) = 1  BY FS_Singleton
      <4>4. {w} \subseteq waiting  BY <4>2
      <4>5. Cardinality({w}) <= Cardinality(waiting)
            /\ (Cardinality(waiting) = Cardinality({w}) => {w} = waiting)
        BY <4>1, <4>4, FS_Subset
      <4>6. waiting = {w}  BY <4>1, <4>3, <4>5
      <4>. QED  BY <3>1, <3>2, <4>6
    <3>4. Cardinality(opened) < MaxSimultaneous  BY <3>1 DEF Fillable
    <3>5. WithFills(b) = opened \union {Opened(w, b)}  BY <3>3 DEF WithFills
    <3>6. CASE Opened(w, b) \in opened
      <4>1. WithFills(b) = opened  BY <3>5, <3>6
      <4>. QED  BY <1>1, <4>1
    <3>7. CASE Opened(w, b) \notin opened
      <4>1. IsFiniteSet(WithFills(b)) /\ Cardinality(WithFills(b)) = Cardinality(opened) + 1
        BY <1>1, <3>5, <3>7, FS_AddElement
      <4>. QED  BY <1>1, <3>4, <4>1
    <3>. QED  BY <3>6, <3>7
  <2>. QED  BY <2>1, <2>2
<1>3. ASSUME NEW p \in WithFills(b)
      PROVE  EntrySound(p) /\ p.entryBar \in Nat /\ p.entryBar <= i + 1
  <2>1. CASE p \in opened
    <3>1. EntrySound(p) /\ p.entryBar <= i  BY <2>1 DEF BacktestInv
    <3>2. p.entryBar \in Nat  BY <3>1 DEF EntrySound, PositionRecord
    <3>. QED  BY <1>1, <3>1, <3>2
  <2>2. CASE \E w \in Fillable(b) : p = Opened(w, b)
    <3>1. EntrySound(p) /\ p.entryBar = i + 1  BY <2>2, OpenedSound
    <3>. QED  BY <1>1, <3>1
  <2>. QED  BY <2>1, <2>2 DEF WithFills
<1>. QED  BY <1>2, <1>3

\* A bar, with the fills on its open and the exits it reaches, leaves the replay sound.
LEMMA ReplayPreserves ==
    ASSUME BacktestInv, NEW b \in FrameBars, Replay(b)
    PROVE  BacktestInv'
<1>. DEFINE kept == WithFills(b)
            exits == {p \in kept : CheckExit(p, b) # NoExit}
<1>1. /\ i < LastBar /\ i' = i + 1 /\ opened' = kept \ exits
      /\ closed' = {Trade(p, b) : p \in exits}
      /\ funds' = funds + Results(b, exits)
      /\ UNCHANGED <<delay, fillModel>>
  BY DEF Replay, Results
<1>2. i \in Nat /\ i' \in Nat /\ i' \in 0..LastBar
  BY <1>1, BacktestAssumption DEF BacktestInv
<1>3. /\ IsFiniteSet(kept) /\ Cardinality(kept) <= MaxSimultaneous
      /\ \A p \in kept : EntrySound(p) /\ p.entryBar \in Nat /\ p.entryBar <= i + 1
  BY WithFillsBounded
<1>4. IsFiniteSet(exits)  BY <1>3, FS_Subset
<1>5. \A p \in exits : /\ EntrySound(p) /\ CheckExit(p, b) # NoExit
                       /\ Net(p, CheckExit(p, b)) \in Int
  BY <1>3, TradeSound
<1>6. funds' \in Int
  <2>1. Results(b, exits) \in Int
    <3>. HIDE DEF exits
    <3>. QED  BY <1>4, <1>5, ResultsType
  <2>2. PICK n \in Int : n = Results(b, exits)
    BY <2>1
  <2>3. funds \in Int /\ funds' = funds + n  BY <1>1, <2>2 DEF BacktestInv
  <2>. QED  BY <2>3
<1>7. /\ IsFiniteSet(opened') /\ Cardinality(opened') <= MaxSimultaneous
      /\ \A p \in opened' : EntrySound(p) /\ p.entryBar <= i'
  <2>1. opened' \subseteq kept  BY <1>1
  <2>. HIDE DEF kept
  <2>2. IsFiniteSet(opened') /\ Cardinality(opened') <= Cardinality(kept)
    BY <1>3, <2>1, FS_Subset
  <2>3. Cardinality(kept) \in Nat /\ Cardinality(opened') \in Nat /\ MaxSimultaneous \in Nat
    BY <1>3, <2>2, FS_CardinalityType, BacktestAssumption
  <2>4. Cardinality(opened') <= MaxSimultaneous  BY <1>3, <2>2, <2>3
  <2>. QED  BY <1>1, <1>3, <2>1, <2>2, <2>4
<1>8. /\ IsFiniteSet(waiting') /\ Cardinality(waiting') <= 1
      /\ \A w \in waiting' : WaitingSound(w)'
  <2>1. CASE waiting' = waiting \ Due
    <3>1. waiting' \subseteq waiting  BY <2>1
    <3>2. IsFiniteSet(waiting) /\ Cardinality(waiting) \in Nat /\ Cardinality(waiting) <= 1
          /\ \A w \in waiting : WaitingSound(w)
      BY FS_CardinalityType DEF BacktestInv
    <3>3. IsFiniteSet(waiting') /\ Cardinality(waiting') <= Cardinality(waiting)
      BY <3>1, <3>2, FS_Subset
    <3>4. Cardinality(waiting') \in Nat  BY <3>3, FS_CardinalityType
    <3>5. \A w \in waiting' : WaitingSound(w)'
      <4>1. \A w \in waiting' : w.signal \in Signals /\ w.signalBar \in Nat /\ w.signalBar <= i
        BY <3>1, <3>2 DEF WaitingSound
      <4>2. \A w \in waiting' : w.signalBar <= i'  BY <1>1, <1>2, <4>1
      <4>. QED  BY <4>1, <4>2 DEF WaitingSound
    <3>. QED  BY <3>2, <3>3, <3>4, <3>5
  <2>2. CASE \E s \in Signals :
               waiting' = {[signal |-> s, fillBar |-> FillBar, signalBar |-> i + 1]}
    <3>1. PICK s \in Signals :
               waiting' = {[signal |-> s, fillBar |-> FillBar, signalBar |-> i + 1]}
      BY <2>2
    <3>2. IsFiniteSet(waiting') /\ Cardinality(waiting') = 1  BY <3>1, FS_Singleton
    <3>3. \A w \in waiting' : WaitingSound(w)'
      BY <1>1, <1>2, <3>1 DEF WaitingSound
    <3>. QED  BY <3>2, <3>3
  <2>. QED  BY <2>1, <2>2 DEF Replay
<1>9. \A t \in closed' : t.exit # NoExit  BY <1>1, <1>5, TradeSound
<1>10. ResultsNotInflated'
  <2>1. ASSUME NEW t \in closed'
        PROVE  LET p == t.position
                   best == IF p.sign = 1 THEN t.bar.high ELSE t.bar.low
                   gap == p.sign * (t.bar.open - p.stop) < 0 IN
               /\ p.signalBar < p.entryBar
               /\ p.sign * (p.entry - p.entryOpen) >= 0
               /\ Reaches(p, t.bar, p.stop).stop => p.sign * (t.exit - p.stop) <= 0
               /\ gap \/ t.net <= p.quantity * p.sign * (best - p.entryOpen)
    <3>1. PICK p \in exits : t = Trade(p, b)  BY <1>1
    <3>2. EntrySound(p) /\ CheckExit(p, b) # NoExit  BY <1>5
    <3>3. t.position = p /\ t.bar = b  BY <3>1, <3>2, TradeSound
    <3>4. /\ Reaches(p, b, p.stop).stop => p.sign * (t.exit - p.stop) <= 0
          /\ \/ p.sign * (b.open - p.stop) < 0
             \/ t.net <= p.quantity * p.sign * ((IF p.sign = 1 THEN b.high ELSE b.low) - p.entryOpen)
      BY <3>1, <3>2, TradeSound
    <3>. QED  BY <3>2, <3>3, <3>4 DEF EntrySound
  <2>. QED  BY <2>1 DEF ResultsNotInflated, Reaches
<1>. QED  BY <1>1, <1>2, <1>6, <1>7, <1>8, <1>9, <1>10 DEF BacktestInv

\* No step leaves the replay unsound.
LEMMA BacktestInvStep == BacktestInv /\ [BacktestNext]_backtestVars => BacktestInv'
<1>. SUFFICES ASSUME BacktestInv, [BacktestNext]_backtestVars PROVE BacktestInv'  OBVIOUS
<1>1. CASE BacktestNext  BY <1>1, ReplayPreserves DEF BacktestNext
<1>2. CASE UNCHANGED backtestVars
  BY <1>2 DEF backtestVars, BacktestInv, WaitingSound, ResultsNotInflated
<1>. QED  BY <1>1, <1>2

\* What the invariant says of types.
LEMMA BacktestInvTypes == BacktestInv => BacktestTypeOK
<1>. SUFFICES ASSUME BacktestInv PROVE BacktestTypeOK  OBVIOUS
<1>1. \A w \in waiting : w.signal \in Signals /\ w.signalBar <= i
  BY DEF BacktestInv, WaitingSound
<1>2. \A p \in opened : p.entryBar <= i /\ p.quantity > 0
  BY DEF BacktestInv, EntrySound, PositionRecord
<1>. QED  BY <1>1, <1>2 DEF BacktestInv, BacktestTypeOK

\* No trade of a replay is entered before the bar after its signal, or better than a fill
\* at the market would have been, and the account is what the trades made of it: for every
\* frame of bars, tick, spread, slippage and fee.
THEOREM NothingInflated == BacktestSpec => [](BacktestTypeOK /\ ResultsNotInflated)
<1>1. BacktestInv => BacktestTypeOK /\ ResultsNotInflated
  BY BacktestInvTypes DEF BacktestInv
<1>. QED  BY <1>1, BacktestInvInit, BacktestInvStep, PTL DEF BacktestSpec

-----------------------------------------------------------------------------
(* The folds *)

\* How many of a finite set of numbers are below one.
Below(S, m) == {b \in S : b < m}

\* Membership in the numbers below one.
LEMMA InBelow ==
    ASSUME NEW S, NEW m
    PROVE  /\ Below(S, m) \subseteq S
           /\ \A x \in S : x \in Below(S, m) <=> x < m
BY DEF Below

\* The numbers of a finite range that are below one can be counted.
LEMMA BelowIsFinite ==
    ASSUME NEW n \in Nat, NEW S, S \subseteq 0..n, NEW m \in Int
    PROVE  /\ IsFiniteSet(S) /\ Cardinality(S) \in Nat
           /\ IsFiniteSet(Below(S, m)) /\ Cardinality(Below(S, m)) \in Nat
<1>1. IsFiniteSet(0..n)  BY FS_Interval
<1>2. IsFiniteSet(S)  BY <1>1, FS_Subset
<1>3. Below(S, m) \subseteq S  BY DEF Below
<1>4. IsFiniteSet(Below(S, m))  BY <1>2, <1>3, FS_Subset
<1>. QED  BY <1>2, <1>4, FS_CardinalityType

\* Of a finite set of numbers, one has exactly k below it, for every k less than its size.
LEMMA RankExists ==
    ASSUME NEW n \in Nat, NEW S, S \subseteq 0..n, NEW k \in Nat, k < Cardinality(S)
    PROVE  \E r \in S : Cardinality(Below(S, r)) = k
<1>. DEFINE T == {m \in Nat : Cardinality(Below(S, m)) > k}
<1>0. \A m \in Nat : m \in T <=> Cardinality(Below(S, m)) > k  OBVIOUS
<1>. HIDE DEF T
<1>a. \A x \in S : x \in Nat /\ x <= n  OBVIOUS
<1>1. ASSUME NEW m \in Nat
      PROVE  IsFiniteSet(Below(S, m)) /\ Cardinality(Below(S, m)) \in Nat
  <2>1. m \in Int  OBVIOUS
  <2>. QED  BY <2>1, BelowIsFinite
<1>2. n + 1 \in T
  <2>1. \A x \in S : x < n + 1  BY <1>a
  <2>a. Below(S, n + 1) \subseteq S /\ \A x \in S : x \in Below(S, n + 1)  BY <2>1, InBelow
  <2>2. Below(S, n + 1) = S  BY <2>a
  <2>3. n + 1 \in Nat  OBVIOUS
  <2>. QED  BY <1>0, <2>2, <2>3
<1>3. T \subseteq Nat  BY DEF T
<1>4. PICK m \in T : \A j \in T : m <= j  BY <1>2, <1>3, LeastNumber
<1>5. m # 0
  <2>1. Below(S, 0) = {}
    <3>1. \A x \in S : ~(x < 0)  BY <1>a
    <3>2. Below(S, 0) \subseteq S /\ \A x \in S : x \notin Below(S, 0)  BY <3>1, InBelow
    <3>. QED  BY <3>2
  <2>2. Cardinality(Below(S, 0)) = 0  BY <2>1, FS_EmptySet
  <2>. QED  BY <1>0, <1>4, <2>2
<1>6. m - 1 \in Nat /\ m - 1 \notin T /\ m \in Nat  BY <1>3, <1>4, <1>5
<1>7. Cardinality(Below(S, m - 1)) <= k  BY <1>0, <1>1, <1>6
<1>8. Cardinality(Below(S, m)) > k  BY <1>0, <1>3, <1>4
<1>9. m - 1 \in S
  <2>1. SUFFICES ASSUME m - 1 \notin S PROVE FALSE  OBVIOUS
  <2>2. Below(S, m) = Below(S, m - 1)
    <3>1. \A x \in S : x < m <=> x < m - 1  BY <1>a, <1>6, <2>1
    <3>2. /\ Below(S, m) \subseteq S /\ Below(S, m - 1) \subseteq S
          /\ \A x \in S : x \in Below(S, m) <=> x \in Below(S, m - 1)
      BY <3>1, InBelow
    <3>. QED  BY <3>2
  <2>. QED  BY <1>1, <1>6, <1>7, <1>8, <2>2
<1>10. Below(S, m) = Below(S, m - 1) \union {m - 1} /\ m - 1 \notin Below(S, m - 1)
  <2>1. \A x \in S : x < m <=> (x < m - 1 \/ x = m - 1)  BY <1>a, <1>6
  <2>2. ~(m - 1 < m - 1)  BY <1>6
  <2>3. /\ Below(S, m) \subseteq S /\ Below(S, m - 1) \subseteq S
        /\ \A x \in S : x \in Below(S, m) <=> (x \in Below(S, m - 1) \/ x = m - 1)
        /\ m - 1 \notin Below(S, m - 1)
    BY <1>9, <2>1, <2>2, InBelow
  <2>. QED  BY <1>9, <2>3
<1>11. Cardinality(Below(S, m)) = Cardinality(Below(S, m - 1)) + 1
  BY <1>1, <1>6, <1>10, FS_AddElement
<1>12. Cardinality(Below(S, m - 1)) = k  BY <1>1, <1>6, <1>7, <1>8, <1>11
<1>. QED  BY <1>9, <1>12

\* The more are below, the later.
LEMMA RankOrders ==
    ASSUME NEW n \in Nat, NEW S, S \subseteq 0..n, NEW a \in S, NEW b \in S,
           Cardinality(Below(S, a)) <= Cardinality(Below(S, b))
    PROVE  a <= b
<1>1. SUFFICES ASSUME b < a PROVE FALSE  OBVIOUS
<1>2. a \in Int /\ b \in Int  OBVIOUS
<1>a. \A x \in S : x \in Int  OBVIOUS
<1>3. Below(S, b) \subseteq Below(S, a) /\ b \in Below(S, a) /\ b \notin Below(S, b)
  <2>1. \A x \in S : x < b => x < a  BY <1>1, <1>2, <1>a
  <2>2. b < a /\ ~(b < b)  BY <1>1, <1>2
  <2>. QED  BY <2>1, <2>2, InBelow
<1>4. /\ IsFiniteSet(Below(S, a)) /\ Cardinality(Below(S, a)) \in Nat
      /\ IsFiniteSet(Below(S, b)) /\ Cardinality(Below(S, b)) \in Nat
  BY <1>2, BelowIsFinite
<1>5. Cardinality(Below(S, b)) < Cardinality(Below(S, a))
  <2>1. Below(S, b) # Below(S, a)  BY <1>3
  <2>2. Cardinality(Below(S, b)) <= Cardinality(Below(S, a))
        /\ (Cardinality(Below(S, a)) = Cardinality(Below(S, b)) => Below(S, b) = Below(S, a))
    BY <1>3, <1>4, FS_Subset
  <2>. QED  BY <1>4, <2>1, <2>2
<1>. QED  BY <1>4, <1>5

-----------------------------------------------------------------------------
Scores == [folds : Nat, judged : Nat, profitable : Nat, total : Int, trades : Nat]
ScoreSound(s) == s \in Scores /\ s.profitable <= s.judged /\ s.judged <= s.folds

FoldSound(f) == f.train \subseteq Index /\ f.validation \subseteq Index /\ f.test \subseteq Index

\* No part of f has an outcome that is still open when a later part begins.
Precedes(earlier, later) ==
    \A t \in earlier, u \in later :
        t < u /\ ((t \in Samples /\ Resolution(t) - t <= embargo) => Resolution(t) <= u)
Keeps(f) ==
    Precedes(f.train, f.validation) /\ Precedes(f.validation, f.test) /\ Precedes(f.train, f.test)

WalkInv ==
    /\ method \in {"training", "replay", "single"}
    /\ bars \subseteq SessionTimes
    /\ horizon \in Nat \ {0} /\ embargo \in Nat /\ step \in Nat \ {0}
    /\ method = "single" => embargo > 0
    /\ cursor \in Nat \/ cursor = Ended
    /\ cursor # Ended => Index # {}
    /\ FoldSound(fold) /\ Keeps(fold)
    /\ \A f \in Families : ScoreSound(score[f])
    /\ conclusion.family \in Families \union {"none"} /\ conclusion.passed \in BOOLEAN

\* Bars are numbers, and finitely many.
LEMMA BarsAreTimes ==
    ASSUME bars \subseteq SessionTimes
    PROVE  \E n \in Nat : bars \subseteq 0..n /\ Samples \subseteq bars /\ Index \subseteq bars
<1>1. SessionTimes \subseteq 0..(Days * DayLength - 1)  BY DEF SessionTimes
<1>2. PICK n \in Nat : n = Days * DayLength - 1
  <2>1. PICK d \in Nat \ {0}, l \in Nat \ {0} : d = Days /\ l = DayLength
    BY WalkForwardAssumption
  <2>2. d * l \in Nat /\ d * l > 0  OBVIOUS
  <2>. QED  BY <2>1, <2>2
<1>3. Samples \subseteq bars /\ Index \subseteq bars  BY DEF Index, Samples
<1>4. bars \subseteq 0..n  BY <1>1, <1>2
<1>. QED  BY <1>3, <1>4

\* The label of a sample is resolved at a bar.
LEMMA ResolutionIsTime ==
    ASSUME bars \subseteq SessionTimes, horizon \in Nat, NEW t \in Samples
    PROVE  t \in Nat /\ Resolution(t) \in Nat
<1>1. PICK n \in Nat : bars \subseteq 0..n  BY BarsAreTimes
<1>2. t \in bars /\ BarsBefore(t) + horizon < Cardinality(bars)  BY DEF Samples
<1>3. t \in Nat  BY <1>1, <1>2
<1>a. \A m : BarsBefore(m) = Cardinality(Below(bars, m))  BY DEF BarsBefore, Below
<1>4. BarsBefore(t) \in Nat
  <2>1. t \in Int  BY <1>3
  <2>. QED  BY <1>1, <1>a, <2>1, BelowIsFinite
<1>5. PICK k \in Nat : k = BarsBefore(t) + horizon  BY <1>4
<1>6. \E r \in bars : Cardinality(Below(bars, r)) = k
  <2>1. k < Cardinality(bars)  BY <1>2, <1>5
  <2>. QED  BY <1>1, <2>1, RankExists
<1>7. \E r \in bars : BarsBefore(r) = BarsBefore(t) + horizon
  BY <1>5, <1>6, <1>a
<1>8. Resolution(t) \in bars  BY <1>7 DEF Resolution
<1>9. \A b \in bars : b \in Nat  BY <1>1
<1>. QED  BY <1>3, <1>8, <1>9

\* Parts on either side of an embargo.
LEMMA EmbargoSeparates ==
    ASSUME bars \subseteq SessionTimes, horizon \in Nat, embargo \in Nat,
           NEW earlier, NEW later, earlier \subseteq Index, later \subseteq Index,
           NEW cut \in Int,
           \A t \in earlier : t < cut \/ (t = cut /\ embargo > 0),
           \A u \in later : cut + embargo <= u
    PROVE  Precedes(earlier, later)
<1>1. PICK n \in Nat : bars \subseteq 0..n /\ Index \subseteq bars  BY BarsAreTimes
<1>2. ASSUME NEW t \in earlier, NEW u \in later
      PROVE  t < u /\ ((t \in Samples /\ Resolution(t) - t <= embargo) => Resolution(t) <= u)
  <2>1. t \in Nat /\ u \in Nat  BY <1>1
  <2>2. (t < cut \/ (t = cut /\ embargo > 0)) /\ cut + embargo <= u  OBVIOUS
  <2>3. t < u  BY <2>1, <2>2
  <2>4. ASSUME t \in Samples, Resolution(t) - t <= embargo
        PROVE  Resolution(t) <= u
    <3>1. PICK r \in Nat : r = Resolution(t)  BY <2>4, ResolutionIsTime
    <3>. QED  BY <2>1, <2>2, <2>4, <3>1
  <2>. QED  BY <2>3, <2>4
<1>. QED  BY <1>2 DEF Precedes

\* A rolling fold keeps its parts apart, by embargo and horizon.
LEMMA RollingKeeps ==
    ASSUME WalkInv, NEW start \in Nat
    PROVE  FoldSound(Rolling(start)) /\ Keeps(Rolling(start))
<1>. DEFINE trainEnd == start + TrainDays * DayLength
            validationStart == trainEnd + embargo
            validationEnd == validationStart + ValidationDays * DayLength
            testStart == IF method = "replay" THEN validationStart ELSE validationEnd + embargo
            testEnd == testStart + TestDays * DayLength
            r == Rolling(start)
<1>1. /\ bars \subseteq SessionTimes /\ horizon \in Nat /\ embargo \in Nat  BY DEF WalkInv
<1>2. PICK n \in Nat : bars \subseteq 0..n /\ Index \subseteq bars  BY <1>1, BarsAreTimes
<1>3. PICK d1 \in Nat, d2 \in Nat, d3 \in Nat :
           d1 = TrainDays * DayLength /\ d2 = ValidationDays * DayLength /\ d3 = TestDays * DayLength
  <2>1. PICK l \in Nat, t \in Nat, v \in Nat, s \in Nat :
             l = DayLength /\ t = TrainDays /\ v = ValidationDays /\ s = TestDays
    BY WalkForwardAssumption DEF ModelConfig
  <2>2. t * l \in Nat /\ v * l \in Nat /\ s * l \in Nat  OBVIOUS
  <2>. QED  BY <2>1, <2>2
<1>4. trainEnd = start + d1 /\ validationEnd = validationStart + d2 /\ testEnd = testStart + d3
  BY <1>3
<1>5. /\ r.train = Between(start, trainEnd)
      /\ r.validation = IF method = "replay" THEN {} ELSE Between(validationStart, validationEnd)
      /\ r.test = Between(testStart, testEnd)
  BY DEF Rolling
<1>6. trainEnd \in Nat /\ validationStart \in Nat /\ validationEnd \in Nat /\ testStart \in Nat
      /\ testEnd \in Nat /\ validationStart = trainEnd + embargo
      /\ trainEnd <= validationEnd /\ trainEnd + embargo <= testStart
      /\ (method # "replay" => testStart = validationEnd + embargo)
  BY <1>1, <1>4
<1>. HIDE DEF trainEnd, validationStart, validationEnd, testStart, testEnd, r
<1>7. FoldSound(r)  BY <1>5 DEF FoldSound, Between
<1>8. \A t \in Index : t \in Nat  BY <1>2
<1>9. /\ \A t \in r.train : t < trainEnd
      /\ \A t \in r.validation :
           method # "replay" /\ trainEnd + embargo <= t /\ t < validationEnd
      /\ \A t \in r.test : testStart <= t
  BY <1>5, <1>6 DEF Between
<1>10. Precedes(r.train, r.validation)
  BY <1>1, <1>6, <1>7, <1>9, EmbargoSeparates DEF FoldSound
<1>11. Precedes(r.train, r.test)
  <2>1. \A t \in r.test : trainEnd + embargo <= t  BY <1>1, <1>6, <1>7, <1>8, <1>9 DEF FoldSound
  <2>. QED  BY <1>1, <1>6, <1>7, <1>9, <2>1, EmbargoSeparates DEF FoldSound
<1>12. Precedes(r.validation, r.test)
  <2>1. CASE method = "replay"
    <3>1. r.validation = {}  BY <1>5, <2>1
    <3>. QED  BY <3>1 DEF Precedes
  <2>2. CASE method # "replay"
    <3>1. \A t \in r.test : validationEnd + embargo <= t  BY <1>6, <1>9, <2>2
    <3>2. \A t \in r.validation : t < validationEnd  BY <1>9
    <3>3. r.validation \subseteq Index /\ r.test \subseteq Index  BY <1>7 DEF FoldSound
    <3>. QED  BY <1>1, <1>6, <3>1, <3>2, <3>3, EmbargoSeparates
  <2>. QED  BY <2>1, <2>2
<1>. QED  BY <1>7, <1>10, <1>11, <1>12 DEF Keeps, r

\* The larger of two numbers is one of them.
LEMMA MaxOfTwo ==
    ASSUME NEW a \in Int, NEW b \in Int
    PROVE  /\ Max({a, b}) \in {a, b} /\ a <= Max({a, b}) /\ b <= Max({a, b})
<1>1. \E x \in {a, b} : \A y \in {a, b} : x >= y
  <2>1. CASE a >= b  BY <2>1
  <2>2. CASE ~(a >= b)  BY <2>2
  <2>. QED  BY <2>1, <2>2
<1>2. Max({a, b}) \in {a, b} /\ \A y \in {a, b} : Max({a, b}) >= y  BY <1>1 DEF Max
<1>3. PICK m \in Int : m = Max({a, b})  BY <1>2
<1>. QED  BY <1>2, <1>3

\* The chronological split keeps its parts apart when it has an embargo.
LEMMA ChronologicalKeeps ==
    ASSUME WalkInv, embargo > 0, Index # {}
    PROVE  FoldSound(Chronological) /\ Keeps(Chronological)
<1>1. /\ bars \subseteq SessionTimes /\ horizon \in Nat /\ embargo \in Nat  BY DEF WalkInv
<1>2. PICK top \in Nat : Index \subseteq 0..top  BY <1>1, BarsAreTimes
<1>3. PICK n \in Nat \ {0} : n = Cardinality(Index)
  <2>1. IsFiniteSet(Index) /\ Cardinality(Index) \in Nat
    <3>1. 0 \in Int  OBVIOUS
    <3>. QED  BY <1>2, <3>1, BelowIsFinite
  <2>. QED  BY <2>1, FS_EmptySet
<1>. DEFINE k1 == Max({0, (n * 6) \div 10 - 1})
            k2 == Max({0, (n * 8) \div 10 - 1})
<1>4. k1 \in Nat /\ k2 \in Nat /\ k1 <= k2 /\ k1 < n /\ k2 < n
  <2>1. PICK a \in Int, b \in Int : a = (n * 6) \div 10 - 1 /\ b = (n * 8) \div 10 - 1  OBVIOUS
  <2>2. a <= b /\ a < n /\ b < n  BY <2>1
  <2>3. /\ k1 \in {0, a} /\ 0 <= k1 /\ a <= k1 /\ k2 \in {0, b} /\ 0 <= k2 /\ b <= k2
    <3>1. \A x \in Int : /\ Max({0, x}) \in {0, x} /\ 0 <= Max({0, x}) /\ x <= Max({0, x})
      BY 0 \in Int, MaxOfTwo
    <3>2. k1 = Max({0, a}) /\ k2 = Max({0, b})  BY <2>1
    <3>. QED  BY <3>1, <3>2
  <2>. HIDE DEF k1, k2
  <2>. QED  BY <2>2, <2>3
<1>. HIDE DEF k1, k2
<1>5. ASSUME NEW k \in Nat, k < n
      PROVE  AtRank(k) \in Index /\ Cardinality(Below(Index, AtRank(k))) = k
  <2>0. k < Cardinality(Index)  BY <1>3, <1>5
  <2>1. \E t \in Index : Cardinality(Below(Index, t)) = k
    BY <1>2, <2>0, RankExists
  <2>2. AtRank(k) = CHOOSE t \in Index : Cardinality(Below(Index, t)) = k
    BY DEF AtRank, Below
  <2>. QED  BY <2>1, <2>2
<1>. DEFINE a == AtRank(k1)
            b == AtRank(k2)
            c == Chronological
<1>6. a \in Index /\ b \in Index /\ a <= b
  <2>1. a \in Index /\ Cardinality(Below(Index, a)) = k1  BY <1>4, <1>5
  <2>2. b \in Index /\ Cardinality(Below(Index, b)) = k2  BY <1>4, <1>5
  <2>. HIDE DEF a, b
  <2>3. Cardinality(Below(Index, a)) <= Cardinality(Below(Index, b))
    BY <1>4, <2>1, <2>2
  <2>. QED  BY <1>2, <2>1, <2>2, <2>3, RankOrders
<1>7. /\ c.train = {t \in Index : t <= a}
      /\ c.validation = {t \in Index : a + embargo <= t /\ t <= b}
      /\ c.test = {t \in Index : b + embargo <= t}
  BY <1>3 DEF Chronological, k1, k2
<1>. HIDE DEF a, b, c
<1>8. PICK x \in Nat, y \in Nat : x = a /\ y = b /\ x <= y  BY <1>2, <1>6
<1>9. FoldSound(c)  BY <1>7 DEF FoldSound
<1>10. /\ \A t \in c.train : t \in Nat /\ t <= x
       /\ \A t \in c.validation : t \in Nat /\ x + embargo <= t /\ t <= y
       /\ \A t \in c.test : t \in Nat /\ y + embargo <= t
  <2>1. \A t \in Index : t \in Nat  BY <1>2
  <2>2. /\ \A t \in c.train : t \in Index /\ t <= a
        /\ \A t \in c.validation : t \in Index /\ a + embargo <= t /\ t <= b
        /\ \A t \in c.test : t \in Index /\ b + embargo <= t
    BY <1>7
  <2>. QED  BY <1>8, <2>1, <2>2
<1>11. Precedes(c.train, c.validation)
  <2>1. \A t \in c.train : t < x \/ (t = x /\ embargo > 0)  BY <1>10
  <2>. QED  BY <1>1, <1>9, <1>10, <2>1, EmbargoSeparates DEF FoldSound
<1>12. Precedes(c.validation, c.test)
  <2>1. \A t \in c.validation : t < y \/ (t = y /\ embargo > 0)  BY <1>10
  <2>. QED  BY <1>1, <1>9, <1>10, <2>1, EmbargoSeparates DEF FoldSound
<1>13. Precedes(c.train, c.test)
  <2>1. \A t \in c.train : t < y \/ (t = y /\ embargo > 0)  BY <1>8, <1>10
  <2>. QED  BY <1>1, <1>9, <1>10, <2>1, EmbargoSeparates DEF FoldSound
<1>. QED  BY <1>9, <1>11, <1>12, <1>13 DEF Keeps, c

-----------------------------------------------------------------------------
\* Before the first fold there is nothing to keep apart.
LEMMA NoFoldSound == FoldSound(NoFold) /\ Keeps(NoFold)
BY DEF FoldSound, Keeps, Precedes, NoFold

\* Nothing is judged at the start.
LEMMA WalkInvInit == WalkInit => WalkInv
<1>. SUFFICES ASSUME WalkInit PROVE WalkInv  OBVIOUS
<1>1. /\ method \in {"training", "replay", "single"} /\ bars \subseteq SessionTimes
      /\ horizon \in Nat \ {0} /\ embargo \in Nat /\ step \in Nat \ {0}
      /\ method = "single" => embargo > 0
  BY WalkForwardAssumption DEF WalkInit, ModelConfig
<1>2. (cursor \in Nat \/ cursor = Ended) /\ (cursor # Ended => Index # {})
  <2>1. cursor = IF Index = {} THEN Ended ELSE First(Index)  BY DEF WalkInit
  <2>2. CASE Index = {}  BY <2>1, <2>2
  <2>3. CASE Index # {}
    <3>1. PICK n \in Nat : Index \subseteq 0..n  BY <1>1, BarsAreTimes
    <3>2. Index \subseteq Nat  BY <3>1
    <3>3. \E x \in Index : \A y \in Index : x <= y  BY <2>3, <3>2, LeastNumber
    <3>4. First(Index) \in Index  BY <3>3 DEF First, Min
    <3>. QED  BY <2>1, <2>3, <3>2, <3>4
  <2>. QED  BY <2>2, <2>3
<1>3. FoldSound(fold) /\ Keeps(fold)  BY NoFoldSound DEF WalkInit
<1>4. \A f \in Families : ScoreSound(score[f])  BY DEF WalkInit, NoScore, ScoreSound, Scores
<1>5. conclusion.family \in Families \union {"none"} /\ conclusion.passed \in BOOLEAN
  BY DEF WalkInit, Undecided
<1>. QED  BY <1>1, <1>2, <1>3, <1>4, <1>5 DEF WalkInv

\* A window that is judged counts once.
LEMMA JoinedSound ==
    ASSUME NEW s, ScoreSound(s), NEW result \in Int, NEW trades \in Nat
    PROVE  ScoreSound(Joined(s, result, trades))
<1>1. PICK f \in Nat, j \in Nat, p \in Nat, t \in Int, r \in Nat :
           f = s.folds /\ j = s.judged /\ p = s.profitable /\ t = s.total /\ r = s.trades
           /\ p <= j /\ j <= f
  BY DEF ScoreSound, Scores
<1>2. PICK w \in {0, 1} : w = IF result > 0 THEN 1 ELSE 0  OBVIOUS
<1>3. Joined(s, result, trades) =
        [folds |-> f + 1, judged |-> j + 1, profitable |-> p + w, total |-> t + result,
         trades |-> r + trades]
  BY <1>1, <1>2 DEF Joined
<1>4. f + 1 \in Nat /\ j + 1 \in Nat /\ p + w \in Nat /\ t + result \in Int /\ r + trades \in Nat
      /\ p + w <= j + 1 /\ j + 1 <= f + 1
  BY <1>1, <1>2
<1>. QED  BY <1>3, <1>4 DEF ScoreSound, Scores

\* A fold counts once, whatever training makes of it.
LEMMA TrainedSound ==
    ASSUME NEW s, ScoreSound(s), NEW t \in Trained(s)
    PROVE  ScoreSound(t)
<1>1. CASE t = s  BY <1>1
<1>2. CASE t = [s EXCEPT !.folds = @ + 1]
  <2>1. s \in Scores /\ s.folds \in Nat /\ s.folds + 1 \in Nat  BY DEF ScoreSound, Scores
  <2>2. t \in Scores /\ t.folds = s.folds + 1 /\ t.judged = s.judged /\ t.profitable = s.profitable
    BY <1>2, <2>1 DEF Scores
  <2>3. s.judged \in Nat /\ s.judged <= s.folds  BY DEF ScoreSound, Scores
  <2>. QED  BY <2>1, <2>2, <2>3 DEF ScoreSound
<1>3. CASE \E result \in FoldResults : t = Joined(s, result, 0)
  BY <1>3, JoinedSound, WalkForwardAssumption
<1>. QED  BY <1>1, <1>2, <1>3 DEF Trained

\* No step makes a fold that leaks.
LEMMA WalkInvStep == WalkInv /\ [WalkNext]_walkVars => WalkInv'
<1>. SUFFICES ASSUME WalkInv, [WalkNext]_walkVars PROVE WalkInv'  OBVIOUS
<1>1. ASSUME UNCHANGED <<method, bars, horizon, embargo, step>>,
             cursor' \in Nat \/ cursor' = Ended, cursor' # Ended => cursor # Ended,
             FoldSound(fold'), Keeps(fold'),
             \A f \in Families : ScoreSound(score'[f]),
             conclusion'.family \in Families \union {"none"}, conclusion'.passed \in BOOLEAN
      PROVE  WalkInv'
  <2>1. UNCHANGED <<Samples, Index>>  BY <1>1 DEF Samples, Index, BarsBefore
  <2>2. FoldSound(fold)'  BY <1>1, <2>1 DEF FoldSound
  <2>3. Keeps(fold)'  BY <1>1, <2>1 DEF Keeps, Precedes, Resolution, BarsBefore
  <2>. QED  BY <1>1, <2>1, <2>2, <2>3 DEF WalkInv
<1>2. CASE Cut
  <2>. DEFINE w == Rolling(cursor)
  <2>1. cursor \in Nat /\ cursor # Ended /\ method # "single"  BY <1>2 DEF Cut, WalkInv
  <2>2. FoldSound(w) /\ Keeps(w)  BY <2>1, RollingKeeps
  <2>3. fold' = [train |-> w.train, validation |-> w.validation, test |-> w.test]
        \/ fold' = NoFold
    BY <1>2 DEF Cut
  <2>4. FoldSound(fold') /\ Keeps(fold')
    <3>. HIDE DEF w
    <3>1. CASE fold' = NoFold  BY <3>1, NoFoldSound
    <3>2. CASE fold' = [train |-> w.train, validation |-> w.validation, test |-> w.test]
      BY <2>2, <3>2 DEF FoldSound, Keeps
    <3>. QED  BY <2>3, <3>1, <3>2
  <2>5. cursor' \in Nat
    <3>1. PICK a \in Nat, b \in Nat, c \in Nat : a = step /\ b = DayLength /\ c = cursor
      BY <2>1, WalkForwardAssumption DEF WalkInv
    <3>2. a * b \in Nat  OBVIOUS
    <3>3. cursor' = c + a * b  BY <1>2, <3>1 DEF Cut
    <3>. QED  BY <3>2, <3>3
  <2>6. \A f \in Families : ScoreSound(score[f])  BY DEF WalkInv
  <2>7. \A f \in Families : ScoreSound(score'[f])
    <3>1. \/ UNCHANGED score
          \/ \A f \in Families : score'[f] \in Trained(score[f])
          \/ \E f \in Families : \E s \in Replayed(score[f]) : score' = [g \in Families |-> s]
      BY <1>2 DEF Cut
    <3>2. CASE UNCHANGED score  BY <2>6, <3>2
    <3>3. CASE \A f \in Families : score'[f] \in Trained(score[f])
      BY <2>6, <3>3, TrainedSound
    <3>4. CASE \E f \in Families : \E s \in Replayed(score[f]) : score' = [g \in Families |-> s]
      <4>1. PICK f \in Families : \E s \in Replayed(score[f]) : score' = [g \in Families |-> s]
        BY <3>4
      <4>2. PICK result \in FoldResults, trades \in FoldTrades :
                 score' = [g \in Families |-> Joined(score[f], result, trades)]
        BY <4>1 DEF Replayed
      <4>3. ScoreSound(Joined(score[f], result, trades))
        BY <2>6, JoinedSound, WalkForwardAssumption
      <4>. QED  BY <4>2, <4>3
    <3>. QED  BY <3>1, <3>2, <3>3, <3>4
  <2>8. UNCHANGED <<method, bars, horizon, embargo, step, conclusion>>  BY <1>2 DEF Cut
  <2>. QED  BY <1>1, <2>1, <2>4, <2>5, <2>7, <2>8 DEF WalkInv
<1>3. CASE CutOnce
  <2>1. method = "single" /\ cursor # Ended /\ cursor' = Ended /\ fold' = Chronological
        /\ UNCHANGED <<method, bars, horizon, embargo, step, score, conclusion>>
    BY <1>3 DEF CutOnce
  <2>2. FoldSound(fold') /\ Keeps(fold')  BY <2>1, ChronologicalKeeps DEF WalkInv
  <2>. QED  BY <1>1, <2>1, <2>2 DEF WalkInv
<1>4. CASE Conclude
  <2>1. cursor' = Ended /\ fold' = NoFold /\ UNCHANGED <<method, bars, horizon, embargo, step, score>>
    BY <1>4 DEF Conclude
  <2>2. conclusion'.family \in Families \union {"none"} /\ conclusion'.passed \in BOOLEAN
    <3>1. CASE UNCHANGED conclusion  BY <3>1 DEF WalkInv
    <3>2. CASE ~UNCHANGED conclusion
      <4>1. PICK f \in Families, refitted \in BOOLEAN :
                 conclusion' = [family |-> f, passed |-> Passes(score[f]) /\ refitted]
        BY <1>4, <3>2 DEF Conclude
      <4>2. (Passes(score[f]) /\ refitted) \in BOOLEAN  OBVIOUS
      <4>. QED  BY <4>1, <4>2
    <3>. QED  BY <3>1, <3>2
  <2>. QED  BY <1>1, <2>1, <2>2, NoFoldSound DEF WalkInv
<1>5. CASE UNCHANGED walkVars
  <2>1. UNCHANGED <<method, bars, horizon, embargo, step, cursor, fold, score, conclusion>>
    BY <1>5 DEF walkVars
  <2>. QED  BY <1>1, <2>1 DEF WalkInv
<1>. QED  BY <1>2, <1>3, <1>4, <1>5 DEF WalkNext

\* What the invariant says of types.
LEMMA WalkInvTypes == WalkInv => WalkTypeOK
<1>. SUFFICES ASSUME WalkInv PROVE WalkTypeOK  OBVIOUS
<1>1. cursor \in Int  BY DEF WalkInv, Ended
<1>2. UNION {fold.train, fold.validation, fold.test} \subseteq Index  BY DEF WalkInv, FoldSound
<1>3. \A f \in Families : score[f].profitable \in 0..score[f].judged
                          /\ score[f].judged \in 0..score[f].folds
  BY DEF WalkInv, ScoreSound, Scores
<1>. QED  BY <1>1, <1>2, <1>3 DEF WalkInv, WalkTypeOK

\* No label of a training or validation bar reaches into the bars the fold is judged on, for
\* every history, horizon, embargo and step, and with bars missing.
THEOREM NothingLeaks == WalkSpec => [](WalkTypeOK /\ NoFoldLeaks)
<1>1. WalkInv => WalkTypeOK /\ NoFoldLeaks
  BY WalkInvTypes DEF WalkInv, Keeps, Precedes, NoFoldLeaks
<1>. QED  BY <1>1, WalkInvInit, WalkInvStep, PTL DEF WalkSpec

-----------------------------------------------------------------------------
(* The whole *)

\* Whatever the parts do, each of them behaves as it does alone: a step of the whole is a
\* step of one part and leaves the others, and what holds of a part holds of it here.
THEOREM PartsImplemented ==
    LifecycleSpec => /\ DeskSpec /\ SessionSpec /\ HealthSpec /\ EventSpec
                     /\ RegistrySpec /\ MarketDataSpec /\ BacktestSpec /\ WalkSpec
<1>1. LifecycleInit => /\ DeskInit /\ SessionInit /\ HealthInit /\ EventInit
                       /\ RegistryInit /\ MarketDataInit /\ BacktestInit /\ WalkInit
  BY DEF LifecycleInit
<1>2. [LifecycleNext]_lifecycleVars =>
        /\ [DeskNext]_deskVars /\ [SessionNext]_sessionVars /\ [HealthNext]_healthVars
        /\ [EventNext]_eventVars /\ [RegistryNext]_registryVars
        /\ [MarketDataNext]_marketDataVars /\ [BacktestNext]_backtestVars /\ [WalkNext]_walkVars
  BY DEF LifecycleNext, lifecycleVars
<1>. QED  BY <1>1, <1>2, PTL
          DEF LifecycleSpec, DeskSpec, SessionSpec, HealthSpec, EventSpec, RegistrySpec,
              MarketDataSpec, BacktestSpec, WalkSpec

\* The types of every part and its promises hold while the parts move one at a time.
THEOREM LifecycleSafe ==
    LifecycleSpec => [](/\ TypeOK /\ RefusalsExplained /\ CalendarIsHeeded
                        /\ ActiveIsEarned /\ ResultsNotInflated /\ NoFoldLeaks)
<1>1. RegistryInv => RegistryTypeOK  BY DEF RegistryInv
<1>2. /\ DeskTypeOK /\ SessionTypeOK /\ HealthTypeOK /\ EventTypeOK /\ RegistryTypeOK
      /\ MarketDataTypeOK /\ BacktestTypeOK /\ WalkTypeOK
      => TypeOK
  BY DEF TypeOK
<1>. QED  BY <1>1, <1>2, PartsImplemented, DeskTypesKept, RefusalsAreExplained, HealthTypesKept,
             CalendarHeeded, RegistryInvariant, LiveModelsAreEarned, MarketDataTypes,
             NothingInflated, NothingLeaks, PTL

=============================================================================
