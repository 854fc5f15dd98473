----------------------------- MODULE EventRisk -----------------------------
(***************************************************************************)
(* events/risk.py: the operator's calendar on disk, the provider that      *)
(* reads it again when its mtime changes, and the window the risk engine   *)
(* is told of before an entry.  Every edit gives the file another mtime.   *)
(***************************************************************************)
EXTENDS Integers, FiniteSets

CONSTANTS
    Underlyings,
    Calendars,     \* sets of events the operator may write
    HighActions,   \* values of high_impact_action
    Before, After, \* blackout minutes
    LastTime,      \* bound: the time the model runs for
    MaxEdits       \* bound: edits of the file

Wide == "market"   \* an event with no affected list
Impacts == 0..2    \* LOW, MEDIUM, HIGH
High == 2

\* EventRiskConfig
EventRiskConfig ==
    /\ {Before, After} \subseteq Nat
    /\ HighActions \subseteq {"block_new", "close_positions", "reduce_risk", "continue"}

ASSUME EventAssumption ==
    /\ EventRiskConfig
    /\ Wide \notin Underlyings
    /\ {LastTime, MaxEdits} \subseteq Nat
    /\ \A cal \in Calendars : IsFiniteSet(cal) /\
         cal \subseteq [at : Nat, impact : Impacts, scope : Underlyings \union {Wide}]

VARIABLES
    time,
    highAction,
    file,      \* what is on disk, one of Files
    mtime,     \* of the file
    cache,     \* _cache of the process
    seen,      \* _mtime of the process, or Never
    window,    \* the assessment of the last step, or NoWindow
    lastGood,  \* history: the last well-formed calendar on disk
    wasRead    \* history: this process has read it

eventVars == <<time, highAction, file, mtime, cache, seen, window, lastGood, wasRead>>

Malformed == [kind |-> "malformed", events |-> {}]
Missing == [kind |-> "missing", events |-> {}]
Files == {Malformed, Missing} \union {[kind |-> "calendar", events |-> cal] : cal \in Calendars}
Readable == file.kind = "calendar"
Never == -1
NoWindow == [underlying |-> Wide, action |-> "none"]

Affects(e, u) == e.scope = Wide \/ e.scope = u
InWindow(e, now) == e.at - Before <= now /\ now <= e.at + After

\* assess: the event of the highest impact decides for all of them.
Action(calendar, u, now) ==
    LET open == {e \in calendar : Affects(e, u) /\ InWindow(e, now)}
        Worst(n) == (\E e \in open : e.impact = n) /\ \A e \in open : e.impact <= n IN
    IF Worst(High) THEN highAction ELSE IF Worst(1) THEN "reduce_risk" ELSE "continue"

\* Mutant: a calendar that cannot be parsed is taken for an empty one.
LoadedOrEmpty ==
    IF ~Readable THEN {} ELSE IF seen = mtime THEN cache ELSE file.events

\* _load: a missing file is an empty calendar, an unreadable one leaves the last one.
Loaded ==
    IF file = Missing THEN {}
    ELSE IF seen = mtime \/ file = Malformed THEN cache
    ELSE file.events

-----------------------------------------------------------------------------
EventInit ==
    /\ time = 0 /\ highAction \in HighActions
    /\ file \in Files /\ mtime = 0
    /\ cache = {} /\ seen = Never /\ window = NoWindow
    /\ lastGood = file.events
    /\ wasRead = FALSE

TimePasses ==
    /\ time < LastTime
    /\ time' = time + 1 /\ window' = NoWindow
    /\ UNCHANGED <<highAction, file, mtime, cache, seen, lastGood, wasRead>>

\* The operator saves a calendar, saves a broken one, or removes it.
Edit ==
    /\ mtime < MaxEdits
    /\ mtime' = mtime + 1 /\ window' = NoWindow
    /\ file' \in Files
    /\ IF file'.kind = "calendar" THEN lastGood' = file'.events /\ wasRead' = FALSE
       ELSE UNCHANGED <<lastGood, wasRead>>
    /\ UNCHANGED <<time, highAction, cache, seen>>

Restart ==
    /\ cache' = {} /\ seen' = Never /\ wasRead' = FALSE /\ window' = NoWindow
    /\ UNCHANGED <<time, highAction, file, mtime, lastGood>>

\* assess, as the risk engine asks before an entry in u.
AssessWindow(u) ==
    /\ cache' = Loaded
    /\ seen' = IF file = Missing THEN Never ELSE mtime
    /\ wasRead' = ((wasRead /\ file # Missing) \/ Readable)
    /\ window' = [underlying |-> u, action |-> Action(Loaded, u, time)]
    /\ UNCHANGED <<time, highAction, file, mtime, lastGood>>

EventNext == TimePasses \/ Edit \/ Restart \/ \E u \in Underlyings : AssessWindow(u)

EventSpec == EventInit /\ [][EventNext]_eventVars

-----------------------------------------------------------------------------
EventTypeOK ==
    /\ time \in 0..LastTime /\ mtime \in 0..MaxEdits
    /\ highAction \in HighActions
    /\ file \in Files
    /\ cache \in Calendars \union {{}} /\ lastGood \in Calendars \union {{}}
    /\ seen \in Never..MaxEdits /\ wasRead \in BOOLEAN
    /\ window \in [underlying : Underlyings \union {Wide},
                   action : HighActions \union {"none", "reduce_risk", "continue"}]

\* The bot never trades straight through an event: what it is told about an underlying
\* is what the last well-formed calendar on disk says, also while the file is broken.
\* Two holes are left: a removed file, and a broken one that this process found before
\* it had read the calendar it replaced, as after a restart.
CalendarIsHeeded ==
    LET u == window.underlying IN
    (window # NoWindow /\ file # Missing /\ (Readable \/ wasRead)) =>
        window.action = Action(lastGood, u, time)

=============================================================================
