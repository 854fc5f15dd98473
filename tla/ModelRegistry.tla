---------------------------- MODULE ModelRegistry ----------------------------
(***************************************************************************)
(* ml/registry.py: the index of models, one JSON file that every command   *)
(* of the research CLI loads whole, changes and writes whole, through a    *)
(* temporary file of one fixed name.  Nothing locks the directory: two     *)
(* commands may share that temporary file, and one that has opened it goes *)
(* on writing into it after the other has renamed it to the index.         *)
(***************************************************************************)
EXTENDS Integers, FiniteSets

CONSTANTS
    Commands,    \* processes of the research CLI
    Models,
    FamilyOf     \* the family of each model

ASSUME RegistryAssumption == FamilyOf \in [Models -> STRING]

VARIABLES
    passing,     \* the models whose walk-forward verdict passed: fixed by their training
    index,       \* registry.json
    draft,       \* registry.tmp
    phase,       \* of each command: where its _save is
    records,     \* _records of each command
    target,      \* which of the two files the open handle of a command reaches
    survivedPaper \* history: models some saved records showed in PAPER

registryVars == <<passing, index, draft, phase, records, target, survivedPaper>>

Statuses == {"RESEARCH", "VALIDATION", "PAPER", "ACTIVE", "RETIRED"}
Unknown == "unknown"                        \* a model the records do not hold
NoRecords == [m \in Models |-> Unknown]
RecordSets == [Models -> Statuses \union {Unknown}]

\* A file: absent, readable with the records it holds, or neither (truncated or mixed).
Absent == [state |-> "absent", records |-> NoRecords]
Broken == [state |-> "broken", records |-> NoRecords]
Holds(recs) == [state |-> "readable", records |-> recs]

\* Mutant: a validated model goes live without paper trading.
AllowedWithoutPaper(from) ==
    CASE from = "RESEARCH" -> {"VALIDATION", "RETIRED"}
      [] from = "VALIDATION" -> {"PAPER", "ACTIVE", "RESEARCH", "RETIRED"}
      [] from = "PAPER" -> {"ACTIVE", "VALIDATION", "RETIRED"}
      [] from = "ACTIVE" -> {"PAPER", "RETIRED"}
      [] from = "RETIRED" -> {"RESEARCH"}

\* _ALLOWED_TRANSITIONS
Allowed(from) ==
    CASE from = "RESEARCH" -> {"VALIDATION", "RETIRED"}
      [] from = "VALIDATION" -> {"PAPER", "RESEARCH", "RETIRED"}
      [] from = "PAPER" -> {"ACTIVE", "VALIDATION", "RETIRED"}
      [] from = "ACTIVE" -> {"PAPER", "RETIRED"}
      [] from = "RETIRED" -> {"RESEARCH"}

\* register: the id names family, second and data, so a model is never registered over
\* another, and every model enters as RESEARCH.
Registered(recs, m) == [recs EXCEPT ![m] = "RESEARCH"]

\* promote, once it has accepted: the ACTIVE model of the family is superseded.
Promoted(recs, m, status) ==
    [o \in Models |->
        IF o = m THEN status
        ELSE IF status = "ACTIVE" /\ recs[o] = "ACTIVE" /\ FamilyOf[o] = FamilyOf[m]
             THEN "RETIRED" ELSE recs[o]]

\* promote without force, as the CLI calls it.
MayPromote(recs, m, status) ==
    /\ recs[m] # Unknown /\ status # recs[m]
    /\ status \in Allowed(recs[m])
    /\ status = "ACTIVE" => m \in passing

-----------------------------------------------------------------------------
RegistryInit ==
    /\ passing \in (SUBSET Models) \ {{}}   \* without one nothing is ever ACTIVE
    /\ index = Absent /\ draft = Absent
    /\ phase = [c \in Commands |-> "out"]
    /\ records = [c \in Commands |-> NoRecords]
    /\ target = [c \in Commands |-> "none"]
    /\ survivedPaper = {}

\* __init__ and _load: an index that does not parse is an empty one.  What the command
\* does to its records before it saves them nobody sees; one that refuses saves nothing.
Loads(c, recs) ==
    /\ phase[c] = "out"
    /\ phase' = [phase EXCEPT ![c] = "saving"]
    /\ records' = [records EXCEPT ![c] = recs]
    /\ UNCHANGED <<passing, index, draft, target>>

\* `research train`: a model that could be fitted is registered, passed or not.
Register(c, m) ==
    /\ index.records[m] = Unknown
    /\ Loads(c, Registered(index.records, m))
    /\ UNCHANGED survivedPaper

Promote(c, m, status) ==
    /\ MayPromote(index.records, m, status)
    /\ Loads(c, Promoted(index.records, m, status))
    /\ survivedPaper' = IF status = "PAPER" THEN survivedPaper \union {m} ELSE survivedPaper

\* write_text opens registry.tmp and truncates it.
Truncate(c) ==
    /\ phase[c] = "saving"
    /\ phase' = [phase EXCEPT ![c] = "open"]
    /\ target' = [target EXCEPT ![c] = "draft"]
    /\ draft' = Broken
    /\ UNCHANGED <<passing, index, records, survivedPaper>>

\* ... and writes from the start of the file, over what another handle wrote there.
Over(content, recs) == IF content = Broken THEN {Holds(recs)} ELSE {Holds(recs), Broken}

Write(c) ==
    /\ phase[c] = "open"
    /\ phase' = [phase EXCEPT ![c] = "written"]
    /\ \/ target[c] = "draft" /\ draft' \in Over(draft, records[c]) /\ UNCHANGED index
       \/ target[c] = "index" /\ index' \in Over(index, records[c]) /\ UNCHANGED draft
       \/ target[c] = "none" /\ UNCHANGED <<index, draft>>
    /\ records' = [records EXCEPT ![c] = NoRecords]   \* which nothing reads again
    /\ UNCHANGED <<passing, target, survivedPaper>>

\* tmp.replace: whatever registry.tmp is by now becomes the index, for every handle on
\* it too.  With registry.tmp gone the command ends in FileNotFoundError.
Handles(c) ==
    [d \in Commands |->
        IF d = c THEN "none"
        ELSE IF target[d] = "draft" THEN "index"
        ELSE IF target[d] = "index" THEN "none" ELSE target[d]]

Replace(c) ==
    /\ phase[c] = "written"
    /\ phase' = [phase EXCEPT ![c] = "out"]
    /\ IF draft.state = "absent" THEN target' = [target EXCEPT ![c] = "none"]
                                      /\ UNCHANGED <<index, draft>>
       ELSE index' = draft /\ draft' = Absent /\ target' = Handles(c)
    /\ UNCHANGED <<passing, records, survivedPaper>>

\* A crash, or an operator's Ctrl-C, ends a command anywhere.
Crash(c) ==
    /\ phase[c] # "out"
    /\ phase' = [phase EXCEPT ![c] = "out"]
    /\ target' = [target EXCEPT ![c] = "none"]
    /\ records' = [records EXCEPT ![c] = NoRecords]
    /\ UNCHANGED <<passing, index, draft, survivedPaper>>

RegistryNext ==
    \E c \in Commands :
        \/ \E m \in Models : Register(c, m)
        \/ \E m \in Models, status \in Statuses : Promote(c, m, status)
        \/ Truncate(c) \/ Write(c) \/ Replace(c) \/ Crash(c)

RegistrySpec == RegistryInit /\ [][RegistryNext]_registryVars

-----------------------------------------------------------------------------
RegistryTypeOK ==
    /\ {index, draft} \subseteq
         [state : {"absent", "broken", "readable"}, records : RecordSets]
    /\ phase \in [Commands -> {"out", "saving", "open", "written"}]
    /\ records \in [Commands -> RecordSets]
    /\ target \in [Commands -> {"none", "draft", "index"}]
    /\ survivedPaper \subseteq Models /\ passing \subseteq Models

\* A model earns live capital: whatever the commands do to each other, every model a
\* readable index shows as ACTIVE passed its walk-forward and was in PAPER before, and
\* no family has two of them, so it is never ambiguous which model took a decision.
ActiveIsEarned ==
    LET active == {m \in Models : index.records[m] = "ACTIVE"} IN
    /\ active \subseteq passing \intersect survivedPaper
    /\ \A m, o \in active : FamilyOf[m] = FamilyOf[o] => m = o

=============================================================================
