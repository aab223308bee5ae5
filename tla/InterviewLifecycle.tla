------------------------- MODULE InterviewLifecycle -------------------------
(***************************************************************************)
(* What an interview session promises to whoever looks at it from outside: *)
(* the fields of the session document that apps/api reports to its clients *)
(* and the ways they may change, whichever handler, sweep or late write    *)
(* does it.  InterviewSession is the detailed specification and implements *)
(* this one for each session; the rooms of the web and mobile clients      *)
(* (InterviewRoom, MobileRoom) are built on it as their server.            *)
(***************************************************************************)
EXTENDS Integers

CONSTANT WarningsBeforeTermination

VARIABLES
    status, round,   \* status and current_round
    warnings,        \* warning_count
    paused           \* is paused_at set: a final warning waits to be acknowledged

lifeVars == <<status, round, warnings, paused>>

InProgress == {"technical_in_progress", "behavioral_in_progress"}
ACTIVE_STATUSES == {"created"} \cup InProgress
Terminal == {"completed", "abandoned", "expired", "terminated_violations"}

Active == status \in ACTIVE_STATUSES

LifeTypeOK ==
    /\ status \in {"none"} \cup ACTIVE_STATUSES \cup Terminal
    /\ round \in {"technical", "behavioral"}
    /\ warnings \in Nat
    /\ paused \in BOOLEAN

LifeInit == status = "none" /\ round = "technical" /\ warnings = 0 /\ paused = FALSE

Created ==
    /\ status = "none" /\ status' = "created"
    /\ UNCHANGED <<round, warnings, paused>>

\* The technical clock starts.  The write matches the session alone, so it may
\* come late and find any status, even a terminal one.
ToTechnical ==
    /\ status # "none"
    /\ status' = "technical_in_progress"
    /\ UNCHANGED <<round, warnings, paused>>

ToBehavioral ==
    /\ status # "none"
    /\ status' = "behavioral_in_progress" /\ round' = "behavioral"
    /\ UNCHANGED <<warnings, paused>>

\* Every verdict is an update guarded on the session being active, and
\* termination takes one violation more than there are warnings.
Close(verdict) ==
    /\ Active
    /\ verdict = "terminated_violations" => warnings > WarningsBeforeTermination
    /\ status' = verdict
    /\ UNCHANGED <<round, warnings, paused>>

Warn ==
    /\ Active
    /\ warnings' = warnings + 1
    /\ UNCHANGED <<status, round, paused>>

Pause ==
    /\ warnings >= WarningsBeforeTermination
    /\ paused' = TRUE
    /\ UNCHANGED <<status, round, warnings>>

Unpause ==
    /\ status # "none"
    /\ paused' = FALSE
    /\ UNCHANGED <<status, round, warnings>>

LifeNext ==
    \/ Created \/ ToTechnical \/ ToBehavioral
    \/ \E verdict \in Terminal : Close(verdict)
    \/ Warn \/ Pause \/ Unpause

LifeSpec == LifeInit /\ [][LifeNext]_lifeVars
=============================================================================
