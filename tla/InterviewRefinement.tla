------------------------ MODULE InterviewRefinement ------------------------
(* InterviewSession implements InterviewLifecycle, session by session.     *)
EXTENDS InterviewSession

Life(s) == INSTANCE InterviewLifecycle WITH
               status <- sess[s].status, round <- sess[s].round,
               warnings <- sess[s].warnings, paused <- sess[s].paused # Unset

LifeStep == \A s \in Sessions : [Life(s)!LifeNext]_(Life(s)!lifeVars)

\* Seen through the fields its clients are told, every session lives as the
\* abstract lifecycle says, whatever races behind it in interview_service.py and
\* proctoring_service.py: verdicts come only to active sessions, termination only
\* after the last warning, a pause only for a final warning, one warning at a time.
\* (The box is outside the quantifier, which is the same formula and the form TLC
\* checks.)
ImplementsLifecycle == (\A s \in Sessions : Life(s)!LifeInit) /\ [][LifeStep]_vars
=============================================================================
