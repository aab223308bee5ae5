----------------------------- MODULE WebPractice -----------------------------
(***************************************************************************)
(* The practice page of the web client (pages/Practice.jsx): problems that *)
(* are solved in an editor, by choosing an option or with a written        *)
(* design.  Another problem can be picked at any time, while the one shown *)
(* stays until the picked one was loaded; what a handler asks for is of    *)
(* the problem that was shown when it was called.                          *)
(***************************************************************************)
EXTENDS ClientCalls, Sequences

CONSTANTS
    Problems,   \* of each problem: question_type, languages (a sequence), diagram
    Workloads

VARIABLES page, does

practiceVars == <<page, net, lost, does>>

None == "none"
Ids == DOMAIN Problems
Type(p) == IF p = None THEN "code" ELSE Problems[p].question_type
Languages(p) == {Problems[p].languages[i] : i \in DOMAIN Problems[p].languages}
AllLanguages == UNION {Languages(p) : p \in Ids}

\* The editor: nothing, something typed, or the starter code of a problem.
Typed == [of |-> None, in |-> "typed"]
Blank == [of |-> None, in |-> "blank"]
Starter(p, l) == [of |-> p, in |-> l]
Codes == {Typed, Blank} \cup {Starter(p, l) : p \in Ids, l \in AllLanguages}

Graded == {"submit", "mcq", "design"}
Kinds == Graded \cup {"list", "problem", "run", "submissions"}

Page == [listed: BOOLEAN, problemId: Ids \cup {None}, problem: Ids \cup {None},
         loadingProblem: BOOLEAN, language: AllLanguages \cup {"python"}, code: Codes,
         running: BOOLEAN, submitting: BOOLEAN, error: BOOLEAN,
         result: {None, "run", "submit", "contest"},
         tab: {"description", "submissions"},
         submissions: {None, "listed"}, loadingSubmissions: BOOLEAN,
         selectedOption: BOOLEAN, mcqResult: BOOLEAN,
         designAnswer: BOOLEAN, designResult: BOOLEAN,
         exporting: Ids \cup {None}]     \* the diagram that is turned into an image
PageFirst == [listed |-> FALSE, problemId |-> None, problem |-> None,
              loadingProblem |-> TRUE, language |-> "python", code |-> Blank,
              running |-> FALSE, submitting |-> FALSE, error |-> FALSE, result |-> None,
              tab |-> "description", submissions |-> None, loadingSubmissions |-> FALSE,
              selectedOption |-> FALSE, mcqResult |-> FALSE,
              designAnswer |-> FALSE, designResult |-> FALSE, exporting |-> None]

PracticeTypeOK ==
    /\ page \in Page /\ does \in Workloads /\ lost \in 0 .. MaxLost
    /\ DOMAIN net = Kinds
    /\ page.exporting # None => page.submitting

PracticeInit ==
    /\ does \in Workloads /\ lost = 0
    /\ page = PageFirst
    /\ net = [NoCalls(Kinds) EXCEPT !["list"] = {Sent(None)}]

Same == UNCHANGED <<lost, does>>
Stays(p) == page' = p /\ UNCHANGED net /\ Same
Offered == Ids \cap does                   \* a workload names its problems

-----------------------------------------------------------------------------
(* The list and the problem                                                 *)

\* The effect of another problemId forgets what was answered to the last one.
Selected(p) ==
    [page EXCEPT !.problemId = p, !.loadingProblem = TRUE, !.result = None, !.error = FALSE,
                 !.submissions = None, !.selectedOption = FALSE, !.mcqResult = FALSE,
                 !.designAnswer = FALSE, !.designResult = FALSE]

\* The problem the address asks for, or the first.
DeliverList ==
    \E c \in Came("list") :
        /\ IF Ok(c) /\ c.ans # {}
           THEN \E p \in c.ans : /\ page' = [Selected(p) EXCEPT !.listed = TRUE]
                                 /\ net' = Asking(Without(net, "list", c), "problem", p)
           ELSE /\ Take("list", c)
                /\ page' = [page EXCEPT !.loadingProblem = FALSE, !.error = ~Ok(c)]
        /\ Same

SelectShown == page.listed /\ Cardinality(Offered) > 1
SelectProblem(p) ==
    /\ SelectShown /\ p \in Offered /\ p # page.problemId /\ CanAsk("problem", p)
    /\ page' = Selected(p)
    /\ net' = Asking(net, "problem", p)
    /\ Same

CodeView(p) == p # None /\ Type(p) \in {"code", "sql"}
McqView(p) == p # None /\ Type(p) = "mcq"
DesignView(p) == p # None /\ Type(p) = "design"

\* Whichever problem comes is shown.  Between two problems of the editor the tabs
\* stay as they are.
DeliverProblem ==
    \E c \in Came("problem") :
        /\ Take("problem", c)
        /\ page' = IF ~Ok(c) THEN [page EXCEPT !.error = TRUE, !.loadingProblem = FALSE]
                   ELSE LET first == IF Problems[c.to].languages = <<>> THEN "python"
                                     ELSE Head(Problems[c.to].languages)
                        IN  [page EXCEPT !.problem = c.to, !.loadingProblem = FALSE,
                                !.language = first,
                                !.code = IF Problems[c.to].languages = <<>> THEN Blank
                                         ELSE Starter(c.to, first),
                                !.tab = IF CodeView(c.to) THEN @ ELSE "description"]
        /\ Same

-----------------------------------------------------------------------------
(* The editor                                                               *)

LanguageShown == CodeView(page.problem) /\ Type(page.problem) = "code"
CanRun == CodeView(page.problem) /\ ~page.running /\ ~page.submitting

\* Another language brings its starter code, unless something was typed.
ChangeLanguage(l) ==
    /\ LanguageShown /\ l \in Languages(page.problem) /\ l # page.language
    /\ Stays([page EXCEPT !.language = l,
                  !.code = IF @ \in {Blank, Starter(page.problem, page.language)}
                           THEN Starter(page.problem, l) ELSE @])

Type_ == CodeView(page.problem) /\ \E c \in {Typed, Blank} : Stays([page EXCEPT !.code = c])
ResetStarter ==
    CodeView(page.problem) /\ Stays([page EXCEPT !.code = Starter(page.problem, page.language)])

Solution == [of |-> page.problem, language |-> page.language, code |-> page.code]

Run ==
    /\ "run" \in does /\ CanRun /\ Ask("run", Solution)
    /\ page' = [page EXCEPT !.running = TRUE, !.result = None, !.error = FALSE]
    /\ Same

DeliverRun ==
    \E c \in Came("run") :
        /\ Take("run", c)
        /\ page' = IF Ok(c) THEN [page EXCEPT !.running = FALSE, !.result = "run"]
                   ELSE [page EXCEPT !.running = FALSE, !.error = TRUE]
        /\ Same

\* In a contest the solution of a coding problem goes to the contest.
InContest(p) == "contest" \in does /\ Type(p) = "code"

Submit ==
    /\ CanRun /\ Ask("submit", Solution)
    /\ page' = [page EXCEPT !.submitting = TRUE, !.result = None, !.error = FALSE]
    /\ Same

\* The submissions are stale now.
DeliverSubmit ==
    \E c \in Came("submit") :
        /\ Take("submit", c)
        /\ page' = IF Ok(c)
                   THEN [page EXCEPT !.submitting = FALSE, !.submissions = None,
                             !.result = IF InContest(c.to.of) THEN "contest" ELSE "submit"]
                   ELSE [page EXCEPT !.submitting = FALSE, !.error = TRUE]
        /\ Same

\* Opening the tab asks for the submissions when there are none.
OpenTab(t) ==
    /\ "submissions" \in does /\ CodeView(page.problem) /\ t # page.tab
    /\ IF t = "submissions" /\ page.submissions = None /\ ~page.loadingSubmissions
       THEN /\ Ask("submissions", page.problem)
            /\ page' = [page EXCEPT !.tab = t, !.loadingSubmissions = TRUE]
       ELSE UNCHANGED net /\ page' = [page EXCEPT !.tab = t]
    /\ Same

DeliverSubmissions ==
    \E c \in Came("submissions") :
        /\ Take("submissions", c)
        /\ page' = [page EXCEPT !.loadingSubmissions = FALSE,
                                !.submissions = IF Ok(c) THEN "listed" ELSE @]
        /\ Same

-----------------------------------------------------------------------------
(* Multiple choice and design                                               *)

PickOption ==
    /\ McqView(page.problem) /\ ~page.mcqResult /\ ~page.selectedOption
    /\ Stays([page EXCEPT !.selectedOption = TRUE])

\* The answer is submitted once: a result takes the button's place.
CanSubmitMcq == McqView(page.problem) /\ ~page.mcqResult /\ page.selectedOption /\ ~page.submitting
SubmitMcq ==
    /\ CanSubmitMcq /\ Ask("mcq", page.problem)
    /\ page' = [page EXCEPT !.submitting = TRUE, !.error = FALSE]
    /\ Same
DeliverMcq ==
    \E c \in Came("mcq") :
        /\ Take("mcq", c)
        /\ page' = IF Ok(c) THEN [page EXCEPT !.submitting = FALSE, !.mcqResult = TRUE]
                   ELSE [page EXCEPT !.submitting = FALSE, !.error = TRUE]
        /\ Same

WriteDesign ==
    /\ DesignView(page.problem)
    /\ Stays([page EXCEPT !.designAnswer = ~@])

CanSubmitDesign == DesignView(page.problem) /\ page.designAnswer /\ ~page.submitting
\* A diagram is exported first.
SubmitDesign ==
    /\ CanSubmitDesign /\ CanAsk("design", page.problem)
    /\ LET p == [page EXCEPT !.submitting = TRUE, !.error = FALSE, !.designResult = FALSE]
       IN  IF Problems[page.problem].diagram
           THEN page' = [p EXCEPT !.exporting = page.problem] /\ UNCHANGED net
           ELSE page' = p /\ net' = Asking(net, "design", page.problem)
    /\ Same
\* With or without the image.
DiagramExported ==
    /\ page.exporting # None
    /\ page' = [page EXCEPT !.exporting = None]
    /\ net' = Asking(net, "design", page.exporting)
    /\ Same
DeliverDesign ==
    \E c \in Came("design") :
        /\ Take("design", c)
        /\ page' = IF Ok(c) THEN [page EXCEPT !.submitting = FALSE, !.designResult = TRUE]
                   ELSE [page EXCEPT !.submitting = FALSE, !.error = TRUE]
        /\ Same

-----------------------------------------------------------------------------
(* The server                                                               *)

OnlyNet == UNCHANGED <<page, lost, does>>

ServeReads ==
    \/ \E c \in Asked("list") : Answer("list", c, Offered) /\ OnlyNet
    \/ \E k \in {"problem", "run", "submissions"} :
          \E c \in Asked(k) : Answer(k, c, TRUE) /\ OnlyNet

\* A submission is graded, or refused for the credits it would cost.
ServeGraded ==
    \E k \in Graded : \E c \in Asked(k) :
        (Answer(k, c, TRUE) \/ Refuse(k, c)) /\ OnlyNet

Lose ==
    /\ "lose" \in does /\ \E k \in Kinds : \E c \in net[k] : Lost(k, c)
    /\ UNCHANGED <<page, does>>

PracticeNext ==
    \/ DeliverList \/ \E p \in Ids : SelectProblem(p)
    \/ DeliverProblem
    \/ \E l \in AllLanguages : ChangeLanguage(l)
    \/ Type_ \/ ResetStarter \/ Run \/ DeliverRun \/ Submit \/ DeliverSubmit
    \/ \E t \in {"description", "submissions"} : OpenTab(t)
    \/ DeliverSubmissions \/ PickOption \/ SubmitMcq \/ DeliverMcq
    \/ WriteDesign \/ SubmitDesign \/ DiagramExported \/ DeliverDesign
    \/ ServeReads \/ ServeGraded \/ Lose

PracticeSpec == PracticeInit /\ [][PracticeNext]_practiceVars

-----------------------------------------------------------------------------
(* Properties                                                               *)

\* However problems, languages and late answers follow each other, what is run or
\* submitted is in a language of its problem, and is the candidate's own code or
\* the starter of that problem in that language.
SolutionFitsProblem ==
    \A k \in {"run", "submit"} : \A c \in net[k] :
        /\ Type(c.to.of) \in {"code", "sql"}
        /\ c.to.language \in Languages(c.to.of)
        /\ c.to.code \in {Typed, Blank, Starter(c.to.of, c.to.language)}

\* One submission is graded, and charged, at a time.
OneSubmission ==
    /\ Cardinality(UNION {{<<k, c>> : c \in net[k]} : k \in Graded}) <= 1
    /\ page.submitting <=> (page.exporting # None \/ \E k \in Graded : InFlight(k))
=============================================================================
