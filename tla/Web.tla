--------------------------------- MODULE Web ---------------------------------
(***************************************************************************)
(* The web client: the page that is mounted (web/src/main.ts) and what     *)
(* happens on it.  A page begins from nothing and shares nothing with the  *)
(* one before, so a behaviour is one page from its mount on.  The panel    *)
(* beside a console and the form above the projects are pages of their own *)
(* here: all they share with their neighbour is a call to refresh, which   *)
(* FilesPanel, ListView and ProjectsView allow at any time.                *)
(***************************************************************************)
EXTENDS ListView, ConsoleView, FilesPanel, ProjectsView, ProjectForm

vars == <<page, destroyed, listVars, consoleVars, panelVars, projectsVars,
          formVars>>
pageVars == <<page, destroyed>>

Init ==
    /\ PageInit /\ ListInit /\ ConsoleInit /\ PanelInit /\ ProjectsInit
    /\ FormInit

TypeOK ==
    /\ page \in Pages /\ destroyed \in BOOLEAN
    /\ ListTypeOK /\ ConsoleTypeOK /\ PanelTypeOK /\ ProjectsTypeOK /\ FormTypeOK

OnList(A) == A /\ UNCHANGED <<pageVars, consoleVars, panelVars, projectsVars,
                              formVars>>
OnConsole(A) == A /\ UNCHANGED <<listVars, panelVars, projectsVars, formVars>>
OnFiles(A) == A /\ UNCHANGED <<listVars, consoleVars, projectsVars, formVars>>
OnProjects(A) == A /\ UNCHANGED <<pageVars, listVars, consoleVars, panelVars,
                                  formVars>>
OnForm(A) == A /\ UNCHANGED <<pageVars, listVars, consoleVars, panelVars,
                              projectsVars>>

Next ==
    \/ OnList(ListNext)
    \/ OnConsole(ConsoleNext /\ UNCHANGED pageVars) \/ OnConsole(LeavesConsole)
    \/ OnFiles(PanelNext /\ UNCHANGED pageVars) \/ OnFiles(LeavesFiles)
    \/ OnProjects(ProjectsNext)
    \/ OnForm(FormNext)

Spec == Init /\ [][Next]_vars

(* Timers fire, requests are answered, and a build that was queued ends.   *)
Fairness ==
    /\ WF_vars(OnList(Polls)) /\ WF_vars(OnList(ListHears))
    /\ WF_vars(OnList(ListAnswers))
    /\ WF_vars(OnProjects(TimerFires)) /\ WF_vars(OnProjects(ListHeard))
    /\ WF_vars(OnProjects(LogHeard))
    /\ \A p \in Projects : WF_vars(OnProjects(Builds(p)))

FairSpec == Spec /\ Fairness

-----------------------------------------------------------------------------

(* What the projects page shows belongs to whom it is shown for, however   *)
(* fast it is used: the text in the panel to the project whose log is      *)
(* open, the fields of the form to the project a save would go to; only    *)
(* the answer to a dropped variable that finds another form breaks that.   *)
(* And a page that asks no more has seen the end of every build, unless a  *)
(* list or a log was refused or overtaken; the log of a build that failed  *)
(* again may be short (MayBeShort in ProjectsView) (projects.ts refresh,   *)
(* loadLog, scheduleWhileBuilding, startEditing, stopEditing,              *)
(* dropVariable).                                                          *)
ProjectsPageIsTrue == LogIsOfOpen /\ RestIsTrue /\ OnlyVariablesMislead

=============================================================================
