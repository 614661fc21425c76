------------------------------- MODULE MCWeb -------------------------------
(***************************************************************************)
(* The web front end: the identity of its tabs (AccountIsolation) and the  *)
(* forms of the system settings (SettingsForm).  The two share no state: a *)
(* behaviour exercises the one `focus' names while the other rests.        *)
(* Fairness is that of FairTabsSpec and FairFormSpec.                      *)
(***************************************************************************)
EXTENDS AccountIsolation, SettingsForm

CONSTANTS t1, t2, a1, a2, r1, r2, name, theme, v0, v1, v1s

VARIABLE focus

webVars == <<tabsVars, formVars, focus>>

InTabs == focus = "tabs"
InForm == focus = "form"

\* The site form saves the theme last, trims the address (for which the name stands)
\* and builds its defaults at every render.
Forms == {[last |-> theme, trimmed |-> name, everyRender |-> TRUE],
          [last |-> None, trimmed |-> None, everyRender |-> FALSE]}

\* v1s is v1 with a slash.
Slashes == [v \in Values |-> IF v = v1s THEN v1 ELSE v]

\* What rests starts in one way.
WebInit ==
    /\ TabsInit /\ FormInit
    /\ focus \in {"tabs", "form"}
    /\ InTabs <=> \A t \in Tabs : tab[t].page = "loading"
    /\ lsUser # a2  \* the accounts are alike
    /\ server[theme] = v0
    /\ ~InForm => server[name] = v0 /\ section = CHOOSE f \in Sections : TRUE

\* The accounts are alike: the first to sign in to a browser is a1.
FirstAsSecond ==
    /\ cookie = SignedOut /\ lsUser = Nobody /\ logins = 0 /\ faults = 0
    /\ \E r \in Requests : /\ ~Busy(r) /\ req'[r] # NoRequest
                           /\ req'[r].kind = "login" /\ req'[r].account.id = a2

\* The theme is one of two names, none with a slash.
ThemeIsName == v1s \notin {form'[theme], server'[theme]}

WebNext ==
    \/ InTabs /\ TabsNext /\ ~FirstAsSecond /\ UNCHANGED <<formVars, focus>>
    \/ InForm /\ FormNext /\ ThemeIsName /\ UNCHANGED <<tabsVars, focus>>

WebSpec ==
    /\ WebInit /\ [][WebNext]_webVars
    /\ \A t \in Tabs : /\ SF_tabsVars(InTabs /\ BeforeLoad(t))
                       /\ WF_tabsVars(InTabs /\ StorageEvent(t))
    /\ \A r \in Requests : /\ WF_tabsVars(InTabs /\ Send(r))
                           /\ WF_tabsVars(InTabs /\ Handle(r))
                           /\ WF_tabsVars(InTabs /\ (Arrive(r) \/ Fail(r)))
    /\ WF_formVars(InForm /\ \E f \in Fields : ServerSaves(f) \/ ServerRefuses(f))
    /\ WF_formVars(InForm /\ (AnswerLost \/ Answered))
    /\ WF_formVars(InForm /\ (FetchRead \/ FetchFails))
    /\ WF_formVars(InForm /\ (FetchArrive \/ FetchFails))
    /\ WF_formVars(InForm /\ Effect)
=============================================================================
