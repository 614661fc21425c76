---------------------------- MODULE SettingsForm ----------------------------
(***************************************************************************)
(* A form of system settings.  It starts from the options the server sent, *)
(* saves the fields the user changed one request at a time, and follows    *)
(* the options query, which every saved field invalidates.  A refetch may  *)
(* so arrive while the rest of the save is under way and the user types on,*)
(* and it joins a request of the same options already under way.           *)
(*                                                                         *)
(* The hook's baseline, the form library's defaults and the serialized     *)
(* copy always hold the same values: they are one variable here.  Other    *)
(* administrators write the same options.                                  *)
(***************************************************************************)
EXTENDS Integers, FiniteSets

CONSTANTS
    Fields, Values,
    Sections,       \* forms: the field saved after all others (the theme) and
                    \* the one sent without trailing slashes (the address), or
                    \* None, and whether the defaults are new at every render
    Trim,           \* a value without its trailing slashes
    None,
    MaxEdits,       \* bound on what the user does to the form
    MaxOthers       \* bound on writes of other administrators

ASSUME SectionsWellFormed ==
    /\ None \notin Fields
    /\ Sections \subseteq [last : Fields \cup {None}, trimmed : Fields \cup {None},
                           everyRender : BOOLEAN]
ASSUME TrimGivesValues == Trim \in [Values -> Values]
ASSUME BoundsAreNat == MaxEdits \in Nat /\ MaxOthers \in Nat

VARIABLES
    section,    \* the form on show
    server,     \* the options stored
    query,      \* the options the query cache holds
    fetch,      \* the refetch under way: sent, or read by the server
    form,       \* what the inputs show
    base,       \* baselineRef, defaultValuesRef, serializedDefaultsRef
    due,        \* has a render left the effect to run?
    save,       \* the submission under way
    edits, others,
    typed,      \* fields and values the user ever entered
    over,       \* fields others wrote since the submission began
    missed      \* may a save have been missed since the server was read?

formVars ==
    <<section, server, query, fetch, form, base, due, save, edits, others, typed, over, missed>>

Last == section.last
Trimmed == section.trimmed
EveryRender == section.everyRender

Options == [Fields -> Values]
NoSave == [pc |-> "idle", data |-> None, fields |-> {}, todo |-> {}, at |-> None]

NoFetch == [pc |-> "none", got |-> None]
Sent == [pc |-> "sent", got |-> None]

FormInit ==
    /\ section \in Sections
    /\ server \in Options
    /\ query = server /\ form = server /\ base = server
    /\ fetch = NoFetch /\ due = FALSE
    /\ save = NoSave
    /\ edits = 0 /\ others = 0 /\ typed = {} /\ over = {} /\ missed = FALSE

-----------------------------------------------------------------------------
(* The user.  Effects run before the browser's next event is handled.      *)

UserMay == ~due /\ edits < MaxEdits

\* Inputs stay enabled while a save is under way.
Edit(f, v) ==
    /\ UserMay /\ form[f] # v
    /\ form' = [form EXCEPT ![f] = v]
    /\ typed' = typed \cup {<<f, v>>}
    /\ edits' = edits + 1
    /\ due' = EveryRender
    /\ UNCHANGED <<section, server, query, fetch, base, save, others, over, missed>>

\* handleReset; the button is off during a save and when nothing changed.
ClickReset ==
    /\ UserMay /\ form # base /\ save.pc = "idle"
    /\ form' = base
    /\ edits' = edits + 1
    /\ due' = EveryRender
    /\ UNCHANGED <<section, server, query, fetch, base, save, others, typed, over, missed>>

\* The dirty fields that differ from the baseline.
Changed(data) == {f \in Fields : data[f] # base[f]}

\* handleSubmit up to onSubmit; without changes it only says so.
Submit ==
    /\ UserMay /\ save.pc = "idle" /\ form # base
    /\ save' = [pc |-> "saving", data |-> form, fields |-> Changed(form),
                todo |-> Changed(form), at |-> None]
    /\ over' = {}
    /\ edits' = edits + 1
    /\ UNCHANGED <<section, server, query, fetch, form, base, due, others, typed, missed>>

-----------------------------------------------------------------------------
(* The save: one request after the other.                                  *)

\* The theme goes last.
MaySave(f) == f \in save.todo /\ (f = Last => save.todo = {f})

\* How a field is stored: the server's address loses its trailing slashes.
Normal(f, v) == IF f = Trimmed THEN Trim[v] ELSE v
\* Mutant: the field as shown goes out.
ValueSentRaw(f) == save.data[f]
ValueSent(f) == Normal(f, save.data[f])

ServerSaves(f) ==
    /\ save.pc = "saving" /\ MaySave(f)
    /\ server' = [server EXCEPT ![f] = ValueSent(f)]
    /\ save' = [save EXCEPT !.pc = "answered", !.at = f]
    /\ over' = over \ {f}
    /\ UNCHANGED <<section, query, fetch, form, base, due, edits, others, typed, missed>>

\* The server refuses the value: mutateAsync throws and the loop ends.
ServerRefuses(f) ==
    /\ save.pc = "saving" /\ MaySave(f)
    /\ save' = NoSave
    /\ due' = (due \/ EveryRender)
    /\ UNCHANGED <<section, server, query, fetch, form, base, edits, others, typed, over, missed>>

\* The answer to a save that was made is lost: the same.
AnswerLost ==
    /\ save.pc = "answered"
    /\ save' = NoSave
    /\ due' = (due \/ EveryRender)
    /\ missed' = TRUE
    /\ UNCHANGED <<section, server, query, fetch, form, base, edits, others, typed, over>>

\* Mutant: the options are not fetched again.
RefetchAfterNone == fetch
\* onSuccess invalidates the query, which forgets a fetch under way and fetches
\* again; api.get joins the new request to the one still in flight.
RefetchAfter == IF fetch = NoFetch THEN Sent ELSE fetch

\* After the last answer the form takes over what it showed when it was sent.
Answered ==
    /\ save.pc = "answered"
    /\ fetch' = RefetchAfter
    /\ IF save.todo = {save.at}
       THEN base' = save.data /\ form' = save.data /\ save' = NoSave
       ELSE /\ save' = [save EXCEPT !.pc = "saving", !.todo = @ \ {save.at}]
            /\ UNCHANGED <<base, form>>
    /\ due' = (due \/ EveryRender)
    /\ missed' = (missed \/ (fetch.pc = "read" /\ fetch.got # server))
    /\ UNCHANGED <<section, server, query, edits, others, typed, over>>

-----------------------------------------------------------------------------
(* The options query.                                                      *)

\* The network is back (the focus of the window starts nothing).
Reconnect ==
    /\ fetch = NoFetch
    /\ fetch' = Sent
    /\ UNCHANGED <<section, server, query, form, base, due, save, edits, others, typed, over, missed>>

FetchRead ==
    /\ fetch = Sent
    /\ fetch' = [pc |-> "read", got |-> server]
    /\ missed' = FALSE
    /\ UNCHANGED <<section, server, query, form, base, due, save, edits, others, typed, over>>

FetchArrive ==
    /\ fetch.pc = "read"
    /\ query' = fetch.got
    /\ due' = (due \/ query' # query)
    /\ fetch' = NoFetch
    /\ UNCHANGED <<section, server, form, base, save, edits, others, typed, over, missed>>

\* The last retry failed; the query keeps its options.  A failed attempt before it
\* is a read that takes longer.
FetchFails ==
    /\ fetch # NoFetch
    /\ fetch' = NoFetch
    /\ missed' = TRUE
    /\ UNCHANGED <<section, server, query, form, base, due, save, edits, others, typed, over>>

\* The effect: options that differ from the baseline replace it and the form.
Effect ==
    /\ due
    /\ due' = FALSE
    /\ IF query # base THEN base' = query /\ form' = query ELSE UNCHANGED <<base, form>>
    /\ UNCHANGED <<section, server, query, fetch, save, edits, others, typed, over, missed>>

OtherAdmin(f, v) ==
    /\ others < MaxOthers /\ server[f] # v
    /\ server' = [server EXCEPT ![f] = v]
    /\ others' = others + 1
    /\ over' = over \cup {f}
    /\ UNCHANGED <<section, query, fetch, form, base, due, save, edits, typed, missed>>

FormNext ==
    \/ \E f \in Fields, v \in Values : Edit(f, v) \/ OtherAdmin(f, v)
    \/ \E f \in Fields : ServerSaves(f) \/ ServerRefuses(f)
    \/ ClickReset \/ Submit \/ AnswerLost \/ Answered
    \/ Reconnect \/ FetchRead \/ FetchArrive \/ FetchFails \/ Effect

\* Requests are answered and effects run; nobody has to type, save or reconnect.
FormFairness ==
    /\ WF_formVars(\E f \in Fields : ServerSaves(f) \/ ServerRefuses(f))
    /\ WF_formVars(AnswerLost \/ Answered)
    /\ WF_formVars(FetchRead \/ FetchFails) /\ WF_formVars(FetchArrive \/ FetchFails)
    /\ WF_formVars(Effect)

FormSpec == FormInit /\ [][FormNext]_formVars
FairFormSpec == FormSpec /\ FormFairness

-----------------------------------------------------------------------------
(* Properties.                                                             *)

\* The values the variables range over; what is left to save is part of the
\* submission, and a submission has something left to save.
FormTypeOK ==
    /\ {server, query, form, base} \subseteq Options
    /\ fetch \in {NoFetch, Sent} \cup [pc : {"read"}, got : Options]
    /\ save.pc \in {"idle", "saving", "answered"}
    /\ save.pc # "idle" => save.todo # {} /\ save.todo \subseteq save.fields
    /\ save.pc = "answered" => save.at \in save.todo

\* The form writes nothing the user did not enter: it never undoes what another
\* administrator changed in a field left alone, however old the options it shows.
\* The address is written without the slashes it was entered with.
OnlyTypedIsWritten ==
    [][others' = others => \A f \in Fields : server'[f] # server[f]
          => \E v \in Values : <<f, v>> \in typed /\ server'[f] = Normal(f, v)]_formVars

\* A save that ends well has stored every changed field as it was shown when
\* the user pressed save, but for the address' slashes, though refetches reset the
\* form half way; a field that another administrator wrote since is theirs.
SaveIsComplete ==
    [][Answered /\ save' = NoSave
          => \A f \in save.fields \ over : server[f] = Normal(f, save.data[f])]_formVars

\* The theme is switched only when every other field of the save is stored.
ThemeAfterOthers ==
    [][\A f \in Fields : ServerSaves(f) /\ f = Last
          => \A g \in save.fields \ ({f} \cup over) :
                server[g] = Normal(g, save.data[g])]_formVars

\* A save stores what was typed, all of it and in order, and nothing else: the
\* address without its trailing slashes, every other field as it is (handleSubmit
\* of useSettingsForm and the sections' onSubmit).
SavedAsTyped == []FormTypeOK /\ OnlyTypedIsWritten /\ SaveIsComplete /\ ThemeAfterOthers

\* When the user and the saves are done, the form's baseline is what the server
\* holds, slashes included, after refused and partly made saves too, unless another
\* administrator wrote; or an answer was lost, a refetch failed or a refetch joined
\* a request that the server read before the save, and nothing was read after that.
\* A request for the options that is under way may still bring them.
BaselineIsServerInTheEnd ==
    <>[](others > 0 \/ missed \/ fetch # NoFetch \/ base = server)
=============================================================================
