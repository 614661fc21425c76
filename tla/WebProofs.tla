------------------------------ MODULE WebProofs ------------------------------
(***************************************************************************)
(* Proofs about the web front end.  First SettingsForm, for every form, any *)
(* number of fields, values, edits and other administrators: a save stores *)
(* what was typed, trimmed where it must be, in order, and nothing else.  Then         *)
(* AccountIsolation, for any number of tabs, accounts and requests: tabs   *)
(* follow the account stored, show only its data, and a late refusal ends  *)
(* no newer session.  The latter two need that sign-ins do not overlap.    *)
(***************************************************************************)
EXTENDS AccountIsolation, SettingsForm, TLAPS

-----------------------------------------------------------------------------
(* The settings form.                                                       *)

Saves == [pc : {"idle", "saving", "answered"}, data : Options \cup {None},
          fields : SUBSET Fields, todo : SUBSET Fields, at : Fields \cup {None}]

\* The values the variables range over.
FormTypes ==
    /\ section \in Sections
    /\ server \in Options /\ query \in Options /\ form \in Options /\ base \in Options
    /\ fetch \in {NoFetch, Sent} \cup [pc : {"read"}, got : Options]
    /\ save \in Saves
    /\ edits \in Nat /\ others \in Nat

\* A difference to the baseline is the user's.
DirtyIsTyped == \A f \in Fields : form[f] # base[f] => <<f, form[f]>> \in typed

\* The submission under way: something is left, and all of it was typed.
SaveUnderWay ==
    save.pc # "idle" =>
        /\ save.data \in Options
        /\ save.todo # {} /\ save.todo \subseteq save.fields
        /\ \A f \in save.fields : <<f, save.data[f]>> \in typed
        /\ save.pc = "answered" => save.at \in save.todo

\* Was field f of the submission stored?
Stored(f) == f \notin save.todo \/ (save.pc = "answered" /\ f = save.at)

\* What was stored and no other administrator wrote since is on the server.
StoredStays ==
    save.pc # "idle" =>
        \A f \in save.fields \ over : Stored(f) => server[f] = Normal(f, save.data[f])

FormInv == FormTypes /\ DirtyIsTyped /\ SaveUnderWay /\ StoredStays

\* Trimmed or not, a value is a value.
LEMMA NormalIsValue == ASSUME NEW f \in Fields, NEW v \in Values PROVE Normal(f, v) \in Values
BY TrimGivesValues DEF Normal

\* The form starts clean and at rest.
LEMMA FormInitInv == FormInit => FormInv
<1> SUFFICES ASSUME FormInit PROVE FormInv
  OBVIOUS
<1>1. save = NoSave /\ NoSave \in Saves
  BY DEF FormInit, NoSave, Saves
<1>2. FormTypes
  BY <1>1 DEF FormInit, FormTypes
<1>3. save.pc = "idle"
  BY <1>1 DEF NoSave
<1>4. DirtyIsTyped
  BY DEF FormInit, DirtyIsTyped
<1> QED BY <1>2, <1>3, <1>4 DEF FormInv, SaveUnderWay, StoredStays

\* An input changes: the difference is recorded as typed (Edit).
LEMMA EditKeeps ==
    ASSUME FormInv, NEW f \in Fields, NEW v \in Values, Edit(f, v)
    PROVE  FormInv'
<1> USE DEF FormInv
<1>1. FormTypes'
  BY DEF FormTypes, Edit, Options, UserMay
<1>2. DirtyIsTyped'
  BY DEF DirtyIsTyped, Edit, FormTypes, Options
<1>3. SaveUnderWay'
  BY DEF SaveUnderWay, Edit
<1>4. StoredStays'
  BY DEF StoredStays, Stored, Edit, Normal, Trimmed
<1> QED BY <1>1, <1>2, <1>3, <1>4

\* Reset takes every difference away (handleReset).
LEMMA ClickResetKeeps ==
    ASSUME FormInv, ClickReset
    PROVE  FormInv'
<1> USE DEF FormInv
<1>1. FormTypes'
  BY DEF FormTypes, ClickReset
<1>2. DirtyIsTyped'
  BY DEF DirtyIsTyped, ClickReset
<1>3. SaveUnderWay' /\ StoredStays'
  BY DEF SaveUnderWay, StoredStays, Stored, Normal, Trimmed, ClickReset
<1> QED BY <1>1, <1>2, <1>3

\* A submission takes the fields that differ, so they were typed and there is at
\* least one (handleSubmit).
LEMMA SubmitKeeps ==
    ASSUME FormInv, Submit
    PROVE  FormInv'
<1> USE DEF FormInv
<1> DEFINE C == Changed(form)
<1>1. C \subseteq Fields /\ C # {}
  <2>1. \E f \in Fields : form[f] # base[f]
    BY DEF FormTypes, Options, Submit
  <2> QED BY <2>1 DEF Changed
<1>2. save' = [pc |-> "saving", data |-> form, fields |-> C, todo |-> C, at |-> None]
  BY DEF Submit
<1>3. \A f \in C : <<f, form[f]>> \in typed
  BY DEF Changed, DirtyIsTyped
<1> HIDE DEF C
<1>4. save' \in Saves /\ save'.pc = "saving" /\ save'.data = form /\ save'.fields = C /\ save'.todo = C
  BY <1>1, <1>2 DEF Saves, FormTypes
<1>5. FormTypes'
  BY <1>4 DEF FormTypes, Submit, UserMay
<1>6. DirtyIsTyped'
  BY DEF DirtyIsTyped, Submit
<1>7. SaveUnderWay'
  BY <1>1, <1>3, <1>4 DEF SaveUnderWay, Submit, FormTypes
<1>8. StoredStays'
  BY <1>4 DEF StoredStays, Stored
<1> QED BY <1>5, <1>6, <1>7, <1>8

\* The server stores a field; all others stay as they were (updateOption).
LEMMA ServerSavesKeeps ==
    ASSUME FormInv, NEW f \in Fields, ServerSaves(f)
    PROVE  FormInv'
<1> USE DEF FormInv
<1>1. /\ save.pc = "saving" /\ f \in save.todo
      /\ save.data \in Options /\ save.data[f] \in Values /\ Normal(f, save.data[f]) \in Values
  BY NormalIsValue DEF ServerSaves, MaySave, SaveUnderWay, Options
<1>2. /\ save' \in Saves /\ save'.pc = "answered" /\ save'.at = f
      /\ save'.data = save.data /\ save'.fields = save.fields /\ save'.todo = save.todo
  BY DEF ServerSaves, FormTypes, Saves
<1>3. server' \in Options /\ server'[f] = Normal(f, save.data[f])
      /\ \A g \in Fields \ {f} : server'[g] = server[g]
  BY <1>1 DEF ServerSaves, ValueSent, FormTypes, Options
<1>4. FormTypes'
  BY <1>2, <1>3 DEF FormTypes, ServerSaves
<1>5. DirtyIsTyped'
  BY DEF DirtyIsTyped, ServerSaves
<1>6. SaveUnderWay'
  BY <1>1, <1>2 DEF SaveUnderWay, ServerSaves
<1>7. StoredStays'
  BY <1>1, <1>2, <1>3 DEF StoredStays, Stored, Normal, Trimmed, ServerSaves, FormTypes, Saves
<1> QED BY <1>4, <1>5, <1>6, <1>7

\* A submission that ends leaves nothing to keep.
LEMMA EndOfSave ==
    ASSUME save' = NoSave
    PROVE  save' \in Saves /\ SaveUnderWay' /\ StoredStays'
<1>1. NoSave \in Saves /\ NoSave.pc = "idle"
  BY DEF NoSave, Saves
<1>2. (save.pc)' = "idle"
  BY <1>1
<1>3. save' \in Saves
  BY <1>1
<1>4. SaveUnderWay'
  BY <1>2 DEF SaveUnderWay
<1>5. StoredStays'
  BY <1>2 DEF StoredStays
<1> QED BY <1>3, <1>4, <1>5

\* A refused value or a lost answer ends the submission.
LEMMA FailedSaveKeeps ==
    ASSUME FormInv, AnswerLost \/ \E f \in Fields : ServerRefuses(f)
    PROVE  FormInv'
<1>1. /\ save' = NoSave
      /\ UNCHANGED <<section, server, query, fetch, form, base, edits, others, typed>>
  BY DEF AnswerLost, ServerRefuses
<1>2. save' \in Saves /\ SaveUnderWay' /\ StoredStays'
  BY <1>1, EndOfSave
<1>3. FormTypes'
  BY <1>1, <1>2 DEF FormInv, FormTypes
<1>4. DirtyIsTyped'
  BY <1>1 DEF FormInv, DirtyIsTyped
<1> QED BY <1>2, <1>3, <1>4 DEF FormInv

\* The answer: the next field, or the form takes over what was sent.
LEMMA AnsweredKeeps ==
    ASSUME FormInv, Answered
    PROVE  FormInv'
<1> USE DEF FormInv
<1>1. /\ save.pc = "answered" /\ save.at \in save.todo
      /\ save.data \in Options /\ save.todo \subseteq save.fields
      /\ fetch' \in {Sent, fetch}
      /\ UNCHANGED <<section, server, query, edits, others, typed, over>>
  BY DEF Answered, SaveUnderWay, RefetchAfter
<1>2. CASE save.todo = {save.at}
  <2>1. base' = save.data /\ form' = save.data /\ save' = NoSave
    BY <1>2 DEF Answered
  <2>2. save' \in Saves /\ SaveUnderWay' /\ StoredStays'
    BY <2>1, EndOfSave
  <2>3. FormTypes'
    BY <1>1, <2>1, <2>2 DEF FormTypes
  <2>4. DirtyIsTyped'
    BY <2>1 DEF DirtyIsTyped
  <2> QED BY <2>2, <2>3, <2>4
<1>3. CASE save.todo # {save.at}
  <2>1. /\ save' = [save EXCEPT !.pc = "saving", !.todo = @ \ {save.at}]
        /\ base' = base /\ form' = form
    BY <1>3 DEF Answered
  <2>2. /\ save' \in Saves /\ save'.pc = "saving" /\ save'.todo = save.todo \ {save.at}
        /\ save'.data = save.data /\ save'.fields = save.fields
    BY <2>1 DEF FormTypes, Saves
  <2>3. FormTypes'
    BY <1>1, <2>1, <2>2 DEF FormTypes
  <2>4. DirtyIsTyped'
    BY <1>1, <2>1 DEF DirtyIsTyped
  <2>5. SaveUnderWay'
    BY <1>1, <1>3, <2>2 DEF SaveUnderWay
  <2>6. StoredStays'
    BY <1>1, <2>2 DEF StoredStays, Stored, Normal, Trimmed
  <2> QED BY <2>3, <2>4, <2>5, <2>6
<1> QED BY <1>2, <1>3

\* The query and the effect: options from the server are nobody's difference.
LEMMA QueryKeeps ==
    ASSUME FormInv, Reconnect \/ FetchRead \/ FetchArrive \/ FetchFails \/ Effect
    PROVE  FormInv'
<1> USE DEF FormInv
<1>1. UNCHANGED <<section, server, save, edits, others, typed, over>>
  BY DEF Reconnect, FetchRead, FetchArrive, FetchFails, Effect
<1>2. SaveUnderWay' /\ StoredStays'
  BY <1>1 DEF SaveUnderWay, StoredStays, Stored, Normal, Trimmed
<1>3. FormTypes'
  <2>1. CASE Reconnect
    BY <2>1 DEF FormTypes, Reconnect
  <2>2. CASE FetchRead
    BY <2>2 DEF FormTypes, FetchRead
  <2>3. CASE FetchArrive
    <3>1. fetch \in [pc : {"read"}, got : Options]
      BY <2>3 DEF FormTypes, FetchArrive, NoFetch, Sent
    <3> QED BY <2>3, <3>1 DEF FormTypes, FetchArrive
  <2>4. CASE Effect
    BY <2>4 DEF FormTypes, Effect
  <2>5. CASE FetchFails
    BY <2>5 DEF FormTypes, FetchFails
  <2> QED BY <2>1, <2>2, <2>3, <2>4, <2>5
<1>4. DirtyIsTyped'
  BY DEF DirtyIsTyped, Reconnect, FetchRead, FetchArrive, FetchFails, Effect
<1> QED BY <1>2, <1>3, <1>4

\* Another administrator writes a field, which is theirs from then on.
LEMMA OtherAdminKeeps ==
    ASSUME FormInv, NEW f \in Fields, NEW v \in Values, OtherAdmin(f, v)
    PROVE  FormInv'
<1> USE DEF FormInv
<1>1. server' \in Options /\ \A g \in Fields \ {f} : server'[g] = server[g]
  BY DEF OtherAdmin, FormTypes, Options
<1>2. FormTypes'
  BY <1>1 DEF FormTypes, OtherAdmin
<1>3. DirtyIsTyped' /\ SaveUnderWay'
  BY DEF DirtyIsTyped, SaveUnderWay, OtherAdmin
<1>4. StoredStays'
  BY <1>1 DEF StoredStays, Stored, Normal, Trimmed, OtherAdmin, FormTypes, Saves
<1> QED BY <1>2, <1>3, <1>4

\* Every step keeps the invariant.
LEMMA FormNextInv ==
    ASSUME FormInv, [FormNext]_formVars
    PROVE  FormInv'
<1>1. CASE UNCHANGED formVars
  BY <1>1 DEF formVars, FormInv, FormTypes, DirtyIsTyped, SaveUnderWay, StoredStays, Stored,
     Normal, Trimmed
<1>2. ASSUME NEW f \in Fields, NEW v \in Values, Edit(f, v) \/ OtherAdmin(f, v)
      PROVE FormInv'
  BY <1>2, EditKeeps, OtherAdminKeeps
<1>3. ASSUME NEW f \in Fields, ServerSaves(f) \/ ServerRefuses(f)
      PROVE FormInv'
  BY <1>3, ServerSavesKeeps, FailedSaveKeeps
<1>4. ASSUME ClickReset \/ Submit \/ AnswerLost \/ Answered
      PROVE FormInv'
  BY <1>4, ClickResetKeeps, SubmitKeeps, FailedSaveKeeps, AnsweredKeeps
<1>5. ASSUME Reconnect \/ FetchRead \/ FetchArrive \/ FetchFails \/ Effect
      PROVE FormInv'
  BY <1>5, QueryKeeps
<1> QED BY <1>1, <1>2, <1>3, <1>4, <1>5 DEF FormNext

\* The invariant includes the types.
LEMMA FormInvTypes == FormInv => FormTypeOK
BY DEF FormInv, FormTypes, SaveUnderWay, FormTypeOK, Saves

\* A step that is not another administrator's writes what was typed.
LEMMA StepWritesTyped ==
    ASSUME FormInv, [FormNext]_formVars
    PROVE  others' = others =>
             \A f \in Fields : server'[f] # server[f]
                => \E v \in Values : <<f, v>> \in typed /\ server'[f] = Normal(f, v)
<1> SUFFICES ASSUME others' = others, NEW f \in Fields, server'[f] # server[f]
             PROVE  \E v \in Values : <<f, v>> \in typed /\ server'[f] = Normal(f, v)
  OBVIOUS
<1>1. server' # server
  OBVIOUS
<1>2. ASSUME NEW g \in Fields, NEW v \in Values, OtherAdmin(g, v)
      PROVE FALSE
  BY <1>2 DEF OtherAdmin, FormInv, FormTypes
<1>3. PICK g \in Fields : ServerSaves(g)
  BY <1>1, <1>2 DEF FormNext, formVars, Edit, ServerRefuses, ClickReset, Submit, AnswerLost,
     Answered, Reconnect, FetchRead, FetchArrive, FetchFails, Effect
<1>4. g \in save.fields /\ <<g, save.data[g]>> \in typed /\ save.data[g] \in Values
  BY <1>3 DEF ServerSaves, MaySave, FormInv, SaveUnderWay, Options
<1>5. server'[f] = IF f = g THEN Normal(g, save.data[g]) ELSE server[f]
  BY <1>3 DEF ServerSaves, ValueSent, FormInv, FormTypes, Options
<1> QED BY <1>4, <1>5

\* A save that ends has stored every field.
LEMMA StepCompletesSave ==
    ASSUME FormInv, Answered, save' = NoSave
    PROVE  \A f \in save.fields \ over : server[f] = Normal(f, save.data[f])
<1>1. save.pc = "answered"
  BY DEF Answered
<1>2. save.todo = {save.at}
  <2> SUFFICES ASSUME save.todo # {save.at} PROVE FALSE
    OBVIOUS
  <2>1. save' = [save EXCEPT !.pc = "saving", !.todo = @ \ {save.at}]
    BY DEF Answered
  <2>2. save'.pc = "saving"
    BY <2>1 DEF FormInv, FormTypes, Saves
  <2> QED BY <2>2 DEF NoSave
<1> QED BY <1>1, <1>2 DEF FormInv, StoredStays, Stored

\* When the theme is stored all others are.
LEMMA StepSavesThemeLast ==
    ASSUME FormInv, NEW f \in Fields, ServerSaves(f), f = Last
    PROVE  \A g \in save.fields \ ({f} \cup over) : server[g] = Normal(g, save.data[g])
<1>1. save.pc = "saving" /\ save.todo = {f}
  BY DEF ServerSaves, MaySave
<1> QED BY <1>1 DEF FormInv, StoredStays, Stored

\* A save of a settings form stores what the user typed, every changed field as it
\* was shown when save was pressed (the trimmed field without its slashes) and the
\* theme last, and nothing else, for any form, whatever refetches, failing or
\* joined, and other administrators do (handleSubmit of
\* useSettingsForm and the sections' onSubmit).
THEOREM FormsSavedAsTyped == FormSpec => SavedAsTyped
<1>1. FormInit => FormInv
  BY FormInitInv
<1>2. FormInv /\ [FormNext]_formVars => FormInv'
  BY FormNextInv
<1>3. FormInv => FormTypeOK
  BY FormInvTypes
<1>4. FormInv /\ [FormNext]_formVars =>
        [others' = others => \A f \in Fields : server'[f] # server[f]
           => \E v \in Values : <<f, v>> \in typed /\ server'[f] = Normal(f, v)]_formVars
  BY StepWritesTyped
<1>5. FormInv /\ [FormNext]_formVars =>
        [Answered /\ save' = NoSave
           => \A f \in save.fields \ over : server[f] = Normal(f, save.data[f])]_formVars
  BY StepCompletesSave
<1>6. FormInv /\ [FormNext]_formVars =>
        [\A f \in Fields : ServerSaves(f) /\ f = Last
           => \A g \in save.fields \ ({f} \cup over) : server[g] = Normal(g, save.data[g])]_formVars
  BY StepSavesThemeLast
<1> QED
  BY <1>1, <1>2, <1>3, <1>4, <1>5, <1>6, PTL
     DEF FormSpec, SavedAsTyped, OnlyTypedIsWritten, SaveIsComplete, ThemeAfterOthers
-----------------------------------------------------------------------------
(* The tabs.  What holds however sign-ins overlap.                          *)

Submitted == [id : Accounts, login : 1 .. MaxLogins]
Cookies == [account : Ids, login : 0 .. MaxLogins]
Scopes == Nat \X Ids

TabRecords ==
  [page : {"loading", "checking", "app", "out"}, user : Ids, version : Nat,
   verified : Nat \cup {Unverified}, cache : SUBSET Accounts, pending : BOOLEAN,
   confirmed : Ids]

RequestRecords ==
  [st : {"issued", "sent", "arrived"}, tab : Tabs, kind : Kinds,
   account : Submitted \cup {Nobody}, key : Int \X Ids, scope : Scopes,
   waiters : SUBSET [who : {"query", "guard", "login", "signout"}, scope : Scopes],
   header : Ids, cookie : Cookies, after : 0 .. MaxLogins,
   answer : {"none", "ok", "unauthorized", "error"}, orphan : BOOLEAN]

\* A cookie without an account is no session.
Proper(c) == c.account = Nobody => c = SignedOut

\* A request by itself: all who wait for it asked in the scope it is stamped with,
\* it left with the uid of that scope, and the server let it through only with a
\* session of that uid.
Stamped(x) ==
  /\ x \in RequestRecords
  /\ Proper(x.cookie)
  /\ x.kind = "login" => x.account \in Submitted
  /\ x.kind # "login" => x.key = x.scope
  /\ \A w \in x.waiters : /\ w.scope = x.scope
                          /\ x.kind # "login"
                          /\ w.who = "signout" => x.kind = "logout"
  /\ x.orphan => x.st = "sent"
  /\ x.st # "issued" => x.header = x.scope[2]
  /\ x.answer = "unauthorized" => x.kind \in {"query", "self"}
  /\ x.answer = "ok" /\ x.kind \in {"query", "self"} =>
       /\ x.st # "issued"
       /\ x.cookie # SignedOut /\ x.header = x.cookie.account

\* A request and its tab: it is not of a later version, and the guard asks only
\* when somebody is signed in.
OfVersion(x) ==
  ~x.orphan =>
    /\ x.scope[1] <= tab[x.tab].version
    /\ x.scope[1] = tab[x.tab].version /\ (\E w \in x.waiters : w.who = "guard")
         => tab[x.tab].user # Nobody

RequestInv(r) == req[r].st # "idle" => Stamped(req[r]) /\ OfVersion(req[r])

\* A version verified was confirmed; one to come is not verified.
TabInv(t) ==
  /\ tab[t] \in TabRecords
  /\ tab[t].verified <= tab[t].version
  /\ tab[t].verified = tab[t].version => tab[t].user = tab[t].confirmed
  /\ ~tab[t].pending => tab[t].user = lsUser

StoresInv ==
  /\ cookie \in Cookies /\ Proper(cookie)
  /\ lsUser \in Ids /\ lsUid \in Ids
  /\ logins \in 0 .. MaxLogins /\ signedIn \in 0 .. MaxLogins
  /\ faults \in 0 .. MaxFaults

TabsInv ==
  /\ StoresInv
  /\ tab \in [Tabs -> TabRecords] /\ \A t \in Tabs : TabInv(t)
  /\ DOMAIN req = Requests /\ \A r \in Requests : RequestInv(r)

-----------------------------------------------------------------------------
(* What holds when one tab at a time signs in.                              *)

Signs(x) ==
  /\ x.st # "idle" /\ ~x.orphan
  /\ x.kind = "login" \/ \E w \in x.waiters : w.who = "login"

\* Nobody is signed in anywhere, and every tab knows.
Quiet == lsUser = Nobody /\ \A t \in Tabs : tab[t].user = Nobody /\ ~tab[t].pending

\* A tab that shows somebody shows the one stored, if any, and their data alone.
ShowsOwn(t) ==
  tab[t].user # Nobody => /\ lsUser # Nobody => tab[t].user = lsUser
                          /\ tab[t].cache \subseteq {tab[t].user}

\* A request of the version its tab shows left after the last sign-in.
SinceSignIn(x) ==
  /\ x.st \in {"sent", "arrived"} /\ ~x.orphan
  /\ x.scope[1] = tab[x.tab].version /\ tab[x.tab].user # Nobody
  => x.after = signedIn

AloneInv ==
  /\ lsUser # Nobody => lsUid = lsUser
  /\ lsUser = Nobody /\ lsUid # Nobody => Quiet
  /\ \A r \in Requests : Signs(req[r]) => Quiet
  /\ \A r, s \in Requests : Signs(req[r]) /\ Signs(req[s]) => r = s
  /\ \A t \in Tabs : ShowsOwn(t)
  /\ \A r \in Requests : SinceSignIn(req[r])

-----------------------------------------------------------------------------
(* Requests by themselves.                                                  *)

\* A request that lost some who waited for it.
LEMMA FewerWait ==
  ASSUME NEW x, Stamped(x), NEW W \in SUBSET x.waiters, NEW y, y = [x EXCEPT !.waiters = W]
  PROVE  /\ Stamped(y)
         /\ y.st = x.st /\ y.tab = x.tab /\ y.kind = x.kind /\ y.scope = x.scope
         /\ y.orphan = x.orphan /\ y.after = x.after /\ y.waiters = W
<1>1. /\ y \in RequestRecords
      /\ y.st = x.st /\ y.tab = x.tab /\ y.kind = x.kind /\ y.scope = x.scope
      /\ y.orphan = x.orphan /\ y.after = x.after /\ y.waiters = W
      /\ y.account = x.account /\ y.key = x.key /\ y.header = x.header
      /\ y.cookie = x.cookie /\ y.answer = x.answer
  BY DEF Stamped, RequestRecords
<1> QED BY <1>1 DEF Stamped

\* A request whose page was reloaded.
LEMMA OrphanStamped ==
  ASSUME NEW x, Stamped(x), x.st = "sent", NEW y, y = [x EXCEPT !.orphan = TRUE, !.waiters = {}]
  PROVE  Stamped(y) /\ y.orphan
<1>1. /\ y \in RequestRecords
      /\ y.st = x.st /\ y.kind = x.kind /\ y.scope = x.scope
      /\ y.orphan = TRUE /\ y.waiters = {}
      /\ y.account = x.account /\ y.key = x.key /\ y.header = x.header
      /\ y.cookie = x.cookie /\ y.answer = x.answer
  BY DEF Stamped, RequestRecords
<1> QED BY <1>1 DEF Stamped

\* One more waits for a request of the scope it asks in.
LEMMA OneMoreWaits ==
  ASSUME NEW x, Stamped(x), x.kind # "login",
         NEW who \in {"query", "guard", "login", "signout"}, who = "signout" => x.kind = "logout",
         NEW w, w = [who |-> who, scope |-> x.scope],
         NEW y, y = [x EXCEPT !.waiters = @ \cup {w}]
  PROVE  /\ Stamped(y)
         /\ y.st = x.st /\ y.tab = x.tab /\ y.kind = x.kind /\ y.scope = x.scope
         /\ y.orphan = x.orphan /\ y.after = x.after /\ y.waiters = x.waiters \cup {w}
<1>1. /\ w \in [who : {"query", "guard", "login", "signout"}, scope : Scopes]
      /\ w.who = who /\ w.scope = x.scope
  BY DEF Stamped, RequestRecords
<1>2. /\ y \in RequestRecords
      /\ y.st = x.st /\ y.tab = x.tab /\ y.kind = x.kind /\ y.scope = x.scope
      /\ y.orphan = x.orphan /\ y.after = x.after /\ y.waiters = x.waiters \cup {w}
      /\ y.account = x.account /\ y.key = x.key /\ y.header = x.header
      /\ y.cookie = x.cookie /\ y.answer = x.answer
  BY <1>1 DEF Stamped, RequestRecords
<1> QED BY <1>1, <1>2 DEF Stamped

\* A session cookie that stands for nobody is well formed.
LEMMA SignedOutIsCookie == SignedOut \in Cookies /\ Proper(SignedOut)
BY BoundsAreNaturals DEF SignedOut, Cookies, Proper, Ids

\* A new request of api.get.
LEMMA NewStamped ==
  ASSUME NEW t \in Tabs, NEW kind \in Kinds \ {"login"}, NEW scope \in Scopes,
         NEW who \in {"query", "guard", "login", "signout"}, who = "signout" => kind = "logout",
         NEW w, w = [who |-> who, scope |-> scope],
         NEW y, y = NewRequest(t, kind, Nobody, {w}, scope, scope)
  PROVE  /\ Stamped(y)
         /\ y.st = "issued" /\ y.tab = t /\ y.kind = kind /\ y.scope = scope
         /\ ~y.orphan /\ y.waiters = {w}
<1>1. /\ w \in [who : {"query", "guard", "login", "signout"}, scope : Scopes]
      /\ w.who = who /\ w.scope = scope
  OBVIOUS
<1>2. scope \in Int \X Ids /\ Nobody \in Ids /\ 0 \in 0 .. MaxLogins
  BY BoundsAreNaturals DEF Scopes, Ids
<1>3. /\ y \in RequestRecords
      /\ y.st = "issued" /\ y.tab = t /\ y.kind = kind /\ y.scope = scope
      /\ y.orphan = FALSE /\ y.waiters = {w}
      /\ y.key = scope /\ y.cookie = SignedOut /\ y.answer = "none"
  BY <1>1, <1>2, SignedOutIsCookie DEF NewRequest, RequestRecords
<1> QED BY <1>1, <1>3, SignedOutIsCookie DEF Stamped

\* A new sign-in.
LEMMA NewLoginStamped ==
  ASSUME NEW t \in Tabs, NEW a \in Submitted, NEW scope \in Scopes,
         NEW y, y = NewRequest(t, "login", a, {}, <<-1, Nobody>>, scope)
  PROVE  /\ Stamped(y)
         /\ y.st = "issued" /\ y.tab = t /\ y.kind = "login" /\ y.scope = scope
         /\ ~y.orphan /\ y.waiters = {}
<1>1. <<-1, Nobody>> \in Int \X Ids /\ Nobody \in Ids /\ 0 \in 0 .. MaxLogins
  BY BoundsAreNaturals DEF Ids
<1>2. /\ y \in RequestRecords
      /\ y.st = "issued" /\ y.tab = t /\ y.kind = "login" /\ y.scope = scope
      /\ y.orphan = FALSE /\ y.waiters = {} /\ y.account = a
      /\ y.cookie = SignedOut /\ y.answer = "none"
  BY <1>1, SignedOutIsCookie DEF NewRequest, RequestRecords, Kinds
<1> QED BY <1>2, SignedOutIsCookie DEF Stamped

-----------------------------------------------------------------------------
(* What steps do to requests and tabs.                                      *)

\* Request r is done, or as it was but for some who waited.
Lesser(r) ==
  req'[r].st # "idle" =>
    /\ req[r].st # "idle" /\ Stamped(req'[r])
    /\ req'[r].st = req[r].st /\ req'[r].tab = req[r].tab /\ req'[r].kind = req[r].kind
    /\ req'[r].scope = req[r].scope /\ req'[r].orphan = req[r].orphan
    /\ req'[r].after = req[r].after /\ req'[r].waiters \subseteq req[r].waiters

\* Tab t shows another user only with another version.
Onward(t) ==
  /\ tab'[t].version >= tab[t].version
  /\ tab'[t].version = tab[t].version => tab'[t].user = tab[t].user

\* What a request that stays was, it is.
LEMMA LesserKeeps ==
  ASSUME TabsInv, NEW r \in Requests, Lesser(r), \A t \in Tabs : Onward(t),
         tab' \in [Tabs -> TabRecords]
  PROVE  RequestInv(r)' /\ (Signs(req[r])' => Signs(req[r]))
<1>1. CASE req'[r].st = "idle"
  BY <1>1 DEF RequestInv, Signs
<1>2. CASE req'[r].st # "idle"
  <2> DEFINE x == req[r]
             y == req'[r]
             t == x.tab
  <2>1. /\ Stamped(x) /\ OfVersion(x) /\ Stamped(y)
        /\ x.tab = t /\ y.tab = t /\ y.scope = x.scope /\ y.orphan = x.orphan /\ y.kind = x.kind
        /\ y.waiters \subseteq x.waiters /\ x.st # "idle"
    BY <1>2 DEF Lesser, TabsInv, RequestInv
  <2>2. t \in Tabs /\ x.scope[1] \in Nat
    BY <2>1 DEF Stamped, RequestRecords, Scopes
  <2>3. Onward(t) /\ tab[t] \in TabRecords /\ tab'[t] \in TabRecords
    BY <2>2 DEF TabsInv
  <2>4. tab[t].version \in Nat /\ tab'[t].version \in Nat
    BY <2>3 DEF TabRecords
  <2> HIDE DEF x, y, t
  <2>5. ~y.orphan =>
          /\ y.scope[1] <= tab'[y.tab].version
          /\ y.scope[1] = tab'[y.tab].version /\ (\E w \in y.waiters : w.who = "guard")
               => tab'[y.tab].user # Nobody
    BY <2>1, <2>2, <2>3, <2>4 DEF OfVersion, Onward
  <2>6. Signs(y) => Signs(x)
    BY <2>1 DEF Signs
  <2>7. Stamped(req[r])'
    BY <2>1 DEF y, Stamped
  <2>8. OfVersion(req[r])'
    BY <2>5 DEF y, OfVersion
  <2>9. RequestInv(r)'
    BY <2>7, <2>8 DEF RequestInv
  <2>10. Signs(req[r])' => Signs(req[r])
    BY <2>6 DEF x, y, Signs
  <2> QED BY <2>9, <2>10
<1> QED BY <1>1, <1>2

\* Request r is handled.
LEMMA DoneLesser ==
  ASSUME TabsInv, NEW r \in Requests, req' = Done(r)
  PROVE  /\ DOMAIN req' = Requests /\ req'[r].st = "idle"
         /\ \A s \in Requests : Lesser(s)
<1>1. /\ DOMAIN req' = Requests /\ req'[r] = NoRequest
      /\ \A s \in Requests \ {r} : req'[s] = req[s]
  BY DEF Done, TabsInv
<1>2. \A s \in Requests : req[s].st # "idle" => Stamped(req[s])
  BY DEF TabsInv, RequestInv
<1> QED BY <1>1, <1>2 DEF Lesser, NoRequest

\* Request r is handled and the queries of tab t are dropped (client.clear).
LEMMA WithoutLesser ==
  ASSUME TabsInv, NEW r \in Requests, NEW t, req' = WithoutQueries(Done(r), t)
  PROVE  /\ DOMAIN req' = Requests /\ req'[r].st = "idle"
         /\ \A s \in Requests : Lesser(s)
<1> DEFINE d == Done(r)
<1>1. d[r] = NoRequest /\ \A s \in Requests \ {r} : d[s] = req[s]
  BY DEF Done, TabsInv
<1> HIDE DEF d
<1>2. DOMAIN req' = Requests
  BY DEF WithoutQueries
<1>3. req'[r].st = "idle"
  BY <1>1 DEF WithoutQueries, NoRequest, d
<1>4. ASSUME NEW s \in Requests \ {r} PROVE Lesser(s)
  <2>1. CASE OfTab(s, t) /\ req[s].st # "idle"
    <3>1. PICK W \in SUBSET req[s].waiters : W = {w \in req[s].waiters : w.who # "query"}
      OBVIOUS
    <3>2. req'[s] = [req[s] EXCEPT !.waiters = W]
      BY <1>1, <1>4, <2>1, <3>1 DEF WithoutQueries, d
    <3>3. Stamped(req[s])
      BY <2>1 DEF TabsInv, RequestInv
    <3>4. /\ Stamped(req'[s])
          /\ req'[s].st = req[s].st /\ req'[s].tab = req[s].tab /\ req'[s].kind = req[s].kind
          /\ req'[s].scope = req[s].scope /\ req'[s].orphan = req[s].orphan
          /\ req'[s].after = req[s].after /\ req'[s].waiters = W
      BY <3>2, <3>3, FewerWait
    <3> QED BY <2>1, <3>4 DEF Lesser
  <2>2. CASE ~(OfTab(s, t) /\ req[s].st # "idle")
    <3>1. req'[s] = req[s]
      BY <1>1, <1>4, <2>2 DEF WithoutQueries, d
    <3> QED BY <3>1 DEF Lesser, TabsInv, RequestInv
  <2> QED BY <2>1, <2>2
<1> QED BY <1>2, <1>3, <1>4 DEF Lesser

\* Tab u is as it was, except perhaps for its page and a storage event.
SameTab(u) ==
  /\ tab'[u].user = tab[u].user /\ tab'[u].version = tab[u].version
  /\ tab'[u].verified = tab[u].verified /\ tab'[u].cache = tab[u].cache
  /\ tab'[u].confirmed = tab[u].confirmed

\* Tab u is told only if id replaces another user.
Hears(u, id) == SameTab(u) /\ (~tab[u].pending /\ id = lsUser => ~tab'[u].pending)

\* Storing a user: the tab is as it should be, the others hear of a change.
LEMMA StoreTabs ==
  ASSUME TabsInv, NEW t \in Tabs, NEW id \in Ids, NEW rec \in TabRecords, Store(t, id, rec),
         rec.user = id, rec.verified <= rec.version,
         rec.verified = rec.version => rec.user = rec.confirmed
  PROVE  /\ lsUser' = id /\ lsUid' = id
         /\ tab' \in [Tabs -> TabRecords] /\ tab'[t] = rec
         /\ \A u \in Tabs : TabInv(u)'
         /\ \A u \in Tabs \ {t} : Hears(u, id)
<1>1. lsUser' = id /\ lsUid' = id /\ tab \in [Tabs -> TabRecords]
  BY DEF Store, TabsInv
<1>2. tab' = [u \in Tabs |-> IF u # t /\ id # lsUser
                              THEN [[tab EXCEPT ![t] = rec][u] EXCEPT !.pending = TRUE]
                              ELSE [tab EXCEPT ![t] = rec][u]]
  BY DEF Store, Notify
<1>3. tab'[t] = rec
  BY <1>1, <1>2
<1>4. ASSUME NEW u \in Tabs \ {t}
      PROVE  /\ tab'[u] \in TabRecords /\ SameTab(u)
             /\ ~tab'[u].pending <=> ~tab[u].pending /\ id = lsUser
  <2>1. tab[u] \in TabRecords
    BY <1>1
  <2>2. CASE id # lsUser
    <3>1. tab'[u] = [tab[u] EXCEPT !.pending = TRUE]
      BY <1>1, <1>2, <1>4, <2>2
    <3> QED BY <2>1, <2>2, <3>1 DEF TabRecords, SameTab
  <2>3. CASE id = lsUser
    <3>1. tab'[u] = tab[u]
      BY <1>1, <1>2, <1>4, <2>3
    <3> QED BY <2>1, <2>3, <3>1 DEF TabRecords, SameTab
  <2> QED BY <2>2, <2>3
<1>5. tab' \in [Tabs -> TabRecords]
  BY <1>2, <1>3, <1>4
<1>6. ASSUME NEW u \in Tabs PROVE TabInv(u)'
  <2>1. CASE u = t
    BY <1>1, <1>3, <2>1 DEF TabInv
  <2>2. CASE u # t
    <3>1. TabInv(u)
      BY DEF TabsInv
    <3>2. /\ tab'[u] \in TabRecords /\ SameTab(u)
          /\ ~tab'[u].pending <=> ~tab[u].pending /\ id = lsUser
      BY <1>4, <2>2
    <3> QED BY <1>1, <3>1, <3>2 DEF TabInv, SameTab
  <2> QED BY <2>1, <2>2
<1>7. \A u \in Tabs \ {t} : Hears(u, id)
  BY <1>4 DEF Hears
<1> QED BY <1>1, <1>3, <1>5, <1>6, <1>7

-----------------------------------------------------------------------------
(* Steps that change nobody's user.                                         *)

\* Both invariants are kept, the second if sign-ins do not overlap.
Keeps == TabsInv' /\ (AloneInv /\ ~OverlappingSignIns => AloneInv')

\* Users, versions and what is stored stay.
SameUsers ==
  /\ lsUser' = lsUser /\ lsUid' = lsUid /\ signedIn' = signedIn
  /\ \A u \in Tabs : /\ tab'[u].user = tab[u].user /\ tab'[u].version = tab[u].version
                     /\ ~tab[u].pending => ~tab'[u].pending

\* Nobody begins to sign in.
LEMMA AloneFrame ==
  ASSUME AloneInv, SameUsers, \A u \in Tabs : ShowsOwn(u)',
         \A s \in Requests : Signs(req[s])' => Signs(req[s]),
         \A s \in Requests : SinceSignIn(req[s])'
  PROVE  AloneInv'
<1>1. Quiet => Quiet'
  BY DEF Quiet, SameUsers
<1>2. \A s \in Requests : Signs(req[s])' => Quiet'
  BY <1>1 DEF AloneInv
<1>3. \A r, s \in Requests : Signs(req[r])' /\ Signs(req[s])' => r = s
  BY DEF AloneInv
<1>4. /\ (lsUser # Nobody => lsUid = lsUser)'
      /\ (lsUser = Nobody /\ lsUid # Nobody => Quiet)'
  BY <1>1 DEF AloneInv, SameUsers
<1> QED BY <1>2, <1>3, <1>4 DEF AloneInv

\* Requests are handled or nothing happens to them.
LEMMA HandledStep ==
  ASSUME TabsInv, SameUsers, StoresInv', DOMAIN req' = Requests, \A s \in Requests : Lesser(s),
         tab' \in [Tabs -> TabRecords], \A u \in Tabs : TabInv(u)',
         AloneInv => \A u \in Tabs : ShowsOwn(u)'
  PROVE  Keeps
<1>1. \A u \in Tabs : Onward(u)
  BY DEF SameUsers, Onward, TabsInv, TabRecords
<1>2. \A s \in Requests : RequestInv(s)' /\ (Signs(req[s])' => Signs(req[s]))
  BY <1>1, LesserKeeps
<1>3. TabsInv'
  BY <1>2 DEF TabsInv
<1>4. ASSUME AloneInv, NEW s \in Requests PROVE SinceSignIn(req[s])'
  <2>1. SinceSignIn(req[s]) /\ Lesser(s) /\ (req[s].st # "idle" => req[s].tab \in Tabs)
    BY <1>4 DEF AloneInv, TabsInv, RequestInv, Stamped, RequestRecords
  <2> QED BY <2>1 DEF SinceSignIn, Lesser, SameUsers
<1>5. AloneInv => AloneInv'
  BY <1>2, <1>4, AloneFrame
<1> QED BY <1>3, <1>5 DEF Keeps

\* One request changes.
LEMMA RequestStep ==
  ASSUME TabsInv, SameUsers, StoresInv', DOMAIN req' = Requests, NEW r \in Requests,
         \A s \in Requests \ {r} : req'[s] = req[s],
         RequestInv(r)', AloneInv => (Signs(req[r])' => Signs(req[r])) /\ SinceSignIn(req[r])',
         tab' \in [Tabs -> TabRecords], \A u \in Tabs : TabInv(u)' /\ SameTab(u)
  PROVE  Keeps
<1>1. ASSUME NEW s \in Requests \ {r}
      PROVE  RequestInv(s)' /\ (Signs(req[s])' => Signs(req[s]))
  <2>1. Lesser(s)
    BY DEF Lesser, TabsInv, RequestInv
  <2>2. \A u \in Tabs : Onward(u)
    BY DEF SameUsers, Onward, TabsInv, TabRecords
  <2> QED BY <2>1, <2>2, LesserKeeps
<1>2. TabsInv'
  BY <1>1 DEF TabsInv
<1>3. ASSUME AloneInv PROVE AloneInv'
  <2>1. ASSUME NEW s \in Requests PROVE SinceSignIn(req[s])'
    <3>1. CASE s = r
      BY <1>3, <3>1
    <3>2. CASE s # r
      <4>1. SinceSignIn(req[s]) /\ req'[s] = req[s] /\ (req[s].st # "idle" => req[s].tab \in Tabs)
        BY <1>3, <3>2 DEF AloneInv, TabsInv, RequestInv, Stamped, RequestRecords
      <4> QED BY <4>1 DEF SinceSignIn, SameUsers
    <3> QED BY <3>1, <3>2
  <2>2. ASSUME NEW u \in Tabs PROVE ShowsOwn(u)'
    <3>1. ShowsOwn(u)
      BY <1>3 DEF AloneInv
    <3> QED BY <3>1 DEF ShowsOwn, SameTab, SameUsers
  <2> QED BY <1>1, <1>3, <2>1, <2>2, AloneFrame
<1> QED BY <1>2, <1>3 DEF Keeps

\* Nothing happens to the tabs.
LEMMA SameTabs ==
  ASSUME TabsInv, UNCHANGED <<lsUser, lsUid, tab, signedIn>>
  PROVE  /\ SameUsers
         /\ tab' \in [Tabs -> TabRecords] /\ \A u \in Tabs : TabInv(u)' /\ SameTab(u)
BY DEF TabsInv, SameUsers, TabInv, SameTab

\* Only the page of tab t changes.
LEMMA SamePages ==
  ASSUME TabsInv, UNCHANGED <<lsUser, lsUid, signedIn>>,
         NEW t \in Tabs, NEW p \in {"loading", "checking", "app", "out"},
         tab' = [tab EXCEPT ![t].page = p]
  PROVE  /\ SameUsers
         /\ tab' \in [Tabs -> TabRecords] /\ \A u \in Tabs : TabInv(u)' /\ SameTab(u)
<1>1. tab \in [Tabs -> TabRecords]
  BY DEF TabsInv
<1>2. PICK y : y = [tab[t] EXCEPT !.page = p]
  OBVIOUS
<1>3. /\ y \in TabRecords
      /\ y.user = tab[t].user /\ y.version = tab[t].version /\ y.verified = tab[t].verified
      /\ y.cache = tab[t].cache /\ y.pending = tab[t].pending /\ y.confirmed = tab[t].confirmed
  BY <1>1, <1>2 DEF TabRecords
<1>4. tab' = [tab EXCEPT ![t] = y]
  BY <1>1, <1>2
<1>5. tab' \in [Tabs -> TabRecords]
  BY <1>1, <1>3, <1>4
<1>6. \A u \in Tabs : SameTab(u) /\ tab'[u].pending = tab[u].pending
  BY <1>1, <1>3, <1>4 DEF SameTab
<1>7. SameUsers
  BY <1>6 DEF SameUsers, SameTab
<1>8. ASSUME NEW u \in Tabs PROVE TabInv(u)'
  <2>1. TabInv(u) /\ tab'[u] \in TabRecords
    BY <1>5 DEF TabsInv
  <2> QED BY <1>6, <2>1 DEF TabInv, SameTab
<1> QED BY <1>5, <1>6, <1>7, <1>8

-----------------------------------------------------------------------------
(* The network.                                                             *)

\* A request leaves with the uid and the cookie of the moment (Send).
LEMMA SendKeeps ==
  ASSUME TabsInv, NEW r \in Requests, Send(r)
  PROVE  Keeps
<1> DEFINE x == req[r]
           y == req'[r]
           scope == getAccountScope(x.tab)
<1>1. /\ Stamped(x) /\ OfVersion(x) /\ x.st = "issued" /\ x.tab \in Tabs
      /\ cookie \in Cookies /\ Proper(cookie) /\ lsUid \in Ids /\ signedIn \in 0 .. MaxLogins
  BY DEF Send, TabsInv, RequestInv, StoresInv, Stamped, RequestRecords
<1>2. scope \in Scopes /\ scope[1] = tab[x.tab].version /\ scope[2] = lsUid
  BY <1>1 DEF getAccountScope, Scopes, TabsInv, TabRecords
<1>3. x.kind # "login" => scope = x.scope
  BY <1>1 DEF Send, Stale
<1>4. /\ DOMAIN req' = Requests /\ \A s \in Requests \ {r} : req'[s] = req[s]
      /\ y = [x EXCEPT !.st = "sent", !.scope = scope, !.header = lsUid,
                       !.cookie = cookie, !.after = signedIn]
  BY DEF Send, TabsInv
<1> HIDE DEF scope
<1>5. /\ y \in RequestRecords
      /\ y.st = "sent" /\ y.scope = scope /\ y.header = lsUid /\ y.cookie = cookie
      /\ y.after = signedIn /\ y.tab = x.tab /\ y.kind = x.kind /\ y.account = x.account
      /\ y.key = x.key /\ y.waiters = x.waiters /\ y.answer = x.answer /\ y.orphan = x.orphan
  <2>1. x \in RequestRecords
    BY <1>1 DEF Stamped
  <2>2. /\ scope \in Scopes /\ lsUid \in Ids /\ cookie \in Cookies /\ signedIn \in 0 .. MaxLogins
        /\ y = [x EXCEPT !.st = "sent", !.scope = scope, !.header = lsUid,
                         !.cookie = cookie, !.after = signedIn]
    BY <1>1, <1>2, <1>4
  <2> HIDE DEF x, y
  <2> QED BY <2>1, <2>2 DEF RequestRecords
<1>6. Stamped(y)
  BY <1>1, <1>2, <1>3, <1>5 DEF Stamped
<1>7. /\ tab' = tab
      /\ ~y.orphan =>
          /\ y.scope[1] <= tab'[y.tab].version
          /\ y.scope[1] = tab'[y.tab].version /\ (\E w \in y.waiters : w.who = "guard")
               => tab'[y.tab].user # Nobody
  <2>1. tab' = tab /\ tab[x.tab].version \in Nat
    BY <1>1 DEF Send, TabsInv, TabRecords
  <2>2. (\E w \in x.waiters : w.who = "guard") => x.kind # "login"
    BY <1>1 DEF Stamped
  <2> QED BY <1>1, <1>2, <1>3, <1>5, <2>1, <2>2 DEF OfVersion
<1>8. RequestInv(r)'
  BY <1>6, <1>7 DEF RequestInv, Stamped, OfVersion
<1>9. (Signs(req[r])' => Signs(req[r])) /\ SinceSignIn(req[r])'
  BY <1>1, <1>5 DEF Signs, SinceSignIn, Send
<1>10. StoresInv' /\ UNCHANGED <<lsUser, lsUid, tab, signedIn>>
  BY DEF Send, TabsInv, StoresInv
<1> QED BY <1>4, <1>8, <1>9, <1>10, SameTabs, RequestStep

\* An answer reaches the browser or the request fails (Arrive, Fail).
LEMMA AnswerKeeps ==
  ASSUME TabsInv, NEW r \in Requests, Arrive(r) \/ Fail(r)
  PROVE  Keeps
<1> DEFINE x == req[r]
           y == req'[r]
<1>1. /\ Stamped(x) /\ OfVersion(x) /\ x.st = "sent" /\ x \in RequestRecords
  BY DEF Arrive, Fail, TabsInv, RequestInv, Stamped
<1>2. PICK ans \in {"ok", "unauthorized", "error"} :
        /\ DOMAIN req' = Requests /\ \A s \in Requests \ {r} : req'[s] = req[s]
        /\ y = IF x.orphan THEN NoRequest ELSE [x EXCEPT !.st = "arrived", !.answer = ans]
        /\ ans = "unauthorized" => x.kind \in {"query", "self"}
        /\ ans = "ok" /\ x.kind \in {"query", "self"} =>
             x.cookie # SignedOut /\ x.header = x.cookie.account
  <2>1. CASE Arrive(r)
    <3>1. AuthHelper(r) \in {"ok", "unauthorized"}
      BY DEF AuthHelper
    <3>2. AuthHelper(r) = "unauthorized" => x.kind \in {"query", "self"}
      BY <1>1 DEF AuthHelper, RequestRecords, Kinds
    <3>3. AuthHelper(r) = "ok" /\ x.kind \in {"query", "self"} =>
             x.cookie # SignedOut /\ x.header = x.cookie.account
      BY DEF AuthHelper
    <3> QED BY <2>1, <3>1, <3>2, <3>3 DEF Arrive, TabsInv
  <2>2. CASE Fail(r)
    BY <2>2 DEF Fail, TabsInv
  <2> QED BY <2>1, <2>2
<1>3. UNCHANGED <<lsUser, lsUid, tab, signedIn>>
  BY DEF Arrive, Fail
<1>4. StoresInv'
  <2>1. cookie' \in Cookies /\ Proper(cookie')
    <3>1. CASE Arrive(r) /\ x.kind = "login"
      <4>1. x.account \in Submitted /\ cookie' = [account |-> x.account.id, login |-> x.account.login]
        BY <1>1, <3>1 DEF Arrive, Stamped
      <4> QED BY <4>1, NoneIsNoAccount DEF Cookies, Proper, Submitted, Ids
    <3>2. CASE Arrive(r) /\ x.kind = "logout"
      BY <3>2, SignedOutIsCookie DEF Arrive
    <3>3. CASE Arrive(r) /\ x.kind \notin {"login", "logout"}
      BY <3>3 DEF Arrive, TabsInv, StoresInv
    <3>4. CASE Fail(r)
      BY <3>4 DEF Fail, TabsInv, StoresInv
    <3> QED BY <3>1, <3>2, <3>3, <3>4
  <2>2. faults' \in 0 .. MaxFaults
    BY BoundsAreNaturals DEF Arrive, Fail, TabsInv, StoresInv
  <2>3. Proper(cookie)'
    BY <2>1 DEF Proper
  <2>4. UNCHANGED <<lsUser, lsUid, logins, signedIn>>
    BY DEF Arrive, Fail
  <2> QED BY <2>1, <2>2, <2>3, <2>4 DEF TabsInv, StoresInv
<1>5. CASE x.orphan
  <2>1. y.st = "idle"
    BY <1>2, <1>5 DEF NoRequest
  <2>2. RequestInv(r)' /\ (Signs(req[r])' => Signs(req[r])) /\ SinceSignIn(req[r])'
    BY <2>1 DEF RequestInv, Signs, SinceSignIn
  <2> QED BY <1>2, <1>3, <1>4, <2>2, SameTabs, RequestStep
<1>6. CASE ~x.orphan
  <2>1. y = [x EXCEPT !.st = "arrived", !.answer = ans]
    BY <1>2, <1>6
  <2>2. /\ y \in RequestRecords
        /\ y.st = "arrived" /\ y.scope = x.scope /\ y.header = x.header /\ y.cookie = x.cookie
        /\ y.after = x.after /\ y.tab = x.tab /\ y.kind = x.kind /\ y.account = x.account
        /\ y.key = x.key /\ y.waiters = x.waiters /\ y.answer = ans /\ y.orphan = x.orphan
    <3>1. x \in RequestRecords /\ ans \in {"none", "ok", "unauthorized", "error"}
      BY <1>1, <1>2
    <3> HIDE DEF x, y
    <3> QED BY <2>1, <3>1 DEF RequestRecords
  <2>3. Stamped(y)
    BY <1>1, <1>2, <1>6, <2>2 DEF Stamped
  <2>4. RequestInv(r)'
    BY <1>1, <1>3, <2>2, <2>3 DEF RequestInv, Stamped, OfVersion
  <2>5. Signs(req[r])' => Signs(req[r])
    BY <1>1, <2>2 DEF Signs
  <2>6. AloneInv => SinceSignIn(req[r])'
    BY <1>1, <1>3, <2>2 DEF AloneInv, SinceSignIn
  <2> QED BY <1>2, <1>3, <1>4, <2>4, <2>5, <2>6, SameTabs, RequestStep
<1> QED BY <1>5, <1>6

\* A session is forgotten.
LEMMA SessionExpiresKeeps ==
  ASSUME TabsInv, SessionExpires
  PROVE  Keeps
<1>1. UNCHANGED <<lsUser, lsUid, tab, req, logins, signedIn>>
  BY DEF SessionExpires
<1>2. StoresInv'
  BY SignedOutIsCookie, BoundsAreNaturals DEF SessionExpires, TabsInv, StoresInv, Proper
<1>3. SameUsers /\ tab' \in [Tabs -> TabRecords] /\ \A u \in Tabs : TabInv(u)' /\ SameTab(u)
  BY <1>1, SameTabs
<1>4. DOMAIN req' = Requests /\ \A s \in Requests : Lesser(s)
  BY <1>1 DEF Lesser, TabsInv, RequestInv
<1>5. AloneInv => \A u \in Tabs : ShowsOwn(u)'
  BY <1>1 DEF AloneInv, ShowsOwn
<1> QED BY <1>2, <1>3, <1>4, <1>5, HandledStep

-----------------------------------------------------------------------------
(* Asking.                                                                  *)

\* Out of requests rs, request s of tab t is joined or begun for the waiter w.
Asked(rs, s, t, kind, w) ==
  /\ DOMAIN req' = Requests /\ \A q \in Requests \ {s} : req'[q] = rs[q]
  /\ Stamped(req'[s]) /\ req'[s].tab = t /\ ~req'[s].orphan
  /\ req'[s].kind = kind /\ req'[s].scope = w.scope
  /\ \/ /\ rs[s].st # "idle" /\ rs[s].tab = t /\ ~rs[s].orphan
        /\ rs[s].kind = kind /\ rs[s].scope = w.scope
        /\ req'[s].st = rs[s].st /\ req'[s].after = rs[s].after
        /\ req'[s].waiters = rs[s].waiters \cup {w}
     \/ /\ rs[s].st = "idle"
        /\ req'[s].st = "issued" /\ req'[s].waiters = {w}

\* api.get joins the request of the same scope or starts one.
LEMMA GetEffect ==
  ASSUME NEW rs, DOMAIN rs = Requests, \A s \in Requests : rs[s].st # "idle" => Stamped(rs[s]),
         NEW t \in Tabs, NEW kind \in Kinds \ {"login"}, NEW scope \in Scopes,
         NEW who \in {"query", "guard", "login", "signout"}, who = "signout" => kind = "logout",
         req' \in Get(rs, t, kind, who, scope, scope)
  PROVE  \E s \in Requests : Asked(rs, s, t, kind, [who |-> who, scope |-> scope])
<1>w. PICK w : w = [who |-> who, scope |-> scope]
  OBVIOUS
<1>s. w.scope = scope
  BY <1>w
<1> DEFINE same == {s \in Requests : /\ rs[s].st # "idle" /\ rs[s].tab = t
                                     /\ ~rs[s].orphan /\ rs[s].kind = kind
                                     /\ rs[s].key = scope}
<1>1. CASE same # {}
  <2>1. PICK s \in same : req' = [rs EXCEPT ![s].waiters = @ \cup {w}]
    BY <1>1, <1>w DEF Get
  <2>2. /\ DOMAIN req' = Requests /\ \A q \in Requests \ {s} : req'[q] = rs[q]
        /\ req'[s] = [rs[s] EXCEPT !.waiters = @ \cup {w}]
    BY <2>1
  <2>3. PICK x : x = rs[s]
    OBVIOUS
  <2>4. PICK y : y = req'[s]
    OBVIOUS
  <2>5. /\ Stamped(x) /\ x.st # "idle" /\ x.tab = t /\ ~x.orphan /\ x.kind = kind
        /\ x.scope = scope
    BY <2>3 DEF Stamped
  <2>6. /\ w = [who |-> who, scope |-> x.scope] /\ y = [x EXCEPT !.waiters = @ \cup {w}]
        /\ x.kind # "login" /\ (who = "signout" => x.kind = "logout")
    BY <1>w, <2>2, <2>3, <2>4, <2>5
  <2>7. /\ Stamped(y)
        /\ y.st = x.st /\ y.tab = x.tab /\ y.kind = x.kind /\ y.scope = x.scope
        /\ y.orphan = x.orphan /\ y.after = x.after /\ y.waiters = x.waiters \cup {w}
    BY <2>5, <2>6, OneMoreWaits
  <2>8. Asked(rs, s, t, kind, w)
    BY <1>s, <2>2, <2>3, <2>4, <2>5, <2>7 DEF Asked
  <2> QED BY <1>w, <2>8
<1>2. CASE same = {}
  <2>1. PICK s \in Requests : /\ rs[s].st = "idle"
                              /\ req' = [rs EXCEPT ![s] = NewRequest(t, kind, Nobody, {w}, scope, scope)]
    BY <1>2, <1>w DEF Get
  <2>2. /\ DOMAIN req' = Requests /\ \A q \in Requests \ {s} : req'[q] = rs[q]
        /\ req'[s] = NewRequest(t, kind, Nobody, {w}, scope, scope)
    BY <2>1
  <2>3. PICK y : y = req'[s]
    OBVIOUS
  <2>4. /\ Stamped(y)
        /\ y.st = "issued" /\ y.tab = t /\ y.kind = kind /\ y.scope = scope
        /\ ~y.orphan /\ y.waiters = {w}
    BY <1>w, <2>2, <2>3, NewStamped
  <2>5. Asked(rs, s, t, kind, w)
    BY <1>s, <2>1, <2>2, <2>3, <2>4 DEF Asked
  <2> QED BY <1>w, <2>5
<1> QED BY <1>1, <1>2

\* A tab's scope.
LEMMA ScopeOfTab ==
  ASSUME TabsInv, NEW t \in Tabs
  PROVE  /\ getAccountScope(t) \in Scopes /\ getAccountScope(t)[1] = tab[t].version
         /\ getAccountScope(t)[2] = lsUid /\ tab[t].version \in Nat
BY DEF getAccountScope, Scopes, TabsInv, StoresInv, TabRecords

\* A page asks in the scope of its tab, other than to sign in.
LEMMA AskKeeps ==
  ASSUME TabsInv, SameUsers, StoresInv', tab' \in [Tabs -> TabRecords],
         \A u \in Tabs : TabInv(u)' /\ SameTab(u),
         NEW t \in Tabs, NEW kind \in Kinds \ {"login"}, NEW who \in {"query", "guard", "signout"},
         who = "signout" => kind = "logout", who = "guard" => tab[t].user # Nobody,
         req' \in Get(req, t, kind, who, getAccountScope(t), getAccountScope(t))
  PROVE  Keeps
<1>1. PICK scope : scope = getAccountScope(t)
  OBVIOUS
<1>2. scope \in Scopes /\ scope[1] = tab[t].version /\ tab[t].version \in Nat
  BY <1>1, ScopeOfTab
<1>3. PICK w : w = [who |-> who, scope |-> scope]
  OBVIOUS
<1>4. DOMAIN req = Requests /\ \A s \in Requests : req[s].st # "idle" => Stamped(req[s])
  BY DEF TabsInv, RequestInv
<1>5. req' \in Get(req, t, kind, who, scope, scope)
  BY <1>1
<1>6. PICK s \in Requests : Asked(req, s, t, kind, w)
  <2>1. who \in {"query", "guard", "login", "signout"}
    OBVIOUS
  <2>2. scope \in Scopes
    BY <1>2
  <2> QED BY <1>3, <1>4, <1>5, <2>1, <2>2, GetEffect
<1>7. w.who = who /\ who # "login" /\ w.scope = scope
  BY <1>3
<1>8. RequestInv(s)'
  <2>1. (\E v \in req'[s].waiters : v.who = "guard") => tab[t].user # Nobody
    <3>1. req[s].st # "idle" => OfVersion(req[s])
      BY DEF TabsInv, RequestInv
    <3> QED BY <1>2, <1>6, <1>7, <3>1 DEF OfVersion, Asked
  <2>2. tab'[t].version = tab[t].version /\ tab'[t].user = tab[t].user
    BY DEF SameUsers
  <2>3. OfVersion(req[s])'
    BY <1>2, <1>6, <1>7, <2>1, <2>2 DEF OfVersion, Asked
  <2>4. Stamped(req[s])'
    BY <1>6 DEF Stamped, Asked
  <2> QED BY <2>3, <2>4 DEF RequestInv
<1>9. Signs(req[s])' => Signs(req[s])
  BY <1>6, <1>7 DEF Signs, Asked
<1>10. ASSUME AloneInv PROVE SinceSignIn(req[s])'
  <2>1. SinceSignIn(req[s])
    BY <1>10 DEF AloneInv
  <2> QED BY <1>6, <2>1 DEF SinceSignIn, SameUsers, Asked
<1>11. DOMAIN req' = Requests /\ \A q \in Requests \ {s} : req'[q] = req[q]
  BY <1>6 DEF Asked
<1> QED BY <1>8, <1>9, <1>10, <1>11, RequestStep

\* A page is loaded: to sign-in, to the guard's request, or shown (beforeLoad).
LEMMA BeforeLoadKeeps ==
  ASSUME TabsInv, NEW t \in Tabs, BeforeLoad(t)
  PROVE  Keeps
<1>1. StoresInv' /\ UNCHANGED <<lsUser, lsUid, signedIn>>
  BY DEF BeforeLoad, TabsInv, StoresInv, Proper
<1>2. PICK p \in {"loading", "checking", "app", "out"} : tab' = [tab EXCEPT ![t].page = p]
  BY DEF BeforeLoad
<1>3. SameUsers /\ tab' \in [Tabs -> TabRecords] /\ \A u \in Tabs : TabInv(u)' /\ SameTab(u)
  BY <1>1, <1>2, SamePages
<1>4. CASE tab[t].user # Nobody /\ req' \in Get(req, t, "self", "guard", DedupeKey(t), getAccountScope(t))
  <2>1. "self" \in Kinds \ {"login"} /\ "guard" \in {"query", "guard", "signout"}
    BY DEF Kinds
  <2> QED BY <1>1, <1>3, <1>4, <2>1, AskKeeps DEF DedupeKey
<1>5. CASE req' = req
  <2>1. DOMAIN req' = Requests /\ \A s \in Requests : Lesser(s)
    BY <1>5 DEF Lesser, TabsInv, RequestInv
  <2>2. AloneInv => \A u \in Tabs : ShowsOwn(u)'
    BY <1>3 DEF AloneInv, ShowsOwn, SameUsers, SameTab
  <2> QED BY <1>1, <1>3, <2>1, <2>2, HandledStep
<1> QED BY <1>4, <1>5 DEF BeforeLoad

\* A page asks for private data or to sign out.
LEMMA PageAsksKeeps ==
  ASSUME TabsInv, NEW t \in Tabs, Query(t) \/ SignOut(t)
  PROVE  Keeps
<1>1. StoresInv' /\ UNCHANGED <<lsUser, lsUid, tab, signedIn>>
  BY DEF Query, SignOut, TabsInv, StoresInv, Proper
<1>2. SameUsers /\ tab' \in [Tabs -> TabRecords] /\ \A u \in Tabs : TabInv(u)' /\ SameTab(u)
  BY <1>1, SameTabs
<1>3. {"query", "logout"} \subseteq Kinds \ {"login"}
  BY DEF Kinds
<1>4. CASE Query(t)
  <2>1. req' \in Get(req, t, "query", "query", getAccountScope(t), getAccountScope(t))
    BY <1>4 DEF Query, DedupeKey
  <2> QED BY <1>1, <1>2, <1>3, <2>1, AskKeeps
<1>5. CASE SignOut(t)
  <2>1. req' \in Get(req, t, "logout", "signout", getAccountScope(t), getAccountScope(t))
    BY <1>5 DEF SignOut, DedupeKey
  <2> QED BY <1>1, <1>2, <1>3, <2>1, AskKeeps
<1> QED BY <1>4, <1>5

\* The user goes to another page.
LEMMA NavigateKeeps ==
  ASSUME TabsInv, NEW t \in Tabs, Navigate(t)
  PROVE  Keeps
<1>1. StoresInv' /\ UNCHANGED <<lsUser, lsUid, signedIn, req>>
  BY DEF Navigate, TabsInv, StoresInv, Proper
<1>2. SameUsers /\ tab' \in [Tabs -> TabRecords] /\ \A u \in Tabs : TabInv(u)' /\ SameTab(u)
  BY <1>1, SamePages DEF Navigate
<1>3. DOMAIN req' = Requests /\ \A s \in Requests : Lesser(s)
  BY <1>1 DEF Lesser, TabsInv, RequestInv
<1>4. AloneInv => \A u \in Tabs : ShowsOwn(u)'
  BY <1>2 DEF AloneInv, ShowsOwn, SameUsers, SameTab
<1> QED BY <1>1, <1>2, <1>3, <1>4, HandledStep

\* A sign-in is submitted: every tab knows that nobody is signed in, and it is the
\* only one unless sign-ins overlap.
LEMMA SubmitLoginKeeps ==
  ASSUME TabsInv, NEW t \in Tabs, SubmitLogin(t)
  PROVE  Keeps
<1>1. PICK r \in Requests, a \in Accounts :
        /\ req[r].st = "idle"
        /\ req' = [req EXCEPT ![r] = NewRequest(t, "login", [id |-> a, login |-> logins + 1], {},
                                                <<-1, Nobody>>, getAccountScope(t))]
  BY DEF SubmitLogin, Busy
<1>2. UNCHANGED <<cookie, lsUser, lsUid, tab, signedIn, faults>>
  BY DEF SubmitLogin
<1>3. logins + 1 \in 1 .. MaxLogins /\ logins' = logins + 1
  BY BoundsAreNaturals DEF SubmitLogin, TabsInv, StoresInv
<1>4. StoresInv'
  BY <1>2, <1>3 DEF TabsInv, StoresInv, Proper
<1>5. PICK b : b = [id |-> a, login |-> logins + 1]
  OBVIOUS
<1>6. b \in Submitted
  BY <1>3, <1>5 DEF Submitted
<1>7. PICK y : y = NewRequest(t, "login", b, {}, <<-1, Nobody>>, getAccountScope(t))
  OBVIOUS
<1>8. /\ Stamped(y)
      /\ y.st = "issued" /\ y.tab = t /\ y.kind = "login" /\ y.scope = getAccountScope(t)
      /\ ~y.orphan /\ y.waiters = {}
  BY <1>6, <1>7, ScopeOfTab, NewLoginStamped
<1>9. /\ DOMAIN req' = Requests /\ req'[r] = y
      /\ \A s \in Requests \ {r} : req'[s] = req[s]
  BY <1>1, <1>5, <1>7 DEF TabsInv
<1>10. RequestInv(r)'
  <2>1. OfVersion(req[r])'
    BY <1>2, <1>8, <1>9, ScopeOfTab DEF OfVersion
  <2>2. Stamped(req[r])'
    BY <1>8, <1>9 DEF Stamped
  <2> QED BY <2>1, <2>2 DEF RequestInv
<1>11. \A s \in Requests \ {r} : RequestInv(s)'
  BY <1>2, <1>9 DEF TabsInv, RequestInv, Stamped, OfVersion
<1>12. TabsInv'
  <2>1. tab' \in [Tabs -> TabRecords] /\ \A u \in Tabs : TabInv(u)'
    BY <1>2, SameTabs
  <2> QED BY <1>4, <1>9, <1>10, <1>11, <2>1 DEF TabsInv
<1>13. ASSUME AloneInv, ~OverlappingSignIns PROVE AloneInv'
  <2>1. Quiet
    BY DEF SubmitLogin, EventsSeen, Quiet, TabsInv, TabInv
  <2>2. Quiet'
    BY <1>2, <2>1 DEF Quiet
  <2>3. ASSUME NEW s \in Requests PROVE ~Signs(req[s])
    <3>1. SUFFICES ASSUME Signs(req[s]) PROVE FALSE
      OBVIOUS
    <3>2. req[s].tab \in Tabs
      BY <3>1 DEF Signs, TabsInv, RequestInv, Stamped, RequestRecords
    <3>3. SigningIn(req[s].tab)
      BY <3>1 DEF Signs, SigningIn, OfTab, Busy, Waits
    <3> QED BY <1>13, <3>2, <3>3 DEF SubmitLogin
  <2>4. \A s \in Requests \ {r} : ~Signs(req[s])'
    BY <1>9, <2>3 DEF Signs
  <2>5. \A q, s \in Requests : Signs(req[q])' /\ Signs(req[s])' => q = s
    BY <2>4
  <2>6. \A u \in Tabs : ShowsOwn(u)'
    BY <2>2 DEF Quiet, ShowsOwn
  <2>7. \A s \in Requests : SinceSignIn(req[s])'
    <3> SUFFICES ASSUME NEW s \in Requests PROVE SinceSignIn(req[s])'
      OBVIOUS
    <3>1. RequestInv(s)'
      BY <1>10, <1>11
    <3>2. req'[s].st # "idle" => req'[s].tab \in Tabs
      BY <3>1 DEF RequestInv, Stamped, RequestRecords
    <3> QED BY <2>2, <3>2 DEF SinceSignIn, Quiet
  <2>8. (lsUser # Nobody => lsUid = lsUser)'
    BY <2>2 DEF Quiet
  <2> QED BY <2>2, <2>5, <2>6, <2>7, <2>8 DEF AloneInv
<1> QED BY <1>12, <1>13 DEF Keeps

-----------------------------------------------------------------------------
(* The auth store.                                                          *)

Pages == {"loading", "checking", "app", "out"}

\* y is tab t without a user.
Left(t, y) ==
  /\ y \in TabRecords /\ y.user = Nobody /\ y.version = tab[t].version + 1
  /\ y.pending = tab[t].pending /\ y.verified <= y.version /\ y.verified # y.version

\* reset: nobody, another version, an empty cache.
LEMMA ResetFields ==
  ASSUME TabsInv, NEW t \in Tabs, NEW p \in Pages, NEW y, y = [Reset(tab[t]) EXCEPT !.page = p]
  PROVE  Left(t, y)
<1>1. PICK x : x = tab[t]
  OBVIOUS
<1>2. x \in TabRecords /\ x.verified <= x.version
  BY <1>1 DEF TabsInv, TabInv
<1>3. x.version \in Nat /\ x.version + 1 \in Nat /\ x.verified \in Int
  BY <1>2 DEF TabRecords, Unverified
<1>4. PICK n \in Nat : n = x.version + 1
  BY <1>3
<1>5. y = [x EXCEPT !.user = Nobody, !.version = n, !.cache = {}, !.page = p]
  <2>1. Reset(x) = [x EXCEPT !.user = Nobody, !.version = n, !.cache = {}]
    BY <1>4 DEF Reset, CacheAfter
  <2>2. PICK z : z = [x EXCEPT !.user = Nobody, !.version = n, !.cache = {}]
    OBVIOUS
  <2>3. y = [z EXCEPT !.page = p]
    BY <1>1, <2>1, <2>2
  <2> QED BY <1>2, <2>2, <2>3 DEF TabRecords
<1>6. /\ y \in TabRecords /\ y.user = Nobody /\ y.version = n
      /\ y.pending = x.pending /\ y.verified = x.verified
  BY <1>2, <1>5 DEF TabRecords, Pages, Ids
<1> QED BY <1>1, <1>2, <1>3, <1>4, <1>6 DEF Left

\* setUser: another version and an empty cache if it is somebody else.
LEMMA SetUserFields ==
  ASSUME TabsInv, NEW t \in Tabs, NEW id \in Ids, NEW y, y = SetUser(tab[t], id)
  PROVE  /\ y \in TabRecords /\ y.user = id
         /\ y.version = IF tab[t].user # id THEN tab[t].version + 1 ELSE tab[t].version
         /\ y.cache = IF tab[t].user # id THEN {} ELSE tab[t].cache
         /\ y.pending = tab[t].pending /\ y.verified = tab[t].verified
         /\ y.confirmed = tab[t].confirmed
<1>1. PICK x : x = tab[t]
  OBVIOUS
<1>2. x \in TabRecords
  BY <1>1 DEF TabsInv
<1>3. x.version \in Nat /\ x.version + 1 \in Nat
  BY <1>2 DEF TabRecords
<1>4. PICK n \in Nat : n = IF x.user # id THEN x.version + 1 ELSE x.version
  BY <1>3
<1>5. PICK c \in SUBSET Accounts : c = IF x.user # id THEN {} ELSE x.cache
  BY <1>2 DEF TabRecords
<1>6. y = [x EXCEPT !.user = id, !.version = n, !.cache = c]
  <2>1. CASE x.user # id
    BY <1>1, <1>4, <1>5, <2>1 DEF SetUser, CacheAfter
  <2>2. CASE x.user = id
    <3>1. x.version + 0 = x.version
      BY <1>3
    <3> QED BY <1>1, <1>4, <1>5, <2>2, <3>1 DEF SetUser, CacheAfter
  <2> QED BY <2>1, <2>2
<1>7. /\ y \in TabRecords /\ y.user = id /\ y.version = n /\ y.cache = c
      /\ y.pending = x.pending /\ y.verified = x.verified /\ y.confirmed = x.confirmed
  BY <1>2, <1>6 DEF TabRecords
<1> QED BY <1>1, <1>4, <1>5, <1>7

\* A tab stores a user.
LEMMA StoreStep ==
  ASSUME TabsInv, NEW t \in Tabs, NEW id \in Ids, NEW rec \in TabRecords, Store(t, id, rec),
         rec.user = id, rec.verified <= rec.version,
         rec.verified = rec.version => rec.user = rec.confirmed,
         rec.version >= tab[t].version, rec.version = tab[t].version => rec.user = tab[t].user,
         DOMAIN req' = Requests, \A s \in Requests : Lesser(s),
         UNCHANGED <<cookie, logins, faults>>, signedIn' \in 0 .. MaxLogins
  PROVE  /\ TabsInv' /\ \A s \in Requests : Signs(req[s])' => Signs(req[s])
         /\ lsUser' = id /\ lsUid' = id /\ tab'[t] = rec /\ \A u \in Tabs \ {t} : Hears(u, id)
<1>1. /\ lsUser' = id /\ lsUid' = id
      /\ tab' \in [Tabs -> TabRecords] /\ tab'[t] = rec
      /\ \A u \in Tabs : TabInv(u)'
      /\ \A u \in Tabs \ {t} : Hears(u, id)
  BY StoreTabs
<1>2. StoresInv'
  BY <1>1 DEF TabsInv, StoresInv, Proper
<1>3. ASSUME NEW u \in Tabs PROVE Onward(u)
  <2>1. CASE u = t
    BY <1>1, <2>1 DEF Onward
  <2>2. CASE u # t
    <3>1. SameTab(u) /\ tab[u].version \in Nat
      BY <1>1, <2>2 DEF Hears, TabsInv, TabRecords
    <3> QED BY <3>1 DEF SameTab, Onward
  <2> QED BY <2>1, <2>2
<1>4. \A s \in Requests : RequestInv(s)' /\ (Signs(req[s])' => Signs(req[s]))
  BY <1>1, <1>3, LesserKeeps
<1> QED BY <1>1, <1>2, <1>4 DEF TabsInv

\* A tab signs out or is signed out by a 401.
LEMMA LeaveKeeps ==
  ASSUME TabsInv, NEW t \in Tabs, NEW rec, Left(t, rec), Store(t, Nobody, rec),
         DOMAIN req' = Requests, \A s \in Requests : Lesser(s),
         UNCHANGED <<cookie, logins, signedIn, faults>>
  PROVE  Keeps
<1>1. /\ rec \in TabRecords /\ rec.user = Nobody /\ rec.version = tab[t].version + 1
      /\ rec.pending = tab[t].pending /\ rec.verified <= rec.version /\ rec.verified # rec.version
  BY DEF Left
<1>2. tab[t].version \in Nat /\ Nobody \in Ids /\ signedIn' \in 0 .. MaxLogins
  BY DEF TabsInv, TabRecords, Ids, StoresInv
<1>3. rec.version >= tab[t].version /\ rec.version # tab[t].version
  BY <1>1, <1>2
<1>4. /\ TabsInv' /\ \A s \in Requests : Signs(req[s])' => Signs(req[s])
      /\ lsUser' = Nobody /\ lsUid' = Nobody /\ tab'[t] = rec
      /\ \A u \in Tabs \ {t} : Hears(u, Nobody)
  BY <1>1, <1>2, <1>3, StoreStep
<1>5. /\ lsUser' = Nobody /\ lsUid' = Nobody /\ tab'[t] = rec
      /\ \A u \in Tabs \ {t} : Hears(u, Nobody)
  BY <1>4
<1>6. ASSUME AloneInv PROVE AloneInv'
  <2>1. Quiet => Quiet'
    BY <1>1, <1>5 DEF Quiet, Hears, SameTab
  <2>2. \A s \in Requests : Signs(req[s])' => Quiet'
    BY <1>4, <1>6, <2>1 DEF AloneInv
  <2>3. \A q, s \in Requests : Signs(req[q])' /\ Signs(req[s])' => q = s
    BY <1>4, <1>6 DEF AloneInv
  <2>4. ASSUME NEW u \in Tabs PROVE ShowsOwn(u)'
    <3>1. ShowsOwn(u)
      BY <1>6 DEF AloneInv
    <3> QED BY <1>1, <1>5, <3>1 DEF ShowsOwn, Hears, SameTab
  <2>5. ASSUME NEW s \in Requests PROVE SinceSignIn(req[s])'
    <3>1. SinceSignIn(req[s]) /\ Lesser(s) /\ (req[s].st # "idle" => req[s].tab \in Tabs)
      BY <1>6 DEF AloneInv, TabsInv, RequestInv, Stamped, RequestRecords
    <3>2. CASE req[s].tab = t
      BY <1>1, <1>5, <3>1, <3>2 DEF SinceSignIn, Lesser
    <3>3. CASE req[s].tab # t
      BY <1>5, <3>1, <3>3 DEF SinceSignIn, Lesser, Hears, SameTab
    <3> QED BY <3>2, <3>3
  <2> QED BY <1>5, <2>2, <2>3, <2>4, <2>5 DEF AloneInv
<1> QED BY <1>4, <1>6 DEF Keeps

-----------------------------------------------------------------------------
(* Answers handled.                                                         *)

\* The tab of a request under way.
LEMMA TabOfRequest ==
  ASSUME TabsInv, NEW r \in Requests, req[r].st # "idle"
  PROVE  req[r].tab \in Tabs /\ Stamped(req[r]) /\ OfVersion(req[r])
BY DEF TabsInv, RequestInv, Stamped, RequestRecords

\* Sign-out, whatever the server said.
LEMMA SignOutLocallyKeeps ==
  ASSUME TabsInv, NEW r \in Requests, req[r].st # "idle", SignOutLocally(r)
  PROVE  Keeps
<1>1. PICK t \in Tabs : t = req[r].tab
  BY TabOfRequest
<1>2. PICK rec : rec = [Reset(tab[t]) EXCEPT !.page = "out"]
  OBVIOUS
<1>3. /\ Store(t, Nobody, rec) /\ req' = WithoutQueries(Done(r), t)
      /\ UNCHANGED <<cookie, logins, signedIn, faults>>
  BY <1>1, <1>2 DEF SignOutLocally
<1>4. DOMAIN req' = Requests /\ \A s \in Requests : Lesser(s)
  BY <1>3, WithoutLesser
<1>5. Left(t, rec)
  BY <1>2, ResetFields DEF Pages
<1> QED BY <1>3, <1>4, <1>5, LeaveKeeps

\* A request is given up and at most the page moves.
LEMMA GiveUpKeeps ==
  ASSUME TabsInv, NEW r \in Requests, NEW t \in Tabs, NEW p \in Pages,
         tab' = [tab EXCEPT ![t].page = p], req' = Done(r),
         UNCHANGED <<cookie, lsUser, lsUid, logins, signedIn, faults>>
  PROVE  Keeps
<1>1. SameUsers /\ tab' \in [Tabs -> TabRecords] /\ \A u \in Tabs : TabInv(u)' /\ SameTab(u)
  BY SamePages DEF Pages
<1>2. DOMAIN req' = Requests /\ \A s \in Requests : Lesser(s)
  BY DoneLesser
<1>3. AloneInv => \A u \in Tabs : ShowsOwn(u)'
  BY <1>1 DEF AloneInv, ShowsOwn, SameUsers, SameTab
<1>4. StoresInv'
  BY DEF TabsInv, StoresInv, Proper
<1> QED BY <1>1, <1>2, <1>3, <1>4, HandledStep

\* A cancelled or failed request.
LEMMA HandleLostKeeps ==
  ASSUME TabsInv, NEW r \in Requests, HandleCancelled(r) \/ HandleFailed(r)
  PROVE  Keeps
<1>1. req[r].st # "idle"
  BY DEF HandleCancelled, HandleFailed, Arrived
<1>2. PICK t \in Tabs : t = req[r].tab
  BY <1>1, TabOfRequest
<1>3. CASE Waits(r, "signout")
  BY <1>1, <1>3, SignOutLocallyKeeps DEF HandleCancelled, HandleFailed
<1>4. CASE ~Waits(r, "signout")
  <2>1. tab \in [Tabs -> TabRecords] /\ tab[t].page \in Pages
    BY DEF TabsInv, TabRecords, Pages
  <2>2. \A x, v : PageAfterFailure(x, v) \in Pages
    BY DEF PageAfterFailure, Pages
  <2>3. CASE HandleCancelled(r)
    <3> DEFINE guards == {w \in req[r].waiters : w.who = "guard"}
               p == IF guards = {} THEN tab[t].page
                    ELSE PageAfterFailure(tab[t], (CHOOSE w \in guards : TRUE).scope[1])
    <3>1. /\ tab' = [tab EXCEPT ![t].page = p] /\ req' = Done(r)
          /\ UNCHANGED <<cookie, lsUser, lsUid, logins, signedIn, faults>>
      BY <1>2, <1>4, <2>1, <2>3 DEF HandleCancelled
    <3>2. p \in Pages
      BY <2>1, <2>2
    <3> HIDE DEF p
    <3> QED BY <3>1, <3>2, GiveUpKeeps
  <2>4. CASE HandleFailed(r)
    <3> DEFINE p == IF Waits(r, "guard") THEN PageAfterFailure(tab[t], req[r].scope[1])
                    ELSE tab[t].page
    <3>1. /\ tab' = [tab EXCEPT ![t].page = p] /\ req' = Done(r)
          /\ UNCHANGED <<cookie, lsUser, lsUid, logins, signedIn, faults>>
      BY <1>2, <1>4, <2>1, <2>4 DEF HandleFailed
    <3>2. p \in Pages
      BY <2>1, <2>2
    <3> HIDE DEF p
    <3> QED BY <3>1, <3>2, GiveUpKeeps
  <2> QED BY <2>3, <2>4
<1> QED BY <1>3, <1>4

\* A 401.
LEMMA HandleUnauthorizedKeeps ==
  ASSUME TabsInv, NEW r \in Requests, HandleUnauthorized(r)
  PROVE  Keeps
<1>1. PICK t \in Tabs : t = req[r].tab /\ req[r].st = "arrived"
  BY TabOfRequest DEF HandleUnauthorized, Arrived
<1>2. PICK p \in Pages : p = IF Waits(r, "guard") THEN "loading" ELSE tab[t].page
  BY DEF Pages, TabsInv, TabRecords
<1>3. Reset(tab[t]).page = tab[t].page
  BY DEF Reset, TabsInv, TabRecords
<1>4. PICK rec : rec = [Reset(tab[t]) EXCEPT !.page = p]
  OBVIOUS
<1>5. /\ Store(t, Nobody, rec) /\ req' = WithoutQueries(Done(r), t)
      /\ UNCHANGED <<cookie, logins, signedIn, faults>>
  <2>1. rec = [Reset(tab[t]) EXCEPT !.page = IF Waits(r, "guard") THEN "loading" ELSE @]
    BY <1>2, <1>3, <1>4
  <2> QED BY <1>1, <2>1 DEF HandleUnauthorized
<1>6. DOMAIN req' = Requests /\ \A s \in Requests : Lesser(s)
  BY <1>5, WithoutLesser
<1>7. Left(t, rec)
  BY <1>4, ResetFields
<1> QED BY <1>5, <1>6, <1>7, LeaveKeeps

\* The server signed the tab out.
LEMMA HandleLogoutKeeps ==
  ASSUME TabsInv, NEW r \in Requests, HandleLogout(r)
  PROVE  Keeps
<1>1. req[r].st # "idle" /\ SignOutLocally(r)
  BY DEF HandleLogout, Arrived
<1> QED BY <1>1, SignOutLocallyKeeps

\* An answer the server gave in the scope the tab is still in is of the account
\* whose uid is stored.
LEMMA AnswerOfStored ==
  ASSUME TabsInv, NEW r \in Requests, Arrived(r), ~Stale(r), req[r].answer = "ok",
         req[r].kind \in {"query", "self"}
  PROVE  /\ req[r].tab \in Tabs /\ Stamped(req[r]) /\ OfVersion(req[r]) /\ ~req[r].orphan
         /\ req[r].scope[1] = tab[req[r].tab].version
         /\ req[r].cookie.account = lsUid /\ lsUid \in Accounts
         /\ req[r].cookie.login \in 0 .. MaxLogins
<1>1. /\ req[r].tab \in Tabs /\ Stamped(req[r]) /\ OfVersion(req[r]) /\ req[r].st = "arrived"
  BY TabOfRequest DEF Arrived
<1>2. req[r].scope = getAccountScope(req[r].tab)
  BY DEF Stale
<1>3. req[r].scope[1] = tab[req[r].tab].version /\ req[r].scope[2] = lsUid
  BY <1>1, <1>2, ScopeOfTab
<1>4. PICK x : x = req[r]
  OBVIOUS
<1>5. /\ x.header = x.scope[2] /\ x.cookie # SignedOut /\ x.header = x.cookie.account
      /\ Proper(x.cookie) /\ ~x.orphan /\ x.cookie \in Cookies
  BY <1>1, <1>4 DEF Stamped, RequestRecords
<1>6. x.cookie.account # Nobody /\ x.cookie.account \in Ids /\ x.cookie.login \in 0 .. MaxLogins
  BY <1>5 DEF Proper, Cookies
<1> QED BY <1>1, <1>3, <1>4, <1>5, <1>6 DEF Ids

\* The query cache takes the data: it is of the user the tab shows, if any.
LEMMA HandleQueryKeeps ==
  ASSUME TabsInv, NEW r \in Requests, HandleQuery(r)
  PROVE  Keeps
<1>1. /\ req[r].tab \in Tabs /\ req[r].cookie.account = lsUid /\ lsUid \in Accounts
  BY AnswerOfStored DEF HandleQuery
<1>2. PICK t \in Tabs : t = req[r].tab
  BY <1>1
<1>3. tab \in [Tabs -> TabRecords] /\ tab[t].cache \subseteq Accounts
  BY DEF TabsInv, TabRecords
<1>4. PICK c \in SUBSET Accounts :
        c = IF Waits(r, "query") THEN tab[t].cache \cup {lsUid} ELSE tab[t].cache
  BY <1>1, <1>3
<1>5. /\ tab' = [tab EXCEPT ![t].cache = c] /\ req' = Done(r)
      /\ UNCHANGED <<cookie, lsUser, lsUid, logins, signedIn, faults>>
  BY <1>1, <1>2, <1>3, <1>4 DEF HandleQuery
<1>6. PICK y : y = [tab[t] EXCEPT !.cache = c]
  OBVIOUS
<1>7. /\ y \in TabRecords /\ y.cache = c
      /\ y.user = tab[t].user /\ y.version = tab[t].version /\ y.verified = tab[t].verified
      /\ y.pending = tab[t].pending /\ y.confirmed = tab[t].confirmed
  BY <1>3, <1>6 DEF TabRecords
<1>8. tab' = [tab EXCEPT ![t] = y]
  BY <1>3, <1>5, <1>6
<1>9. tab' \in [Tabs -> TabRecords] /\ tab'[t] = y /\ \A u \in Tabs \ {t} : tab'[u] = tab[u]
  BY <1>3, <1>7, <1>8
<1>10. SameUsers
  BY <1>5, <1>7, <1>9 DEF SameUsers
<1>11. ASSUME NEW u \in Tabs PROVE TabInv(u)'
  <2>1. TabInv(u)
    BY DEF TabsInv
  <2> QED BY <1>5, <1>7, <1>9, <2>1 DEF TabInv
<1>12. DOMAIN req' = Requests /\ \A s \in Requests : Lesser(s)
  BY <1>5, DoneLesser
<1>13. StoresInv'
  BY <1>5 DEF TabsInv, StoresInv, Proper
<1>14. ASSUME AloneInv, NEW u \in Tabs PROVE ShowsOwn(u)'
  <2>1. ShowsOwn(u) /\ ShowsOwn(t)
    BY <1>14 DEF AloneInv
  <2>2. CASE u # t
    BY <1>5, <1>9, <2>1, <2>2 DEF ShowsOwn
  <2>3. CASE u = t /\ tab[t].user # Nobody
    <3>1. lsUser # Nobody
      BY <1>1, <1>14, <2>3, NoneIsNoAccount DEF AloneInv, Quiet
    <3>2. lsUid = tab[t].user
      BY <1>14, <2>1, <2>3, <3>1 DEF AloneInv, ShowsOwn
    <3>3. c \subseteq {tab[t].user}
      BY <1>4, <2>1, <2>3, <3>2 DEF ShowsOwn
    <3> QED BY <1>5, <1>7, <1>9, <2>1, <2>3, <3>3 DEF ShowsOwn
  <2>4. CASE u = t /\ tab[t].user = Nobody
    BY <1>7, <1>9, <2>4 DEF ShowsOwn
  <2> QED BY <2>2, <2>3, <2>4
<1> QED BY <1>9, <1>10, <1>11, <1>12, <1>13, <1>14, HandledStep

\* A sign-in succeeded: the uid is stored and the profile asked for.
LEMMA HandleLoginKeeps ==
  ASSUME TabsInv, NEW r \in Requests, HandleLogin(r)
  PROVE  Keeps
<1>1. /\ req[r].tab \in Tabs /\ Stamped(req[r]) /\ req[r].st = "arrived" /\ req[r].kind = "login"
  BY TabOfRequest DEF HandleLogin, Arrived
<1>2. PICK t \in Tabs : t = req[r].tab
  BY <1>1
<1>3. lsUid' = req[r].account.id /\ lsUid' \in Ids
  BY <1>1 DEF HandleLogin, Stamped, Submitted, Ids
<1>4. PICK scope : scope = <<tab[t].version, lsUid'>>
  OBVIOUS
<1>5. scope \in Scopes /\ scope[1] = tab[t].version /\ tab[t].version \in Nat
  BY <1>3, <1>4 DEF Scopes, TabsInv, TabRecords
<1>6. PICK rs : rs = Done(r)
  OBVIOUS
<1>7. /\ DOMAIN rs = Requests /\ rs[r].st = "idle" /\ \A s \in Requests \ {r} : rs[s] = req[s]
  BY <1>6 DEF Done, TabsInv, NoRequest
<1>8. \A s \in Requests : rs[s].st # "idle" => Stamped(rs[s]) /\ OfVersion(rs[s])
  BY <1>7 DEF TabsInv, RequestInv
<1>9. req' \in Get(rs, t, "self", "login", scope, scope)
  BY <1>2, <1>4, <1>6 DEF HandleLogin
<1>10. PICK w : w = [who |-> "login", scope |-> scope]
  OBVIOUS
<1>11. w.who = "login" /\ w.scope = scope
  BY <1>10
<1>12. PICK s \in Requests : Asked(rs, s, t, "self", w)
  <2>1. "self" \in Kinds \ {"login"}
    BY DEF Kinds
  <2>2. scope \in Scopes /\ \A q \in Requests : rs[q].st # "idle" => Stamped(rs[q])
    BY <1>5, <1>8
  <2> QED BY <1>7, <1>9, <1>10, <2>1, <2>2, GetEffect
<1>13. UNCHANGED <<cookie, lsUser, tab, logins, signedIn, faults>>
  BY DEF HandleLogin
<1>14. RequestInv(s)'
  <2>1. (\E v \in req'[s].waiters : v.who = "guard") => tab[t].user # Nobody
    BY <1>5, <1>8, <1>11, <1>12 DEF OfVersion, Asked
  <2>2. OfVersion(req[s])'
    BY <1>5, <1>11, <1>12, <1>13, <2>1 DEF OfVersion, Asked
  <2>3. Stamped(req[s])'
    BY <1>12 DEF Stamped, Asked
  <2> QED BY <2>2, <2>3 DEF RequestInv
<1>15. ASSUME NEW q \in Requests \ {s} PROVE RequestInv(q)' /\ (Signs(req[q])' => q # r /\ Signs(req[q]))
  <2>1. DOMAIN req' = Requests /\ req'[q] = rs[q]
    BY <1>12 DEF Asked
  <2>2. CASE q = r
    BY <1>7, <2>1, <2>2 DEF RequestInv, Signs
  <2>3. CASE q # r
    <3>1. req'[q] = req[q] /\ RequestInv(q)
      BY <1>7, <2>1, <2>3 DEF TabsInv
    <3> QED BY <1>13, <2>3, <3>1 DEF RequestInv, Stamped, OfVersion, Signs
  <2> QED BY <2>2, <2>3
<1>16. TabsInv'
  <2>1. StoresInv'
    BY <1>3, <1>13 DEF TabsInv, StoresInv, Proper
  <2>2. tab' \in [Tabs -> TabRecords] /\ \A u \in Tabs : TabInv(u)'
    BY <1>13 DEF TabsInv, TabInv
  <2>3. DOMAIN req' = Requests
    BY <1>12 DEF Asked
  <2> QED BY <1>14, <1>15, <2>1, <2>2, <2>3 DEF TabsInv
<1>17. ASSUME AloneInv PROVE AloneInv'
  <2>1. Signs(req[r])
    BY <1>1 DEF Signs, Stamped
  <2>2. Quiet'
    BY <1>13, <1>17, <2>1 DEF AloneInv, Quiet
  <2>3. \A q \in Requests \ {s} : ~Signs(req[q])'
    BY <1>15, <1>17, <2>1 DEF AloneInv
  <2>4. \A p, q \in Requests : Signs(req[p])' /\ Signs(req[q])' => p = q
    BY <2>3
  <2>5. \A u \in Tabs : ShowsOwn(u)'
    BY <2>2 DEF Quiet, ShowsOwn
  <2>6. ASSUME NEW q \in Requests PROVE SinceSignIn(req[q])'
    <3>1. req'[q].st # "idle" => req'[q].tab \in Tabs
      BY <1>16 DEF TabsInv, RequestInv, Stamped, RequestRecords
    <3> QED BY <2>2, <3>1 DEF SinceSignIn, Quiet
  <2>7. (lsUser # Nobody => lsUid = lsUser)'
    BY <2>2 DEF Quiet
  <2> QED BY <2>2, <2>4, <2>5, <2>6, <2>7 DEF AloneInv
<1> QED BY <1>16, <1>17 DEF Keeps

\* The requests after a profile.
LEMMA ProfileLesser ==
  ASSUME TabsInv, NEW r \in Requests, NEW t, NEW id,
         req' = IF tab[t].user # id THEN WithoutQueries(Done(r), t) ELSE Done(r)
  PROVE  /\ DOMAIN req' = Requests /\ req'[r].st = "idle"
         /\ \A s \in Requests : Lesser(s)
<1>1. CASE tab[t].user # id
  <2>1. req' = WithoutQueries(Done(r), t)
    BY <1>1
  <2> QED BY <2>1, WithoutLesser
<1>2. CASE tab[t].user = id
  <2>1. req' = Done(r)
    BY <1>2
  <2> QED BY <2>1, DoneLesser
<1> QED BY <1>1, <1>2

\* The profile of a sign-in: nobody was signed in, so the tab has another version
\* and an empty cache, and all others hear of it.
LEMMA HandleProfileKeeps ==
  ASSUME TabsInv, NEW r \in Requests, HandleProfile(r)
  PROVE  Keeps
<1>1. /\ req[r].tab \in Tabs /\ Stamped(req[r]) /\ ~req[r].orphan
      /\ req[r].cookie.account = lsUid /\ lsUid \in Accounts /\ req[r].cookie.login \in 0 .. MaxLogins
  BY AnswerOfStored DEF HandleProfile
<1>2. PICK t \in Tabs : t = req[r].tab
  BY <1>1
<1>3. PICK id \in Ids : id = lsUid /\ id # Nobody
  BY <1>1, NoneIsNoAccount DEF Ids
<1>4. PICK y : y = SetUser(tab[t], id)
  OBVIOUS
<1>5. /\ y \in TabRecords /\ y.user = id
      /\ y.version = IF tab[t].user # id THEN tab[t].version + 1 ELSE tab[t].version
      /\ y.cache = IF tab[t].user # id THEN {} ELSE tab[t].cache
      /\ y.pending = tab[t].pending /\ y.verified = tab[t].verified
      /\ y.confirmed = tab[t].confirmed
  BY <1>4, SetUserFields
<1>6. PICK rec : rec = [y EXCEPT !.page = "loading"]
  OBVIOUS
<1>7. /\ rec \in TabRecords /\ rec.user = id /\ rec.version = y.version /\ rec.cache = y.cache
      /\ rec.verified = y.verified /\ rec.confirmed = y.confirmed
  BY <1>5, <1>6 DEF TabRecords
<1>8. /\ Store(t, id, rec) /\ signedIn' \in 0 .. MaxLogins
      /\ req' = IF tab[t].user # id THEN WithoutQueries(Done(r), t) ELSE Done(r)
      /\ UNCHANGED <<cookie, logins, faults>>
  BY <1>1, <1>2, <1>3, <1>4, <1>6 DEF HandleProfile
<1>9. /\ DOMAIN req' = Requests /\ req'[r].st = "idle"
      /\ \A s \in Requests : Lesser(s)
  BY <1>8, ProfileLesser
<1>10. /\ tab[t].version \in Nat /\ tab[t].verified \in Int /\ tab[t].verified <= tab[t].version
       /\ tab[t].verified = tab[t].version => tab[t].user = tab[t].confirmed
  BY DEF TabsInv, TabInv, TabRecords, Unverified
<1>11. /\ rec.verified <= rec.version /\ (rec.verified = rec.version => rec.user = rec.confirmed)
       /\ rec.version >= tab[t].version /\ (rec.version = tab[t].version => rec.user = tab[t].user)
  BY <1>5, <1>7, <1>10
<1>12. /\ TabsInv' /\ \A s \in Requests : Signs(req[s])' => Signs(req[s])
       /\ lsUser' = id /\ lsUid' = id /\ tab'[t] = rec /\ \A u \in Tabs \ {t} : Hears(u, id)
  BY <1>7, <1>8, <1>9, <1>11, StoreStep
<1>13. ASSUME AloneInv PROVE AloneInv'
  <2>1. Signs(req[r])
    BY <1>1 DEF HandleProfile, Arrived, Waits, Signs
  <2>2. Quiet
    BY <1>13, <2>1 DEF AloneInv
  <2>3. \A s \in Requests : ~Signs(req[s])'
    BY <1>9, <1>12, <1>13, <2>1 DEF AloneInv, Signs
  <2>4. rec.version = tab[t].version + 1 /\ rec.cache = {}
    BY <1>3, <1>5, <1>7, <2>2 DEF Quiet
  <2>5. ASSUME NEW u \in Tabs PROVE ShowsOwn(u)'
    <3>1. CASE u = t
      BY <1>7, <1>12, <2>4, <3>1 DEF ShowsOwn
    <3>2. CASE u # t
      BY <1>12, <2>2, <3>2 DEF ShowsOwn, Hears, SameTab, Quiet
    <3> QED BY <3>1, <3>2
  <2>6. ASSUME NEW s \in Requests PROVE SinceSignIn(req[s])'
    <3> SUFFICES ASSUME req'[s].st # "idle", ~req'[s].orphan,
                        req'[s].scope[1] = tab'[req'[s].tab].version,
                        tab'[req'[s].tab].user # Nobody
                 PROVE  FALSE
      BY DEF SinceSignIn
    <3>1. /\ req[s].st # "idle" /\ ~req[s].orphan /\ req'[s].tab = req[s].tab
          /\ req'[s].scope = req[s].scope
      BY <1>9 DEF Lesser
    <3>2. req[s].tab \in Tabs /\ Stamped(req[s]) /\ OfVersion(req[s])
      BY <3>1, TabOfRequest
    <3>3. req[s].scope[1] <= tab[req[s].tab].version /\ req[s].scope[1] \in Nat
      BY <3>1, <3>2 DEF OfVersion, Stamped, RequestRecords, Scopes
    <3>4. CASE req[s].tab = t
      BY <1>10, <1>12, <2>4, <3>1, <3>3, <3>4
    <3>5. CASE req[s].tab # t
      BY <1>12, <2>2, <3>1, <3>2, <3>5 DEF Hears, SameTab, Quiet
    <3> QED BY <3>4, <3>5
  <2> QED BY <1>3, <1>12, <2>3, <2>5, <2>6 DEF AloneInv
<1> QED BY <1>12, <1>13 DEF Keeps

\* The profile for the guard confirms the version.  When sign-ins do not overlap
\* the user was already the one the server names.
LEMMA HandleVerifiedKeeps ==
  ASSUME TabsInv, NEW r \in Requests, HandleVerified(r)
  PROVE  Keeps
<1>1. /\ req[r].tab \in Tabs /\ OfVersion(req[r]) /\ ~req[r].orphan
      /\ req[r].scope[1] = tab[req[r].tab].version
      /\ req[r].cookie.account = lsUid /\ lsUid \in Accounts
  BY AnswerOfStored DEF HandleVerified
<1>2. PICK t \in Tabs : t = req[r].tab
  BY <1>1
<1>3. PICK id \in Ids : id = lsUid /\ id # Nobody
  BY <1>1, NoneIsNoAccount DEF Ids
<1>4. PICK y : y = SetUser(tab[t], id)
  OBVIOUS
<1>5. /\ y \in TabRecords /\ y.user = id
      /\ y.version = IF tab[t].user # id THEN tab[t].version + 1 ELSE tab[t].version
      /\ y.cache = IF tab[t].user # id THEN {} ELSE tab[t].cache
      /\ y.pending = tab[t].pending
  BY <1>4, SetUserFields
<1>6. PICK rec : rec = [y EXCEPT !.page = "app", !.confirmed = id, !.verified = y.version]
  OBVIOUS
<1>7. /\ rec \in TabRecords /\ rec.user = id /\ rec.version = y.version /\ rec.cache = y.cache
      /\ rec.verified = y.version /\ rec.confirmed = id /\ rec.pending = y.pending
  BY <1>5, <1>6 DEF TabRecords
<1>8. /\ Store(t, id, rec) /\ UNCHANGED <<cookie, logins, signedIn, faults>>
      /\ req' = IF tab[t].user # id THEN WithoutQueries(Done(r), t) ELSE Done(r)
  BY <1>1, <1>2, <1>3, <1>4, <1>6 DEF HandleVerified
<1>9. DOMAIN req' = Requests /\ \A s \in Requests : Lesser(s)
  BY <1>8, ProfileLesser
<1>10. tab[t].version \in Nat /\ y.version \in Nat /\ signedIn' \in 0 .. MaxLogins
  BY <1>5, <1>8 DEF TabsInv, TabRecords, StoresInv
<1>11. /\ rec.verified <= rec.version /\ (rec.verified = rec.version => rec.user = rec.confirmed)
       /\ rec.version >= tab[t].version /\ (rec.version = tab[t].version => rec.user = tab[t].user)
  BY <1>5, <1>7, <1>10
<1>12. /\ TabsInv' /\ \A s \in Requests : Signs(req[s])' => Signs(req[s])
       /\ lsUser' = id /\ lsUid' = id /\ tab'[t] = rec /\ \A u \in Tabs \ {t} : Hears(u, id)
  BY <1>7, <1>8, <1>9, <1>10, <1>11, StoreStep
<1>13. ASSUME AloneInv PROVE AloneInv'
  <2>1. tab[t].user # Nobody
    BY <1>1, <1>2 DEF OfVersion, HandleVerified, Waits
  <2>2. lsUser # Nobody
    BY <1>3, <1>13, <2>1 DEF AloneInv, Quiet
  <2>3. lsUser = id /\ tab[t].user = id
    BY <1>3, <1>13, <2>1, <2>2 DEF AloneInv, ShowsOwn
  <2>4. rec.version = tab[t].version /\ rec.cache = tab[t].cache
    BY <1>5, <1>7, <2>3
  <2>5. SameUsers
    <3>1. \A u \in Tabs \ {t} : /\ tab'[u].user = tab[u].user /\ tab'[u].version = tab[u].version
                                /\ ~tab[u].pending => ~tab'[u].pending
      BY <1>12, <2>3 DEF Hears, SameTab
    <3>2. /\ tab'[t].user = tab[t].user /\ tab'[t].version = tab[t].version
          /\ ~tab[t].pending => ~tab'[t].pending
      BY <1>5, <1>7, <1>12, <2>3, <2>4
    <3> QED BY <1>3, <1>8, <1>12, <2>3, <3>1, <3>2 DEF SameUsers
  <2>6. ASSUME NEW u \in Tabs PROVE ShowsOwn(u)'
    <3>1. ShowsOwn(u)
      BY <1>13 DEF AloneInv
    <3>2. CASE u = t
      BY <1>7, <1>12, <2>3, <2>4, <3>1, <3>2 DEF ShowsOwn
    <3>3. CASE u # t
      BY <1>12, <2>3, <3>1, <3>3 DEF ShowsOwn, Hears, SameTab
    <3> QED BY <3>2, <3>3
  <2>7. ASSUME NEW s \in Requests PROVE SinceSignIn(req[s])'
    <3>1. SinceSignIn(req[s]) /\ Lesser(s) /\ (req[s].st # "idle" => req[s].tab \in Tabs)
      BY <1>9, <1>13 DEF AloneInv, TabsInv, RequestInv, Stamped, RequestRecords
    <3> QED BY <2>5, <3>1 DEF SinceSignIn, Lesser, SameUsers
  <2> QED BY <1>12, <1>13, <2>5, <2>6, <2>7, AloneFrame
<1> QED BY <1>12, <1>13 DEF Keeps

-----------------------------------------------------------------------------
(* The storage event.                                                       *)

\* A tab that was told reloads if it shows another user; what it had asked is not
\* answered to the new page.
LEMMA StorageEventKeeps ==
  ASSUME TabsInv, NEW t \in Tabs, StorageEvent(t)
  PROVE  Keeps
<1>1. UNCHANGED <<cookie, lsUser, lsUid, logins, signedIn, faults>> /\ tab[t].pending
  BY DEF StorageEvent
<1>2. StoresInv' /\ tab \in [Tabs -> TabRecords]
  BY <1>1 DEF TabsInv, StoresInv, Proper
<1>3. CASE ~MustReload(t)
  <2>1. tab' = [tab EXCEPT ![t].pending = FALSE] /\ req' = req /\ tab[t].user = lsUser
    BY <1>3 DEF StorageEvent, MustReload
  <2>2. PICK y : y = [tab[t] EXCEPT !.pending = FALSE]
    OBVIOUS
  <2>3. /\ y \in TabRecords /\ ~y.pending /\ y.cache = tab[t].cache
        /\ y.user = tab[t].user /\ y.version = tab[t].version /\ y.verified = tab[t].verified
        /\ y.confirmed = tab[t].confirmed
    BY <1>2, <2>2 DEF TabRecords
  <2>4. tab' = [tab EXCEPT ![t] = y]
    BY <1>2, <2>1, <2>2
  <2>5. tab' \in [Tabs -> TabRecords] /\ tab'[t] = y /\ \A u \in Tabs \ {t} : tab'[u] = tab[u]
    BY <1>2, <2>3, <2>4
  <2>6. SameUsers
    BY <1>1, <2>3, <2>5 DEF SameUsers
  <2>7. ASSUME NEW u \in Tabs PROVE TabInv(u)'
    <3>1. TabInv(u)
      BY DEF TabsInv
    <3> QED BY <1>1, <2>1, <2>3, <2>5, <3>1 DEF TabInv
  <2>8. DOMAIN req' = Requests /\ \A s \in Requests : Lesser(s)
    BY <2>1 DEF Lesser, TabsInv, RequestInv
  <2>9. AloneInv => \A u \in Tabs : ShowsOwn(u)'
    BY <1>1, <2>3, <2>5 DEF AloneInv, ShowsOwn
  <2> QED BY <1>2, <2>5, <2>6, <2>7, <2>8, <2>9, HandledStep
<1>4. CASE MustReload(t)
  <2>1. /\ tab' = [tab EXCEPT ![t] = FreshTab(lsUser)]
        /\ req' = [r \in Requests |->
                     IF ~OfTab(r, t) THEN req[r]
                     ELSE IF req[r].st = "sent"
                     THEN [req[r] EXCEPT !.orphan = TRUE, !.waiters = {}]
                     ELSE NoRequest]
    BY <1>4 DEF StorageEvent
  <2>2. PICK y : y = FreshTab(lsUser)
    OBVIOUS
  <2>3. /\ y \in TabRecords /\ y.user = lsUser /\ y.version = 0 /\ y.verified = -1 /\ y.cache = {}
    BY <2>2 DEF FreshTab, TabRecords, Unverified, TabsInv, StoresInv, Ids
  <2>4. tab' \in [Tabs -> TabRecords] /\ tab'[t] = y /\ \A u \in Tabs \ {t} : tab'[u] = tab[u]
    BY <1>2, <2>1, <2>2, <2>3
  <2>5. ASSUME NEW u \in Tabs PROVE TabInv(u)'
    <3>1. TabInv(u) /\ lsUser' = lsUser
      BY <1>1 DEF TabsInv
    <3>2. CASE u = t
      BY <2>3, <2>4, <3>1, <3>2 DEF TabInv
    <3>3. CASE u # t
      BY <2>4, <3>1, <3>3 DEF TabInv
    <3> QED BY <3>2, <3>3
  <2>6. ASSUME NEW s \in Requests
        PROVE  \/ req'[s].st = "idle"
               \/ req[s].st # "idle" /\ Stamped(req'[s]) /\ req'[s].orphan
               \/ /\ req[s].st # "idle" /\ Stamped(req[s]) /\ OfVersion(req[s]) /\ req'[s] = req[s]
                  /\ req[s].tab # t \/ req[s].orphan
    <3>1. CASE ~OfTab(s, t)
      <4>1. req'[s] = req[s]
        BY <2>1, <3>1
      <4> QED BY <3>1, <4>1, TabOfRequest DEF OfTab, Busy
    <3>2. CASE OfTab(s, t) /\ req[s].st = "sent"
      <4>1. req'[s] = [req[s] EXCEPT !.orphan = TRUE, !.waiters = {}]
        BY <2>1, <3>2
      <4>2. Stamped(req[s]) /\ req[s].st # "idle"
        BY <3>2, TabOfRequest
      <4>3. Stamped(req'[s]) /\ req'[s].orphan
        BY <3>2, <4>1, <4>2, OrphanStamped
      <4> QED BY <4>2, <4>3
    <3>3. CASE OfTab(s, t) /\ req[s].st # "sent"
      <4>1. req'[s] = NoRequest
        BY <2>1, <3>3
      <4> QED BY <4>1 DEF NoRequest
    <3> QED BY <3>1, <3>2, <3>3
  <2>7. ASSUME NEW s \in Requests
        PROVE  RequestInv(s)' /\ (Signs(req[s])' => Signs(req[s]))
    <3>1. CASE req'[s].st = "idle"
      BY <3>1 DEF RequestInv, Signs
    <3>2. CASE Stamped(req'[s]) /\ req'[s].orphan
      BY <3>2 DEF RequestInv, Stamped, OfVersion, Signs
    <3>3. CASE /\ req[s].st # "idle" /\ Stamped(req[s]) /\ OfVersion(req[s]) /\ req'[s] = req[s]
               /\ req[s].tab # t \/ req[s].orphan
      <4>1. req[s].tab \in Tabs
        BY <3>3 DEF Stamped, RequestRecords
      <4>2. Stamped(req[s])'
        BY <3>3 DEF Stamped
      <4>3. OfVersion(req[s])'
        BY <2>4, <3>3, <4>1 DEF OfVersion
      <4>4. Signs(req[s])' => Signs(req[s])
        BY <3>3 DEF Signs
      <4> QED BY <4>2, <4>3, <4>4 DEF RequestInv
    <3> QED BY <2>6, <3>1, <3>2, <3>3
  <2>8. TabsInv'
    BY <1>2, <2>1, <2>4, <2>5, <2>7 DEF TabsInv
  <2>9. ASSUME AloneInv PROVE AloneInv'
    <3>1. ~Quiet
      BY <1>1 DEF Quiet
    <3>2. \A s \in Requests : ~Signs(req[s])'
      BY <2>7, <2>9, <3>1 DEF AloneInv
    <3>3. /\ (lsUser # Nobody => lsUid = lsUser)'
          /\ ~(lsUser = Nobody /\ lsUid # Nobody)'
      BY <1>1, <2>9, <3>1 DEF AloneInv
    <3>4. ASSUME NEW u \in Tabs PROVE ShowsOwn(u)'
      <4>1. ShowsOwn(u)
        BY <2>9 DEF AloneInv
      <4> QED BY <1>1, <2>3, <2>4, <4>1 DEF ShowsOwn
    <3>5. ASSUME NEW s \in Requests PROVE SinceSignIn(req[s])'
      <4>1. SinceSignIn(req[s])
        BY <2>9 DEF AloneInv
      <4>2. CASE req'[s].st = "idle" \/ req'[s].orphan
        BY <4>2 DEF SinceSignIn
      <4>3. CASE req'[s] = req[s] /\ Stamped(req[s]) /\ (req[s].tab # t \/ req[s].orphan)
        <5>1. req[s].tab \in Tabs
          BY <4>3 DEF Stamped, RequestRecords
        <5> QED BY <1>1, <2>4, <4>1, <4>3, <5>1 DEF SinceSignIn
      <4> QED BY <2>6, <4>2, <4>3
    <3> QED BY <3>2, <3>3, <3>4, <3>5 DEF AloneInv
  <2> QED BY <2>8, <2>9 DEF Keeps
<1> QED BY <1>3, <1>4

-----------------------------------------------------------------------------
(* The theorems about the tabs.                                             *)

\* A browser just opened satisfies both.
LEMMA TabsInitInv == TabsInit => TabsInv /\ AloneInv
<1> SUFFICES ASSUME TabsInit PROVE TabsInv /\ AloneInv
  OBVIOUS
<1>1. PICK stored \in Ids, page \in {"loading", "out"} :
        /\ \E session \in {stored, Nobody} : cookie = [account |-> session, login |-> 0]
        /\ lsUser = stored /\ lsUid = stored
        /\ tab = [t \in Tabs |-> [FreshTab(stored) EXCEPT !.page = page]]
  BY DEF TabsInit
<1>2. /\ req = [r \in Requests |-> NoRequest] /\ logins = 0 /\ signedIn = 0
      /\ faults \in {0, MaxFaults}
  BY DEF TabsInit
<1>3. StoresInv
  <2>1. PICK session \in Ids : cookie = [account |-> session, login |-> 0]
    BY <1>1 DEF Ids
  <2> QED BY <1>1, <1>2, <2>1, BoundsAreNaturals DEF StoresInv, Cookies, Proper, SignedOut
<1>4. PICK y : y = [FreshTab(stored) EXCEPT !.page = page]
  OBVIOUS
<1>5. /\ y \in TabRecords /\ y.user = stored /\ y.version = 0 /\ y.verified = -1 /\ y.cache = {}
      /\ ~y.pending
  BY <1>4 DEF FreshTab, TabRecords, Unverified, Ids
<1>6. tab \in [Tabs -> TabRecords] /\ \A t \in Tabs : tab[t] = y
  BY <1>1, <1>4, <1>5
<1>7. \A t \in Tabs : TabInv(t)
  BY <1>1, <1>5, <1>6 DEF TabInv
<1>8. DOMAIN req = Requests /\ \A r \in Requests : req[r].st = "idle"
  BY <1>2 DEF NoRequest
<1>9. TabsInv
  BY <1>3, <1>6, <1>7, <1>8 DEF TabsInv, RequestInv
<1>10. AloneInv
  BY <1>1, <1>5, <1>6, <1>8 DEF AloneInv, Signs, ShowsOwn, SinceSignIn
<1> QED BY <1>9, <1>10

\* Every step keeps them.
LEMMA TabsNextInv ==
  ASSUME TabsInv, [TabsNext]_tabsVars
  PROVE  Keeps
<1>1. CASE UNCHANGED tabsVars
  <2>1. TabsInv'
    BY <1>1 DEF tabsVars, TabsInv, StoresInv, Proper, TabInv, RequestInv, Stamped, OfVersion
  <2>2. AloneInv => AloneInv'
    BY <1>1 DEF tabsVars, AloneInv, Quiet, Signs, ShowsOwn, SinceSignIn
  <2> QED BY <2>1, <2>2 DEF Keeps
<1>2. ASSUME NEW t \in Tabs,
             \/ BeforeLoad(t) \/ Query(t) \/ StorageEvent(t)
             \/ SubmitLogin(t) \/ SignOut(t) \/ Navigate(t)
      PROVE  Keeps
  BY <1>2, BeforeLoadKeeps, PageAsksKeeps, StorageEventKeeps, SubmitLoginKeeps, NavigateKeeps
<1>3. ASSUME NEW r \in Requests, Send(r) \/ Arrive(r) \/ Fail(r)
      PROVE  Keeps
  BY <1>3, SendKeeps, AnswerKeeps
<1>4. ASSUME NEW r \in Requests, Handle(r)
      PROVE  Keeps
  BY <1>4, HandleLostKeeps, HandleUnauthorizedKeeps, HandleQueryKeeps, HandleLoginKeeps,
     HandleProfileKeeps, HandleVerifiedKeeps, HandleLogoutKeeps DEF Handle
<1>5. CASE SessionExpires
  BY <1>5, SessionExpiresKeeps
<1> QED BY <1>1, <1>2, <1>3, <1>4, <1>5 DEF TabsNext

\* The parts of OwnAccountOnly that do not depend on who signs in when.
LEMMA TabsInvShows ==
  TabsInv => TabsTypeOK /\ TabsFollowStorage /\ VerifiedByServer /\ SharedOnlyWithinAccount
<1> SUFFICES ASSUME TabsInv
             PROVE  TabsTypeOK /\ TabsFollowStorage /\ VerifiedByServer /\ SharedOnlyWithinAccount
  OBVIOUS
<1>1. TabsFollowStorage /\ VerifiedByServer
  BY DEF TabsInv, TabInv, TabsFollowStorage, VerifiedByServer
<1>2. ASSUME NEW r \in Requests, Busy(r)
      PROVE  /\ req[r].kind \in Kinds /\ req[r].tab \in Tabs
             /\ \A w \in req[r].waiters : w.scope = req[r].scope
  BY <1>2 DEF Busy, TabsInv, RequestInv, Stamped, RequestRecords
<1>3. SharedOnlyWithinAccount
  BY <1>2 DEF SharedOnlyWithinAccount, Stale
<1>4. TabsTypeOK
  BY <1>2 DEF TabsInv, StoresInv, TabRecords, TabsTypeOK, Cookies
<1> QED BY <1>1, <1>3, <1>4

\* However sign-ins in several tabs overlap: a tab that has seen the storage events
\* shows the account stored, what it counts as verified the server confirmed, and a
\* query that shares a request loses its answer only with its own scope
\* (the auth store, main.tsx's storage listener, the _authenticated route and the
\* request deduplication of lib/api.ts).
THEOREM TabsFollowTheirAccount ==
  TabsSpec => [](TabsTypeOK /\ TabsFollowStorage /\ VerifiedByServer /\ SharedOnlyWithinAccount)
<1>1. TabsInit => TabsInv
  BY TabsInitInv
<1>2. TabsInv /\ [TabsNext]_tabsVars => TabsInv'
  BY TabsNextInv DEF Keeps
<1>3. TabsInv => TabsTypeOK /\ TabsFollowStorage /\ VerifiedByServer /\ SharedOnlyWithinAccount
  BY TabsInvShows
<1> QED BY <1>1, <1>2, <1>3, PTL DEF TabsSpec

\* When one tab at a time signs in, no tab ever shows data of an account other than
\* its own, for any number of tabs, accounts and requests under way, whatever order
\* answers, storage events and lost sessions come in (getAccountScope,
\* bindAccountQueryCache and the guard together).
THEOREM TabsShowOwnAccount ==
  ASSUME ~OverlappingSignIns
  PROVE  TabsSpec => []OwnAccountOnly
<1>1. TabsInit => TabsInv /\ AloneInv
  BY TabsInitInv
<1>2. TabsInv /\ AloneInv /\ [TabsNext]_tabsVars => (TabsInv /\ AloneInv)'
  BY TabsNextInv DEF Keeps
<1>3. TabsInv /\ AloneInv => OwnAccountOnly
  <2>1. AloneInv => ShownDataIsOwn
    BY DEF AloneInv, ShowsOwn, ShownDataIsOwn
  <2> QED BY <2>1, TabsInvShows DEF OwnAccountOnly
<1> QED BY <1>1, <1>2, <1>3, PTL DEF TabsSpec

\* A step in which a refused request signs its tab out is that request's own 401.
LEMMA RefusalStep ==
  ASSUME TabsInv, AloneInv, [TabsNext]_tabsVars, NEW t \in Tabs, NEW r \in Requests,
         OfTab(r, t), Arrived(r), req[r].answer = "unauthorized",
         req'[r].st = "idle", tab[t].user # Nobody, tab'[t].user = Nobody,
         tab'[t].version > tab[t].version
  PROVE  req[r].after = signedIn
<1>1. /\ Stamped(req[r]) /\ req[r].tab = t /\ ~req[r].orphan /\ req[r].st = "arrived"
      /\ req[r].kind \in {"query", "self"} /\ SinceSignIn(req[r])
  BY TabOfRequest DEF OfTab, Arrived, Stamped, AloneInv
<1>2. CASE HandleUnauthorized(r)
  <2>1. req[r].scope = getAccountScope(t)
    BY <1>1, <1>2 DEF HandleUnauthorized, Stale
  <2>2. req[r].scope[1] = tab[t].version
    BY <2>1, ScopeOfTab
  <2> QED BY <1>1, <2>2 DEF SinceSignIn
<1>3. CASE /\ UNCHANGED tab
  BY <1>3
<1>4. CASE \E u \in Tabs : BeforeLoad(u) \/ Navigate(u)
  <2>1. PICK u \in Tabs : \E p : tab' = [tab EXCEPT ![u].page = p]
    BY <1>4 DEF BeforeLoad, Navigate
  <2>2. tab'[t].user = tab[t].user
    BY <2>1 DEF TabsInv, TabRecords
  <2> QED BY <2>2
<1>5. CASE \E u \in Tabs : StorageEvent(u)
  <2>1. PICK u \in Tabs : StorageEvent(u)
    BY <1>5
  <2>2. CASE u # t \/ ~MustReload(u)
    <3>1. tab \in [Tabs -> TabRecords]
      BY DEF TabsInv
    <3>2. CASE MustReload(u)
      BY <2>1, <2>2, <3>1, <3>2 DEF StorageEvent
    <3>3. CASE ~MustReload(u)
      <4>1. tab' = [tab EXCEPT ![u].pending = FALSE]
        BY <2>1, <3>3 DEF StorageEvent
      <4> QED BY <3>1, <4>1 DEF TabRecords
    <3> QED BY <3>2, <3>3
  <2>3. CASE u = t /\ MustReload(u)
    <3>1. tab'[t] = FreshTab(lsUser)
      BY <2>1, <2>3 DEF StorageEvent, TabsInv
    <3>2. tab'[t].version = 0 /\ tab[t].version \in Nat
      BY <3>1 DEF FreshTab, TabsInv, TabRecords
    <3> QED BY <3>2
  <2> QED BY <2>2, <2>3
<1>6. CASE \E s \in Requests : Handle(s) /\ ~HandleUnauthorized(r)
  <2>1. PICK s \in Requests : Handle(s)
    BY <1>6
  <2>2. s = r
    <3> SUFFICES ASSUME s # r PROVE FALSE
      OBVIOUS
    <3>1. CASE req' = Done(s)
      BY <1>1, <3>1 DEF Done, TabsInv
    <3>2. CASE \E v : req' = WithoutQueries(Done(s), v)
      <4>1. PICK v : req' = WithoutQueries(Done(s), v)
        BY <3>2
      <4>2. Done(s)[r] = req[r]
        BY DEF Done, TabsInv
      <4>3. req'[r] = req[r] \/ \E W : req'[r] = [req[r] EXCEPT !.waiters = W]
        BY <4>1, <4>2 DEF WithoutQueries
      <4>4. req'[r].st = req[r].st
        BY <1>1, <4>3 DEF Stamped, RequestRecords
      <4> QED BY <1>1, <4>4
    <3>3. CASE HandleLogin(s)
      BY <3>3 DEF HandleLogin
    <3> QED BY <2>1, <3>1, <3>2, <3>3 DEF Handle, HandleCancelled, HandleFailed, HandleUnauthorized,
              HandleQuery, HandleProfile, HandleVerified, HandleLogout, SignOutLocally
  <2>3. HandleCancelled(r)
    BY <1>1, <1>6, <2>1, <2>2 DEF Handle, HandleFailed, HandleQuery, HandleLogin, HandleProfile,
       HandleVerified, HandleLogout
  <2>4. ~Waits(r, "signout")
    BY <1>1 DEF Stamped, Waits
  <2>5. PICK p : tab' = [tab EXCEPT ![t].page = p]
    BY <1>1, <2>3, <2>4 DEF HandleCancelled
  <2>6. tab'[t].user = tab[t].user
    BY <2>5 DEF TabsInv, TabRecords
  <2> QED BY <2>6
<1> QED
  BY <1>2, <1>3, <1>4, <1>5, <1>6
     DEF TabsNext, tabsVars, Query, SubmitLogin, SignOut, Send, Arrive, Fail, SessionExpires

\* When one tab at a time signs in, a 401 that signs a tab out is the answer to a
\* request that left after the last sign-in: a late refusal of an earlier session
\* never ends a newer one (the response interceptor's stale-scope check).
THEOREM LateRefusalsHarmless ==
  ASSUME ~OverlappingSignIns
  PROVE  TabsSpec => LateRefusalIsHarmless
<1>1. TabsInit => TabsInv /\ AloneInv
  BY TabsInitInv
<1>2. TabsInv /\ AloneInv /\ [TabsNext]_tabsVars => (TabsInv /\ AloneInv)'
  BY TabsNextInv DEF Keeps
<1>3. TabsInv /\ AloneInv /\ [TabsNext]_tabsVars =>
        [\A t \in Tabs, r \in Requests :
           /\ OfTab(r, t) /\ Arrived(r) /\ req[r].answer = "unauthorized"
           /\ req'[r].st = "idle" /\ tab[t].user # Nobody /\ tab'[t].user = Nobody
           /\ tab'[t].version > tab[t].version
           => req[r].after = signedIn]_tabsVars
  BY RefusalStep
<1> QED BY <1>1, <1>2, <1>3, PTL DEF TabsSpec, LateRefusalIsHarmless
=============================================================================
