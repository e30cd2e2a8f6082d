------------------------------ MODULE SettingsPage ------------------------------
(***************************************************************************)
(* The settings page and the route of the notification preferences.  The   *)
(* form shows only what was loaded, is edited while a save is under way,   *)
(* and a save is given up after 15 s, when the server may still serve it.  *)
(* All users of the page share one row of preferences.                     *)
(*                                                                         *)
(* The code as it is: an edit during a save takes "Saving" away but not    *)
(* the "Saved" that follows, which is then about the form as it was sent   *)
(* (edited); and a save reported as failed may be stored, even after a     *)
(* later one (overtaken, as when another client saves).                    *)
(***************************************************************************)
EXTENDS Integers, FiniteSets

CONSTANTS
  Channels,      \* notification channels, at least one of which is chosen
  Options,       \* the channels, the event types, and enabled
  DefaultPrefs,  \* of the route, when no row is stored
  MaxCalls       \* bound: requests of the page

ASSUME SettingsAssumption ==
  Channels \subseteq Options /\ DefaultPrefs \subseteq Options /\ MaxCalls \in Nat

VARIABLES
  stored,        \* server: the preferences, a set of options; {} for no row
  form,          \* page: channels, events, enabled
  loaded,        \* history: the preferences were loaded
  settingsLoading, loadError, saving,
  saveState,     \* "idle", "saving", "saved" or "error"
  calls,         \* requests under way
  callsSent,
  abandoned,     \* saves that were given up and may still be served
  edited,        \* history: the form was edited since the last save
  overtaken      \* history: the row was written since, by another

settingsVars == <<stored, form, loaded, settingsLoading, loadError, saving,
                  saveState, calls, callsSent, abandoned, edited, overtaken>>
pageOnly == <<form, loaded, settingsLoading, loadError, saving, saveState,
              callsSent, edited>>

Call(kind, body) ==
  [kind |-> kind, body |-> body, n |-> callsSent + 1, served |-> FALSE]
SettingsInit ==
  /\ stored \in {{}, Options} /\ form \in {{c} : c \in Channels}
  /\ loaded = FALSE /\ settingsLoading = TRUE /\ loadError = FALSE
  /\ saving = FALSE /\ saveState = "idle" /\ callsSent = 1 /\ abandoned = {}
  /\ calls = {[kind |-> "load", body |-> {}, n |-> 1, served |-> FALSE]}
  /\ edited = FALSE /\ overtaken = FALSE

SendCall(kind, body) ==
  /\ callsSent < MaxCalls /\ callsSent' = callsSent + 1
  /\ calls' = calls \cup {Call(kind, body)}

-----------------------------------------------------------------------------
(* The route: the row or the defaults; an upsert.                          *)
GetPreferences(r) ==
  /\ r.kind = "load"
  /\ calls' = (calls \ {r}) \cup
       {[r EXCEPT !.served = TRUE, !.body = IF stored = {} THEN DefaultPrefs ELSE stored]}
  /\ UNCHANGED <<stored, overtaken>>

PatchPreferences(r) ==
  /\ r.kind = "save"
  /\ stored' = r.body /\ overtaken' = FALSE
  /\ calls' = (calls \ {r}) \cup {[r EXCEPT !.served = TRUE]}

ServeCall(r) ==
  /\ r \in calls /\ ~r.served
  /\ GetPreferences(r) \/ PatchPreferences(r)
  /\ UNCHANGED <<pageOnly, abandoned>>

ServeLate ==
  /\ \E body \in abandoned : stored' = body /\ abandoned' = abandoned \ {body}
  /\ overtaken' = TRUE
  /\ UNCHANGED <<pageOnly, calls>>

OtherSaves ==
  /\ stored' \in {s \in SUBSET Options : s \cap Channels # {}} /\ overtaken' = TRUE
  /\ UNCHANGED <<pageOnly, calls, abandoned>>

-----------------------------------------------------------------------------
(* The form, and in its place a skeleton or the error with its retry.      *)
SettingsView ==
  IF settingsLoading THEN {"skeleton"}
  ELSE IF loadError THEN {"retry"}
  ELSE {"form"} \cup (IF saving THEN {} ELSE {"save"})
       \cup (IF saveState \in {"saved", "error"} THEN {saveState} ELSE {})

LoadPreferences ==
  /\ "retry" \in SettingsView
  /\ settingsLoading' = TRUE /\ loadError' = FALSE /\ SendCall("load", {})
  /\ UNCHANGED <<stored, form, loaded, saving, saveState, abandoned, edited, overtaken>>

OnPreferences(r) ==
  /\ r.kind = "load" /\ settingsLoading' = FALSE
  /\ \/ r.served /\ form' = r.body /\ loaded' = TRUE /\ UNCHANGED loadError
     \/ loadError' = TRUE /\ UNCHANGED <<form, loaded>>
  /\ UNCHANGED <<saving, saveState, abandoned, edited>>

(* toggleChannel, toggleEvent and the switch.                              *)
Toggle(option) ==
  /\ "form" \in SettingsView
  /\ form' = IF option \in form THEN form \ {option} ELSE form \cup {option}
  /\ saveState' = "idle" /\ edited' = TRUE
  /\ UNCHANGED <<stored, loaded, settingsLoading, loadError, saving, calls,
                 callsSent, abandoned, overtaken>>

HandleSave ==
  /\ "save" \in SettingsView
  /\ IF form \cap Channels = {}
     THEN saveState' = "error" /\ UNCHANGED <<saving, calls, callsSent, edited>>
     ELSE /\ saving' = TRUE /\ saveState' = "saving" /\ edited' = FALSE
          /\ SendCall("save", form)
  /\ UNCHANGED <<stored, form, loaded, settingsLoading, loadError, abandoned, overtaken>>

OnSaved(r) ==
  /\ r.kind = "save" /\ saving' = FALSE
  /\ \/ r.served /\ saveState' = "saved" /\ UNCHANGED abandoned
     \/ saveState' = "error"
        /\ abandoned' \in {abandoned, IF r.served THEN abandoned ELSE abandoned \cup {r.body}}
  /\ UNCHANGED <<form, loaded, settingsLoading, loadError, edited>>

SettingsAnswer(r) ==
  /\ r \in calls /\ calls' = calls \ {r}
  /\ OnPreferences(r) \/ OnSaved(r)
  /\ UNCHANGED <<stored, callsSent, overtaken>>

SettingsNext ==
  \/ \E r \in calls : ServeCall(r) \/ SettingsAnswer(r)
  \/ ServeLate \/ OtherSaves \/ LoadPreferences \/ HandleSave
  \/ \E option \in Options : Toggle(option)

-----------------------------------------------------------------------------
(* "Saved" means that the row is the form, unless the form was edited or   *)
(* the row overtaken since; and what is edited and saved was loaded, never *)
(* the form's initial values.                                              *)
SettingsFit ==
  /\ ("saved" \in SettingsView /\ ~edited /\ ~overtaken) => stored = form
  /\ "form" \in SettingsView => loaded

SettingsSpins == settingsLoading \/ saving
=============================================================================
