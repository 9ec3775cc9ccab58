---------------------------- MODULE SettingsForm ----------------------------
(***************************************************************************)
(* A form of the console's system settings and the option table behind it. *)
(*                                                                         *)
(* Sources (web/src/features/system-settings): hooks/use-settings-form.ts, *)
(* hooks/use-update-option.ts, hooks/use-system-options.ts, components/    *)
(* settings-page.tsx, the quota, pricing and system information sections   *)
(* of general/, and the server's controller/option.go and model/option.go. *)
(*                                                                         *)
(* A save sends the changed keys one PUT at a time. Every success starts a *)
(* new GET of all options (cancelling one under way), whose answer becomes *)
(* the form's defaults, and defaults that differ from the form's baseline  *)
(* reset the form. All of this interleaves with typing, with other admins' *)
(* saves and with PUTs and GETs that fail.                                 *)
(*                                                                         *)
(* The hook's baselineRef, defaultValuesRef and serializedDefaultsRef and  *)
(* the form library's own default values are always written together: one  *)
(* variable, baseline, stands for them. A field is dirty if it differs.    *)
(*                                                                         *)
(* The options are those of one server process (common.OptionMap, which    *)
(* PUT writes and GET reads); other nodes, which follow at their next      *)
(* SyncOptions, are left out, and so are the form values that a section    *)
(* does not send as they are (an optional one the pricing section skips).  *)
(***************************************************************************)
EXTENDS Integers, FiniteSets

CONSTANTS
    Keys,      \* options of the section
    NoKey,     \* not a key
    Values,    \* values of an option
    MaxTypes,  \* bound: edits of a field
    MaxOther   \* bound: saves by another admin

ASSUME SettingsFormAssumption ==
    /\ NoKey \notin Keys
    /\ MaxTypes \in Nat
    /\ MaxOther \in Nat

VARIABLES
    server,    \* common.OptionMap of the process the console talks to
    fetch,     \* the GET: none, asked, or read and on its way
    snapshot,  \* what the GET read
    cache,     \* the query's data, from which the page builds the defaults
    inline,    \* the section builds its defaults object anew in each render
    effect,    \* the hook's effect is due: the defaults object is a new one
    form,      \* the fields
    baseline,
    put,       \* the key of the PUT under way, or NoKey
    answer,    \* the server's answer to it: none, applied or refused
    todo,      \* keys of this save still to send
    data,      \* the values this save sends
    types, other,
    \* history: keys of which the form need not know the server's value
    refused,   \* the server said success:false, which the save ignores
    unknown,   \* a PUT failed after the server had applied it
    foreign,   \* another admin saved it
    fetchLost, \* the last GET failed
    hasty      \* a save began while the form lagged behind the options

requestVars == <<put, answer, todo, data>>
fetchVars == <<fetch, snapshot, cache>>
historyVars == <<refused, unknown, foreign, fetchLost, hasty>>
vars == <<server, fetchVars, effect, form, baseline, requestVars, types, other,
          historyVars, inline>>

isSubmitting == put # NoKey
Changed == {k \in Keys : form[k] # baseline[k]}
isDirty == Changed # {}

\* form.reset and the three refs of the hook.
ResetTo(values) == form' = values /\ baseline' = values

Init ==
    /\ server \in [Keys -> Values]
    /\ cache = server /\ snapshot = server /\ form = server /\ baseline = server
    /\ data = server
    /\ inline \in BOOLEAN
    /\ fetch = "none" /\ effect = FALSE
    /\ put = NoKey /\ answer = "none" /\ todo = {}
    /\ types = 0 /\ other = 0
    /\ refused = {} /\ unknown = {} /\ foreign = {} /\ fetchLost = FALSE
    /\ hasty = FALSE

\* The fields stay enabled during a save.
Type(k, v) ==
    /\ types < MaxTypes
    /\ types' = types + 1
    /\ form[k] # v
    /\ form' = [form EXCEPT ![k] = v]
    /\ UNCHANGED <<server, fetchVars, effect, baseline, requestVars, other, historyVars>>

\* handleReset: back to the saved values.
HandleReset ==
    /\ isDirty
    /\ ~isSubmitting
    /\ ResetTo(baseline)
    /\ UNCHANGED <<server, fetchVars, effect, requestVars, types, other, historyVars>>

\* handleSubmit up to the first await of onSubmit.
HandleSubmit ==
    /\ ~isSubmitting
    /\ isDirty
    /\ data' = form
    /\ \E k \in Changed : put' = k /\ todo' = Changed \ {k}
    /\ answer' = "none"
    /\ hasty' = (hasty \/ fetch # "none" \/ fetchLost \/ cache # baseline)
    /\ UNCHANGED <<server, fetchVars, effect, form, baseline, types, other, refused,
                   unknown, foreign, fetchLost>>

\* UpdateOption on the server. An error of the database is ignored.
PutApplied ==
    /\ isSubmitting
    /\ answer = "none"
    /\ server' = [server EXCEPT ![put] = data[put]]
    /\ answer' = "applied"
    /\ foreign' = foreign \ {put}
    /\ refused' = refused \ {put}
    /\ unknown' = unknown \ {put}
    /\ UNCHANGED <<fetchVars, effect, form, baseline, put, todo, data, types, other, fetchLost,
                   hasty>>

\* success:false: the value is not valid, or updateOptionMap, which has written
\* it by then, could not use it.
PutRefused ==
    /\ isSubmitting
    /\ answer = "none"
    /\ \/ UNCHANGED server
       \/ server' = [server EXCEPT ![put] = data[put]]
    /\ answer' = "refused"
    /\ refused' = refused \cup {put}
    /\ UNCHANGED <<fetchVars, effect, form, baseline, put, todo, data,
                   types, other, unknown, foreign, fetchLost, hasty>>

\* Mutant: a key is sent again while it is still to do.
FinishSaveTwice ==
    \/ \E k \in todo :
           put' = k /\ answer' = "none" /\ UNCHANGED <<todo, form, baseline>>
    \/ todo = {} /\ put' = NoKey /\ answer' = "none" /\ UNCHANGED todo /\ ResetTo(data)

\* The loop of onSubmit goes on, or the rest of handleSubmit runs.
FinishSave ==
    \/ \E k \in todo :
           put' = k /\ todo' = todo \ {k} /\ answer' = "none" /\ UNCHANGED <<form, baseline>>
    \/ todo = {} /\ put' = NoKey /\ answer' = "none" /\ UNCHANGED todo /\ ResetTo(data)

\* The PUT's answer: success invalidates the options, a refusal only toasts.
PutAnswered ==
    /\ isSubmitting
    /\ answer # "none"
    /\ fetch' = IF answer = "applied" THEN "asked" ELSE fetch
    /\ FinishSave
    /\ UNCHANGED <<server, snapshot, cache, effect, data, types, other, historyVars>>

\* The PUT or its answer is lost: mutateAsync throws, and handleSubmit with it.
PutFails ==
    /\ isSubmitting
    /\ unknown' = IF answer = "applied" THEN unknown \cup {put} ELSE unknown
    /\ put' = NoKey
    /\ answer' = "none"
    /\ todo' = {}
    /\ UNCHANGED <<server, fetchVars, effect, form, baseline, data, types, other,
                   refused, foreign, fetchLost, hasty>>

GetReads ==
    /\ fetch = "asked"
    /\ fetch' = "read"
    /\ snapshot' = server
    /\ UNCHANGED <<server, cache, effect, form, baseline, requestVars, types, other,
                   historyVars>>

\* New data renders the page, which hands the form new defaults.
GetArrives ==
    /\ fetch = "read"
    /\ fetch' = "none"
    /\ cache' = snapshot
    /\ effect' = (effect \/ snapshot # cache)
    /\ fetchLost' = FALSE
    /\ UNCHANGED <<server, snapshot, form, baseline, requestVars, types, other, refused,
                   unknown, foreign, hasty>>

GetFails ==
    /\ fetch # "none"
    /\ fetch' = "none"
    /\ fetchLost' = TRUE
    /\ UNCHANGED <<server, snapshot, cache, effect, form, baseline, requestVars, types,
                   other, refused, unknown, foreign, hasty>>

\* Mutant: the form keeps its fields and only forgets that they are dirty.
SyncDefaultsHalf ==
    /\ effect \/ (inline /\ cache # baseline)
    /\ effect' = FALSE
    /\ baseline' = form
    /\ UNCHANGED <<server, fetchVars, form, requestVars, types, other, historyVars>>

\* The effect of useSettingsForm, in every render if the defaults are inline.
SyncDefaults ==
    /\ effect \/ (inline /\ cache # baseline)
    /\ effect' = FALSE
    /\ IF cache = baseline THEN UNCHANGED <<form, baseline>> ELSE ResetTo(cache)
    /\ UNCHANGED <<server, fetchVars, requestVars, types, other, historyVars>>

\* Another admin's save.
OtherAdmin(k, v) ==
    /\ other < MaxOther
    /\ other' = other + 1
    /\ server[k] # v
    /\ server' = [server EXCEPT ![k] = v]
    /\ foreign' = foreign \cup {k}
    /\ UNCHANGED <<fetchVars, effect, form, baseline, requestVars, types, refused,
                   unknown, fetchLost, hasty>>

PutStep == PutApplied \/ PutRefused \/ PutAnswered \/ PutFails
GetStep == GetReads \/ GetArrives \/ GetFails

FormStep == HandleReset \/ HandleSubmit \/ SyncDefaults

Next ==
    /\ UNCHANGED inline
    /\ \/ \E k \in Keys, v \in Values : Type(k, v) \/ OtherAdmin(k, v)
       \/ FormStep \/ PutStep \/ GetStep

Spec == Init /\ [][Next]_vars

-----------------------------------------------------------------------------
\* Types of the form, the query and the save.
TypeOK ==
    /\ {server, cache, snapshot, form, baseline, data} \subseteq [Keys -> Values]
    /\ fetch \in {"none", "asked", "read"} /\ effect \in BOOLEAN /\ inline \in BOOLEAN
    /\ put \in Keys \cup {NoKey} /\ answer \in {"none", "applied", "refused"}
    /\ todo \subseteq Keys /\ put \notin todo
    /\ types \in 0..MaxTypes /\ other \in 0..MaxOther
    /\ refused \cup unknown \cup foreign \subseteq Keys /\ {fetchLost, hasty} \subseteq BOOLEAN

AtRest == ~isSubmitting /\ fetch = "none" /\ ~effect /\ (inline => cache = baseline)

\* At rest, a field that is not marked as changed shows what the server holds:
\* neither saves of several keys, the GETs they start and cancel, resets under
\* way nor typing in between make it claim otherwise. Excepted is what the code
\* does not learn of (refused and lost PUTs, other admins, a lost GET until the
\* next one) and, in sections whose defaults are memoised, a save that began
\* while a GET was out, after a lost one, or while the form differed from the
\* last one: its final reset can undo a newer GET, and the next GET, equal to
\* the cached one, does not trigger the effect.
CleanShowsServer ==
    AtRest /\ ~fetchLost /\ (inline \/ ~hasty) =>
        \A k \in Keys \ (refused \cup unknown \cup foreign) :
            form[k] = baseline[k] => form[k] = server[k]
=============================================================================
