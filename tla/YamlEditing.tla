----------------------------- MODULE YamlEditing -----------------------------
(***************************************************************************)
(* Editing the manifest of a resource in the page: the YAML view of        *)
(* packages/k8s-ui/src/components/shared/EditableYamlView.tsx inside       *)
(* WorkloadView, the drafts it keeps in the session storage, the query of  *)
(* the resource and its update in web/src/api/client.ts, and the server    *)
(* applying that (pkg/k8score/workload.go) behind an informer cache that   *)
(* lags.                                                                   *)
(*                                                                         *)
(* A text is a manifest: the resource it names and the number of the edit  *)
(* that made it.  The name in a manifest is not edited, a text is not      *)
(* emptied, and validation, force and formatting are left out.             *)
(***************************************************************************)
EXTENDS Naturals

CONSTANTS
    Resources,
    NoText,
    MaxEdits,  \* bound: edits, of the user and of others
    MaxMoves,  \* bound: times the user opens, closes and chooses a view
    MaxSaves,  \* bound: saves
    MaxReloads \* bound: expired sessions

ASSUME YamlEditingAssumption ==
    /\ NoText \notin [of : Resources, edit : 0 .. MaxEdits]
    /\ MaxEdits \in Nat /\ MaxMoves \in Nat /\ MaxSaves \in Nat /\ MaxReloads \in Nat

VARIABLES
    live,     \* the manifests in the cluster
    cached,   \* those in the informer cache
    heard,    \* resources of which the page has an event to handle
    detail,   \* what the page's query of each resource holds
    fetch,    \* its fetch under way
    at,       \* the resource that is shown
    shown,    \* its YAML view is mounted
    editing,  \* isEditing
    text,     \* editedYaml
    drafts,   \* sessionStorage
    save,     \* the update under way
    refetch,  \* onSaved will refetch
    edits, moves, saves, reloads, \* counted up to their bounds
    unsaved,  \* history: what the user typed last, neither saved nor cancelled
    missed    \* history: an event came for another resource during its fetch

clusterVars == <<live, cached, heard>>
queryVars == <<detail, fetch>>
viewVars == <<at, shown, editing, text, drafts>>
saveVars == <<save, refetch>>
countVars == <<edits, moves, saves, reloads>>
historyVars == <<unsaved, missed>>
yamlEditingVars ==
    <<clusterVars, queryVars, viewVars, saveVars, countVars, historyVars>>

Texts == [of : Resources, edit : 0 .. MaxEdits]
TextOrNone == Texts \cup {NoText}
NoFetch == [stage |-> "idle", got |-> NoText]
Asked == [stage |-> "asked", got |-> NoText]
NoSave == [stage |-> "idle", to |-> NoText, text |-> NoText, own |-> FALSE]

YamlEditingTypeOK ==
    /\ live \in [Resources -> Texts] /\ cached \in [Resources -> Texts]
    /\ heard \subseteq Resources
    /\ detail \in [Resources -> TextOrNone]
    /\ fetch \in [Resources -> [stage : {"idle", "asked", "answered"}, got : TextOrNone]]
    /\ at \in Resources /\ shown \in BOOLEAN /\ editing \in BOOLEAN
    /\ text \in TextOrNone /\ drafts \in [Resources -> TextOrNone]
    /\ save \in [stage : {"idle", "asked", "ok", "failed"}, to : Resources \cup {NoText},
                 text : TextOrNone, own : BOOLEAN]
    /\ refetch \in BOOLEAN
    /\ edits \in 0 .. MaxEdits /\ moves \in 0 .. MaxMoves /\ saves \in 0 .. MaxSaves
    /\ reloads \in 0 .. MaxReloads
    /\ unsaved \in [Resources -> TextOrNone] /\ missed \subseteq Resources

First(r) == [of |-> r, edit |-> 0]

YamlEditingInit ==
    /\ live = [r \in Resources |-> First(r)] /\ cached = live /\ heard = {}
    /\ at \in Resources
    /\ detail = [r \in Resources |-> NoText]
    /\ fetch = [r \in Resources |-> IF r = at THEN Asked ELSE NoFetch]
    /\ shown = FALSE /\ editing = FALSE /\ text = NoText
    /\ drafts = [r \in Resources |-> NoText]
    /\ save = NoSave /\ refetch = FALSE
    /\ edits = 0 /\ moves = 0 /\ saves = 0 /\ reloads = 0
    /\ unsaved = [r \in Resources |-> NoText] /\ missed = {}

-----------------------------------------------------------------------------
(* The cluster, the informer cache and the query of a resource. *)

\* Someone else's write.
OtherWrites(r) ==
    /\ edits < MaxEdits /\ edits' = edits + 1
    /\ live' = [live EXCEPT ![r] = [of |-> r, edit |-> edits + 1]]
    /\ UNCHANGED <<cached, heard, queryVars, viewVars, saveVars, moves, saves, reloads,
                   historyVars>>

\* The watch brings the write, and the server sends its event to the page.
InformerSees(r) ==
    /\ cached[r] # live[r] /\ cached' = [cached EXCEPT ![r] = live[r]]
    /\ heard' = heard \cup {r}
    /\ UNCHANGED <<live, queryVars, viewVars, saveVars, countVars, historyVars>>

\* invalidateQueries: a query that is shown is fetched anew, whatever is under
\* way; another is only marked stale, which a fetch of it under way undoes.
EventInvalidates(r) ==
    /\ r \in heard /\ heard' = heard \ {r}
    /\ fetch' = [fetch EXCEPT ![r] = IF r = at THEN Asked ELSE @]
    /\ missed' = IF r # at /\ fetch[r] # NoFetch THEN missed \cup {r} ELSE missed \ {r}
    /\ UNCHANGED <<live, cached, detail, viewVars, saveVars, countVars, unsaved>>

FetchIsServed(r) ==
    /\ fetch[r].stage = "asked"
    /\ fetch' = [fetch EXCEPT ![r] = [stage |-> "answered", got |-> cached[r]]]
    /\ UNCHANGED <<clusterVars, detail, viewVars, saveVars, countVars, historyVars>>

FetchArrives(r) ==
    /\ fetch[r].stage = "answered"
    /\ fetch' = [fetch EXCEPT ![r] = NoFetch]
    /\ detail' = [detail EXCEPT ![r] = fetch[r].got]
    /\ UNCHANGED <<clusterVars, viewVars, saveVars, countVars, historyVars>>

-----------------------------------------------------------------------------
(* The view. *)

OneMove == moves < MaxMoves /\ moves' = moves + 1 /\ UNCHANGED <<edits, saves, reloads>>

\* A promise of a view that is gone sets no state.
Unmounts ==
    /\ shown' = FALSE /\ editing' = FALSE /\ text' = NoText
    /\ save' = [save EXCEPT !.own = FALSE]

\* The effect that autosaves, which runs when the text or the key changes.
Draft(isEditing, edited) == IF isEditing THEN edited ELSE NoText

\* Mutant: the effects run in the other order.
RemoveRestored(draft) == NoText

StoreRestored(draft) == Draft(draft # NoText, draft)

\* The view mounts with the draft there is: one effect removes it, the next
\* one stores it again.
OpenYaml ==
    /\ ~shown /\ detail[at] # NoText /\ OneMove
    /\ shown' = TRUE /\ editing' = (drafts[at] # NoText) /\ text' = drafts[at]
    /\ drafts' = [drafts EXCEPT ![at] = StoreRestored(@)]
    /\ UNCHANGED <<clusterVars, queryVars, at, saveVars, historyVars>>

CloseYaml ==
    /\ shown /\ OneMove /\ Unmounts
    /\ UNCHANGED <<clusterVars, queryVars, at, drafts, refetch, historyVars>>

\* The rail of the YAML tab: a view of another resource that is read-only and
\* removes the draft stored under its key.
ShowRelated(r) ==
    /\ shown /\ r # at /\ OneMove /\ Unmounts
    /\ drafts' = [drafts EXCEPT ![r] = NoText]
    /\ UNCHANGED <<clusterVars, queryVars, at, refetch, historyVars>>

\* A resource is chosen: its query is fetched unless that is under way.
Choose(r) ==
    /\ r # at /\ OneMove /\ at' = r
    /\ fetch' = [fetch EXCEPT ![r] = IF @ = NoFetch THEN Asked ELSE @]
    /\ missed' = IF fetch[r] = NoFetch THEN missed \ {r} ELSE missed
    /\ UNCHANGED <<clusterVars, detail, refetch, unsaved>>

\* Its manifest is not at hand, or the YAML view was not open or closes.
SelectAnew(r) ==
    Choose(r) /\ Unmounts /\ UNCHANGED drafts

\* Its manifest is at hand: the same view goes on with the new resource, its
\* effects run, and it closes then if the drawer goes back to its first tab.
SelectBeside(r) ==
    /\ shown /\ detail[r] # NoText /\ Choose(r)
    /\ drafts' = [drafts EXCEPT ![r] = Draft(editing, text)]
    /\ UNCHANGED <<shown, editing, text, save>> \/ Unmounts

\* handleStartEdit
StartEdit ==
    /\ shown /\ ~editing
    /\ editing' = TRUE /\ text' = detail[at]
    /\ drafts' = [drafts EXCEPT ![at] = Draft(TRUE, detail[at])]
    /\ UNCHANGED <<clusterVars, queryVars, at, shown, saveVars, countVars, historyVars>>

\* The editor stays writable during a save.
Type ==
    /\ shown /\ editing /\ edits < MaxEdits /\ edits' = edits + 1
    /\ text' = [text EXCEPT !.edit = edits + 1]
    /\ drafts' = [drafts EXCEPT ![at] = Draft(TRUE, text')]
    /\ unsaved' = [unsaved EXCEPT ![text.of] = text']
    /\ UNCHANGED <<clusterVars, queryVars, at, shown, editing, saveVars, moves, saves, reloads,
                   missed>>

\* Editing ends, and the effect removes the draft of the resource shown.
EditEnds ==
    /\ editing' = FALSE /\ text' = NoText
    /\ drafts' = [drafts EXCEPT ![at] = Draft(FALSE, NoText)]
    /\ UNCHANGED <<at, shown>>

\* handleCancelEdit
Cancel ==
    /\ shown /\ editing /\ save.stage = "idle" /\ EditEnds
    /\ unsaved' = [unsaved EXCEPT ![text.of] = NoText]
    /\ UNCHANGED <<clusterVars, queryVars, saveVars, countVars, missed>>

\* handleSaveEdit
Save ==
    /\ shown /\ editing /\ save.stage = "idle" /\ saves < MaxSaves /\ saves' = saves + 1
    /\ save' = [stage |-> "asked", to |-> at, text |-> text, own |-> TRUE]
    /\ UNCHANGED <<clusterVars, queryVars, viewVars, refetch, edits, moves, reloads,
                   historyVars>>

-----------------------------------------------------------------------------
(* The update. *)

\* UpdateResource refuses a manifest that names another resource.
Applies(to, manifest) == manifest.of = to

UpdateResource ==
    /\ save.stage = "asked" /\ Applies(save.to, save.text)
    /\ live' = [live EXCEPT ![save.to] = save.text]
    /\ save' = [save EXCEPT !.stage = "ok"]
    /\ UNCHANGED <<cached, heard, queryVars, viewVars, refetch, countVars, historyVars>>

\* A refusal, a conflict, a missing permission.
UpdateFails ==
    /\ save.stage = "asked" /\ save' = [save EXCEPT !.stage = "failed"]
    /\ UNCHANGED <<clusterVars, queryVars, viewVars, refetch, countVars, historyVars>>

\* Mutant: the seed is trusted.
SeedOnly == UNCHANGED refetch

RefetchLater == refetch' = TRUE

\* onSuccess of useUpdateResource seeds the query, and handleSaveEdit goes on.
SaveSucceeds ==
    /\ save.stage = "ok" /\ save' = NoSave
    /\ detail' = [detail EXCEPT ![save.to] = save.text]
    /\ RefetchLater
    /\ IF save.own THEN EditEnds ELSE UNCHANGED viewVars
    /\ unsaved' = [unsaved EXCEPT ![save.to] = NoText]
    /\ UNCHANGED <<clusterVars, fetch, countVars, missed>>

SaveFails ==
    /\ save.stage = "failed" /\ save' = NoSave
    /\ UNCHANGED <<clusterVars, queryVars, viewVars, refetch, countVars, historyVars>>

\* onSaved, two seconds later: the query of the resource shown by then.
RefetchesSaved ==
    /\ refetch /\ refetch' = FALSE
    /\ fetch' = [fetch EXCEPT ![at] = Asked]
    /\ missed' = missed \ {at}
    /\ UNCHANGED <<clusterVars, detail, viewVars, save, countVars, unsaved>>

\* A request is answered with 401 (apiFetch): the page is loaded again, with
\* the session storage it had.  A save not answered yet is served or lost.
SessionExpires ==
    /\ reloads < MaxReloads /\ reloads' = reloads + 1
    /\ detail' = [r \in Resources |-> NoText]
    /\ fetch' = [r \in Resources |-> IF r = at THEN Asked ELSE NoFetch]
    /\ heard' = {} /\ missed' = {}
    /\ shown' = FALSE /\ editing' = FALSE /\ text' = NoText
    /\ save' = NoSave /\ refetch' = FALSE
    /\ UNCHANGED <<live, cached, at, drafts, edits, moves, saves, unsaved>>

-----------------------------------------------------------------------------

YamlEditingNext ==
    \/ \E r \in Resources :
          \/ OtherWrites(r) \/ InformerSees(r) \/ EventInvalidates(r)
          \/ FetchIsServed(r) \/ FetchArrives(r)
          \/ ShowRelated(r) \/ SelectAnew(r) \/ SelectBeside(r)
    \/ OpenYaml \/ CloseYaml \/ StartEdit \/ Type \/ Cancel \/ Save
    \/ UpdateResource \/ UpdateFails \/ SaveSucceeds \/ SaveFails
    \/ RefetchesSaved \/ SessionExpires

YamlEditingSpec == YamlEditingInit /\ [][YamlEditingNext]_yamlEditingVars

-----------------------------------------------------------------------------

\* A resource is never given the manifest of another, although the editor may
\* go on with one resource's text after another was chosen (UpdateResource,
\* EditableYamlView).
OwnManifest == \A r \in Resources : live[r].of = r

\* An expired session loses no text: what is in the editor is in the storage,
\* and an edit that ended leaves nothing there to be restored (the effects of
\* EditableYamlView).
DraftMirrorsTheEditor == shown => drafts[at] = Draft(editing, text)

\* When all is quiet the page shows the manifest in the cluster, also after an
\* update whose answer was late (useUpdateResource, handleSaved).
ShownIsLiveAtRest ==
    /\ fetch[at] = NoFetch /\ at \notin heard /\ cached[at] = live[at]
    /\ save.stage # "ok" /\ ~refetch /\ at \notin missed
    => detail[at] = live[at]

\* "Restore draft from sessionStorage (e.g., after session-expiry redirect)"
\* (EditableYamlView): what the user typed last is in the editor or in the
\* storage.  Violated, looking at a resource's manifest from another one's
\* YAML view removes its draft.
DraftIsRestored ==
    \A r \in Resources :
        unsaved[r] # NoText =>
            unsaved[r] = text \/ \E key \in Resources : unsaved[r] = drafts[key]
=============================================================================
