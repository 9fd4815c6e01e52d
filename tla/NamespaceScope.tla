--------------------------- MODULE NamespaceScope ---------------------------
(***************************************************************************)
(* The namespaces the page shows (web/src/App.tsx, NamespaceSwitcher,      *)
(* useNamespaceScope and useSetActiveNamespace of api/client.ts, and       *)
(* internal/server/namespace_scope.go).  The pick is kept four times: by   *)
(* the server, in the query cache, in App's state and in the URL.  App's   *)
(* effects carry it from each to the others.                               *)
(*                                                                         *)
(* A commit is one step: the effects whose dependencies have changed run   *)
(* in their order, on the values of that commit, and what they set is the  *)
(* next commit's.  React Router's updates are transitions, which a commit  *)
(* may leave for the next.  Nothing else happens between the commits of    *)
(* one task.  A query's data that comes again unchanged is the same object *)
(* (structural sharing), so that no effect runs.                           *)
(***************************************************************************)
EXTENDS Naturals

CONSTANTS
    Namespaces,
    MaxActs,    \* bound: what the user does
    MaxMishaps, \* bound: answers lost, namespaces revoked, contexts changed
    NoScope

\* Assumed of the constants wherever the module is instantiated.
NamespaceScopeAssumption ==
    MaxActs \in Nat /\ MaxMishaps \in Nat /\ \A p \in SUBSET Namespaces : NoScope # p

Picks == SUBSET Namespaces
Sources == {"scope", "namespaces", "url", "view"}

VARIABLES
    pick,          \* server: the pick of this user in this context
    allowed,       \* server: the namespaces he may list
    posts,         \* POST /cluster/namespace under way
    scope,         \* the namespace-scope query's data: its actives
    scopeFetch,    \* its fetch under way
    namespaces,    \* App's state
    url,           \* ?namespaces=
    visited,       \* the URLs of the other entries of the history
    navigation,    \* how the URL was reached: navigationType
    skip,          \* skipUrlWriteAfterPopRef
    reconciled,    \* initialBookmarkReconciledRef
    dirty,         \* what has changed since its effects ran
    acts, mishaps,
    failed,        \* history: a POST failed
    exchangesRaced \* history: two exchanges with the server were under way at once

scopeServerVars == <<pick, allowed>>
exchangeVars == <<posts, scope, scopeFetch>>
stateVars == <<namespaces, url, visited, navigation, skip, reconciled, dirty>>
namespaceScopeVars == <<scopeServerVars, exchangeVars, stateVars, acts, mishaps, failed,
    exchangesRaced>>

ScopeIdle == [stage |-> "idle", actives |-> {}]
ScopeAsked == [stage |-> "asked", actives |-> {}]
Posts == [wants : Picks, by : {"app", "switcher"}, clears : BOOLEAN,
          stage : {"sent", "ok", "failed", "abandoned"}, actives : Picks]

NamespaceScopeTypeOK ==
    /\ pick \in Picks /\ allowed \in Picks
    /\ posts \subseteq Posts
    /\ scope = NoScope \/ scope \in Picks
    /\ scopeFetch \in [stage : {"idle", "asked", "answered"}, actives : Picks]
    /\ namespaces \in Picks /\ url \in Picks /\ visited \subseteq Picks
    /\ navigation \in {"pop", "push", "replace"}
    /\ skip \in BOOLEAN /\ reconciled \in BOOLEAN /\ dirty \subseteq Sources
    /\ acts \in 0 .. MaxActs /\ mishaps \in 0 .. MaxMishaps
    /\ failed \in BOOLEAN /\ exchangesRaced \in BOOLEAN

\* A page opened, or opened again in the midst of its history, at any URL;
\* the server has kept any pick.
NamespaceScopeInit ==
    /\ pick \in Picks /\ allowed = Namespaces
    /\ posts = {} /\ scope = NoScope /\ scopeFetch = ScopeAsked
    /\ url \in Picks /\ namespaces = url /\ visited \in {{}} \cup {{p} : p \in Picks \ {url}}
    /\ navigation = "pop" /\ skip = FALSE /\ reconciled = FALSE /\ dirty = {}
    /\ acts = 0 /\ mishaps = 0 /\ failed = FALSE /\ exchangesRaced = FALSE

-----------------------------------------------------------------------------
(* Exchanges with the server. *)

UnderWay == posts # {} \/ scopeFetch # ScopeIdle

Request(wants, by, clears) ==
    [wants |-> wants, by |-> by, clears |-> clears, stage |-> "sent", actives |-> {}]

\* mutate: only the last call of an observer runs its own onSuccess.
Posting(request) ==
    {IF p.by = request.by THEN [p EXCEPT !.clears = FALSE] ELSE p : p \in posts} \cup {request}

\* setActiveNamespace.mutate of App for what an effect wants.
Mutate(wanted) ==
    /\ posts' = IF wanted = {} THEN posts
                ELSE Posting(Request(CHOOSE w \in wanted : TRUE, "app", FALSE))
    /\ exchangesRaced' = (exchangesRaced \/ (wanted # {} /\ UnderWay))

Progress(p, q) == posts' = (posts \ {p}) \cup {q}

\* handleSetActiveNamespace, which answers with the scope, trimmed.
ServerSets(p) ==
    /\ p.stage \in {"sent", "abandoned"} /\ p.wants \subseteq allowed
    /\ pick' = p.wants
    /\ IF p.stage = "abandoned" THEN posts' = posts \ {p}
       ELSE Progress(p, [p EXCEPT !.stage = "ok", !.actives = p.wants])
    /\ exchangesRaced' = (exchangesRaced \/ p.stage = "abandoned")
    /\ UNCHANGED <<allowed, scope, scopeFetch, stateVars, acts, mishaps, failed>>

ServerRefuses(p) ==
    /\ p.stage \in {"sent", "abandoned"} /\ ~(p.wants \subseteq allowed)
    /\ IF p.stage = "abandoned" THEN posts' = posts \ {p}
       ELSE Progress(p, [p EXCEPT !.stage = "failed"])
    /\ UNCHANGED <<scopeServerVars, scope, scopeFetch, stateVars, acts, mishaps, failed,
                   exchangesRaced>>

\* The answer is lost.
AnswerIsLost(p) ==
    /\ p.stage = "ok" /\ mishaps < MaxMishaps
    /\ mishaps' = mishaps + 1
    /\ Progress(p, [p EXCEPT !.stage = "failed"])
    /\ UNCHANGED <<scopeServerVars, scope, scopeFetch, stateVars, acts, failed, exchangesRaced>>

\* onError: the scope is fetched again.
Failure(others) ==
    /\ scopeFetch' = ScopeAsked
    /\ failed' = TRUE
    /\ exchangesRaced' = (exchangesRaced \/ others # {} \/ scopeFetch # ScopeIdle)

PostFails(p) ==
    /\ p.stage = "failed" /\ dirty = {}
    /\ posts' = posts \ {p}
    /\ Failure(posts')
    /\ UNCHANGED <<scopeServerVars, scope, stateVars, acts, mishaps>>

\* NAMESPACE_SWITCH_TIMEOUT; the server may still set what it was asked for.
TimeOut(p) ==
    /\ p.stage = "sent" /\ dirty = {} /\ mishaps < MaxMishaps
    /\ mishaps' = mishaps + 1
    /\ Progress(p, [p EXCEPT !.stage = "abandoned"])
    /\ Failure(posts \ {p})
    /\ UNCHANGED <<scopeServerVars, scope, stateVars, acts>>

\* The query's data changes, or is the same object.
NewScope(actives) ==
    /\ scope' = actives
    /\ dirty' = dirty \cup (IF actives = scope THEN {} ELSE {"scope"})
                      \cup (IF namespaces' = namespaces THEN {} ELSE {"namespaces"})

PostSucceeds(p) ==
    /\ p.stage = "ok" /\ dirty = {}
    /\ posts' = posts \ {p}
    /\ namespaces' = IF p.clears THEN {} ELSE namespaces
    /\ NewScope(p.actives)
    /\ UNCHANGED <<scopeServerVars, scopeFetch, url, visited, navigation, skip, reconciled,
                   acts, mishaps, failed, exchangesRaced>>

\* handleGetNamespaceScope drops from the pick what may not be listed.
ScopeAnswered ==
    /\ scopeFetch = ScopeAsked
    /\ pick' = pick \cap allowed
    /\ scopeFetch' = [stage |-> "answered", actives |-> pick']
    /\ UNCHANGED <<allowed, posts, scope, stateVars, acts, mishaps, failed, exchangesRaced>>

ScopeArrives ==
    /\ scopeFetch.stage = "answered" /\ dirty = {}
    /\ scopeFetch' = ScopeIdle
    /\ UNCHANGED namespaces
    /\ NewScope(scopeFetch.actives)
    /\ UNCHANGED <<scopeServerVars, posts, url, visited, navigation, skip, reconciled,
                   acts, mishaps, failed, exchangesRaced>>

Revoke(n) ==
    /\ mishaps < MaxMishaps /\ n \in allowed
    /\ mishaps' = mishaps + 1
    /\ allowed' = allowed \ {n}
    /\ UNCHANGED <<pick, exchangeVars, stateVars, acts, failed, exchangesRaced>>

-----------------------------------------------------------------------------
(* App's effects, in their order, in a commit with the changes D. *)

\* Server -> state, or, the first time, a bookmark's namespaces -> server.
Mirrors(D) == "scope" \in D /\ scope # NoScope /\ scope # namespaces
Reconciles(D) == Mirrors(D) /\ ~reconciled /\ namespaces # {}

\* Mutant: the writes stay skipped.
SkipIsStuck(D, then) == IF "url" \in D THEN navigation = "pop" ELSE skip

\* After a Pop the writes of the commits it causes are skipped.
Skips(D) == IF "url" \in D THEN navigation = "pop" ELSE skip

\* ... until the next task.
StillSkips(D, then) == Skips(D) /\ then # {}

\* State -> URL; setSearchParams is another function after each change of the
\* URL, which runs this effect too.
Writes(D) == D # {"scope"} /\ ~Skips(D) /\ url # namespaces

\* URL -> state, and -> server.
Reads(D) == "url" \in D /\ url # namespaces
PushesUrl(D) == IF Reads(D) /\ scope # NoScope /\ scope # url THEN {url} ELSE {}

Commit(D) ==
    /\ reconciled' = (reconciled \/ ("scope" \in D /\ scope # NoScope))
    /\ url' = IF Writes(D) THEN namespaces ELSE url
    /\ navigation' = IF Writes(D) THEN "replace" ELSE navigation
    /\ namespaces' = IF Reads(D) THEN url
                     ELSE IF Mirrors(D) /\ ~Reconciles(D) THEN scope
                     ELSE namespaces
    /\ Mutate((IF Reconciles(D) THEN {namespaces} ELSE {}) \cup PushesUrl(D))
    /\ dirty' = (dirty \ D) \cup (IF namespaces' = namespaces THEN {} ELSE {"namespaces"})
                            \cup (IF Writes(D) THEN {"url"} ELSE {})
    /\ skip' = StillSkips(D, dirty')
    /\ UNCHANGED <<scopeServerVars, scope, scopeFetch, visited, acts, mishaps, failed>>

Effects ==
    \E D \in {dirty, dirty \ {"url", "view"}} : D # {} /\ Commit(D)

-----------------------------------------------------------------------------
(* The user. *)

Act == dirty = {} /\ acts < MaxActs /\ acts' = acts + 1

\* The namespace switcher is closed with another draft.
Apply(draft) ==
    /\ Act /\ scope # NoScope /\ scope # draft
    /\ \A p \in posts : p.by # "switcher"
    /\ posts' = Posting(Request(draft, "switcher", FALSE))
    /\ exchangesRaced' = (exchangesRaced \/ UnderWay)
    /\ UNCHANGED <<scopeServerVars, scope, scopeFetch, stateVars, mishaps, failed>>

\* A namespace of the topology is maximised, or its breadcrumb cleared.
Maximize(wants) ==
    /\ Act /\ Mutate({wants})
    /\ UNCHANGED <<scopeServerVars, scope, scopeFetch, stateVars, mishaps, failed>>

\* The command palette, the omnibar and the cards of the home page set the
\* state at once.
SetNamespaces(wants) ==
    /\ Act /\ Mutate({wants})
    /\ namespaces' = wants
    /\ dirty' = IF wants = namespaces THEN {} ELSE {"namespaces"}
    /\ UNCHANGED <<scopeServerVars, scope, scopeFetch, url, visited, navigation, skip,
                   reconciled,
                   mishaps, failed>>

\* clearAllNamespaces
ClearAll ==
    /\ Act /\ namespaces # {}
    /\ posts' = Posting(Request({}, "app", TRUE))
    /\ exchangesRaced' = (exchangesRaced \/ UnderWay)
    /\ UNCHANGED <<scopeServerVars, scope, scopeFetch, stateVars, mishaps, failed>>

\* Back or forward, to a place of this or another view.
Back(to) ==
    /\ Act /\ to \in visited
    /\ url' = to
    /\ visited' = visited \cup {url}
    /\ navigation' = "pop"
    /\ dirty' \in {{"url"}, {"url", "view"}}
    /\ UNCHANGED <<scopeServerVars, exchangeVars, namespaces, skip, reconciled, mishaps,
                   failed, exchangesRaced>>

\* setMainView keeps the namespaces.
SetMainView ==
    /\ Act
    /\ visited' = visited \cup {url}
    /\ navigation' = "push"
    /\ dirty' = {"url", "view"}
    /\ UNCHANGED <<scopeServerVars, exchangeVars, namespaces, url, skip, reconciled,
                   mishaps, failed, exchangesRaced>>

\* A link that omits the namespaces.
Leave ==
    /\ Act
    /\ url' = {}
    /\ visited' = visited \cup {url}
    /\ navigation' = "push"
    /\ dirty' = {"url", "view"}
    /\ UNCHANGED <<scopeServerVars, exchangeVars, namespaces, skip, reconciled,
                   mishaps, failed, exchangesRaced>>

\* context_changed: the queries and the URL are reset; the server has the pick
\* saved for the new context.
ContextChanged(saved) ==
    /\ dirty = {} /\ mishaps < MaxMishaps
    /\ mishaps' = mishaps + 1
    /\ pick' = saved
    /\ scope' = NoScope /\ scopeFetch' = ScopeAsked
    /\ url' = {} /\ navigation' = "replace"
    /\ dirty' = {"url", "scope"}
    /\ exchangesRaced' = (exchangesRaced \/ UnderWay)
    /\ UNCHANGED <<allowed, posts, namespaces, visited, skip, reconciled, acts, failed>>

-----------------------------------------------------------------------------
NamespaceScopeNext ==
    \/ Effects \/ ScopeAnswered \/ ScopeArrives \/ ClearAll \/ SetMainView \/ Leave
    \/ \E p \in posts : \/ ServerSets(p) \/ ServerRefuses(p) \/ AnswerIsLost(p)
                        \/ PostSucceeds(p) \/ PostFails(p) \/ TimeOut(p)
    \/ \E n \in Namespaces : Revoke(n)
    \/ \E wants \in Picks : \/ Apply(wants) \/ Maximize(wants) \/ SetNamespaces(wants)
                            \/ Back(wants) \/ ContextChanged(wants)

NamespaceScopeSpec == NamespaceScopeInit /\ [][NamespaceScopeNext]_namespaceScopeVars

-----------------------------------------------------------------------------
(* Properties. *)

AtRest == dirty = {} /\ ~UnderWay

\* The effects leave the URL and the state agreed, whatever else went wrong:
\* no write is lost to a skip armed for an earlier Pop (App.tsx's comment:
\* "silently suppressing all later URL writes").  Once nothing is under way
\* the server, the query, the state and the URL agree -- unless a POST failed
\* or two exchanges crossed.
OnePick ==
    /\ dirty = {} => url = namespaces
    /\ AtRest /\ ~failed /\ ~exchangesRaced => scope = pick /\ namespaces = scope

\* The call sites "silently revert when the scope refetches and the mirror
\* effect overwrites local state".
FailureIsReverted == AtRest /\ ~exchangesRaced => namespaces = scope
=============================================================================
