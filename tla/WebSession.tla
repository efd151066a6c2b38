----------------------------- MODULE WebSession ------------------------------
(***************************************************************************)
(* The session of one browser tab: the token store (auth-store.ts), the    *)
(* resolved session (use-session.ts), the route guard (app-shell.tsx), the *)
(* login form and what the query client does with an answer                *)
(* (query-provider.tsx), against answers that come when they come.         *)
(*                                                                         *)
(* A session is named by the number of its login; what a session fetched   *)
(* is named by the session. The query client is TanStack Query, modelled   *)
(* from how it is used here: one request per key at a time, which a new    *)
(* observer joins; data outlives its observers until it is collected; an   *)
(* error keeps the data there was; a retry reads the session again; and a  *)
(* request or a retry is held back while the browser is offline, a retry   *)
(* also while the page is hidden (networkMode "online", the default).      *)
(* router.replace starts a transition: the screen it leaves stays up, with *)
(* everything it does, until the other one arrives.                        *)
(***************************************************************************)
EXTENDS Integers, FiniteSets

CONSTANTS
  MaxLogins,   \* bound on the logins
  MaxLoads,    \* bound on the page loads after the first
  MaxRetries   \* retries of a request that did not get a 4xx

ASSUME WebSessionAssumption == MaxLogins \in Nat /\ MaxLoads \in Nat /\ MaxRetries \in Nat

Session == 1..MaxLogins

None == 0

\* GET /me, and any other query of a screen.
Keys == {"me", "data"}

VARIABLES
  logins,     \* how many sessions there have been
  loads,      \* how many page loads
  rejected,   \* sessions whose token the API no longer accepts
  screen,     \* the route: the login screen, or one behind the guard
  leaving,    \* whether a transition to the other of the two is under way
  told,       \* whether the guard's effect has run for what it sees now
  hydrated,   \* whether the persisted session has been read back
  token,      \* accessToken in the store
  stored,     \* accessToken in localStorage
  me,         \* me in the store: the session it was fetched by
  query,      \* the query cache
  fetching,   \* the request in flight or held back for each key, if any
  here        \* history: the sessions this page has had since it was loaded

vars == <<logins, loads, rejected, screen, leaving, told, hydrated, token,
          stored, me, query, fetching, here>>

Empty == [data |-> None, status |-> "pending", stale |-> TRUE]

Request == [as: Session \cup {None}, accepted: BOOLEAN, retries: 0..MaxRetries,
            paused: BOOLEAN]

-----------------------------------------------------------------------------
(* What useSession returns *)

Me == IF query["me"].data # None THEN query["me"].data ELSE me

\* Not held back: fetchStatus is "fetching".
InFlight(k) == \E r \in fetching[k] : ~r.paused

Paused(k) == \E r \in fetching[k] : r.paused

\* Fault: the guard does not wait for the persisted session.
IsLoading_Eager ==
  token # None /\ query["me"].status = "pending" /\ InFlight("me") /\ Me = None

IsLoading ==
  \/ ~hydrated
  \/ token # None /\ query["me"].status = "pending" /\ InFlight("me") /\ Me = None

\* Fault: a failed request for the session is not looked at.
IsAuthenticated_TokenOnly == hydrated /\ token # None

IsAuthenticated == hydrated /\ token # None /\ query["me"].status # "error"

\* AppShell shows a spinner instead of the screen.
Spinner == IsLoading \/ Me = None

\* The guard sees no session: its effect redirects, when it runs.
WantsLogin == screen = "app" /\ ~IsLoading /\ ~IsAuthenticated

\* The effect runs again only when what it depends on has changed.
SameGuard == told' = (told /\ WantsLogin')

-----------------------------------------------------------------------------
\* An attempt of session s after n failures.
Attempt(s, n) ==
  [as |-> s, accepted |-> s # None /\ s \notin rejected, retries |-> n, paused |-> FALSE]

\* The attempt is made, or held back until it can be; it reads the session
\* when it is made.
Attempts(s, n) ==
  {Attempt(s, n), [as |-> None, accepted |-> FALSE, retries |-> n, paused |-> TRUE]}

\* A query without data goes back to pending when it is fetched.
Sent(q) == IF q.data = None THEN [q EXCEPT !.status = "pending"] ELSE q

\* The guard's observer of `me` mounts: it joins a request there is, else
\* makes one when the cached answer is stale, for session s.
MountMe(s) ==
  IF query["me"].stale /\ fetching["me"] = {}
    THEN /\ \E r \in Attempts(s, 0) : fetching' = [fetching EXCEPT !["me"] = {r}]
         /\ query' = [query EXCEPT !["me"] = Sent(query["me"])]
    ELSE UNCHANGED <<query, fetching>>

\* Fault: me is persisted with the tokens.
KeptAcrossLoads_WithMe == me

\* partialize: the store starts a page load without me.
KeptAcrossLoads == None

Init ==
  /\ logins = 0
  /\ loads = 0
  /\ rejected = {}
  /\ screen \in {"login", "app"}
  /\ leaving = FALSE
  /\ told = FALSE
  /\ hydrated = FALSE
  /\ token = None
  /\ stored = None
  /\ me = None
  /\ query = [k \in Keys |-> Empty]
  /\ fetching = [k \in Keys |-> {}]
  /\ here = {}

\* A reload, or a link opened anew: the memory of the page is gone, and with
\* it the requests it had sent.
Load(to) ==
  /\ loads < MaxLoads
  /\ loads' = loads + 1
  /\ screen' = to
  /\ leaving' = FALSE
  /\ hydrated' = FALSE
  /\ token' = None
  /\ me' = KeptAcrossLoads
  /\ query' = [k \in Keys |-> Empty]
  /\ fetching' = [k \in Keys |-> {}]
  /\ here' = {}
  /\ UNCHANGED <<logins, rejected, stored>>
  /\ SameGuard

\* onFinishHydration; `me` is enabled by the token.
Hydrate ==
  /\ ~hydrated
  /\ hydrated' = TRUE
  /\ token' = stored
  /\ here' = {stored} \ {None}
  /\ IF screen = "app" /\ stored # None
       THEN MountMe(stored) ELSE UNCHANGED <<query, fetching>>
  /\ UNCHANGED <<logins, loads, rejected, screen, leaving, stored, me>>
  /\ SameGuard

\* The login succeeds: setTokens, `me` invalidated (nothing of the login screen
\* observes it), and off to the dashboard.
Login ==
  /\ screen = "login"
  /\ hydrated
  /\ logins < MaxLogins
  /\ logins' = logins + 1
  /\ token' = logins + 1
  /\ stored' = logins + 1
  /\ here' = here \cup {logins + 1}
  /\ query' = [query EXCEPT !["me"].stale = TRUE]
  /\ leaving' = TRUE
  /\ UNCHANGED <<loads, rejected, screen, hydrated, me, fetching>>
  /\ SameGuard

\* clear
Clear ==
  /\ token' = None
  /\ stored' = None
  /\ me' = None

KeepSession == UNCHANGED <<token, stored, me>>

\* The session is dropped at once, the screen is left later.
SignOut ==
  /\ screen = "app"
  /\ ~Spinner
  /\ Clear
  /\ leaving' = TRUE
  /\ UNCHANGED <<logins, loads, rejected, screen, hydrated, query, fetching, here>>
  /\ SameGuard

\* The effect of AppShell: the session, if there is one, stays in the store.
Redirect ==
  /\ WantsLogin
  /\ ~told
  /\ told' = TRUE
  /\ leaving' = TRUE
  /\ UNCHANGED <<logins, loads, rejected, screen, hydrated, token, stored, me,
                 query, fetching, here>>

\* The other screen comes up. The guard mounts its observer, which is enabled by
\* the token there is by now.
Switch ==
  /\ leaving' = FALSE
  /\ screen' = IF screen = "app" THEN "login" ELSE "app"
  /\ IF screen = "login" /\ token # None
       THEN MountMe(token) ELSE UNCHANGED <<query, fetching>>
  /\ UNCHANGED <<logins, loads, rejected, hydrated, token, stored, me, here>>
  /\ SameGuard

\* The transition is over.
Arrive == leaving /\ Switch

\* Somebody goes back from the login screen to one behind the guard.
GoBack == screen = "login" /\ Switch

\* Somebody follows a link to another screen behind the guard, or goes back to
\* one: this navigation takes the place of the one under way. The guard is of
\* the layout of these screens, and stays mounted.
GoElsewhere ==
  /\ screen = "app"
  /\ leaving
  /\ leaving' = FALSE
  /\ UNCHANGED <<logins, loads, rejected, screen, hydrated, token, stored, me,
                 query, fetching, here>>
  /\ SameGuard

-----------------------------------------------------------------------------
(* Queries *)

\* The query has an observer: without one it is not retried.
Watched(k) == screen = "app" /\ (k = "me" \/ ~Spinner)

\* An observer mounts in a screen, or the browser comes back online
\* (refetchOnReconnect) with one there.
Fetch(k) ==
  /\ Watched(k)
  /\ k = "me" => token # None
  /\ query[k].stale
  /\ fetching[k] = {}
  /\ \E r \in Attempts(token, 0) : fetching' = [fetching EXCEPT ![k] = {r}]
  /\ query' = [query EXCEPT ![k] = Sent(query[k])]
  /\ UNCHANGED <<logins, loads, rejected, screen, leaving, hydrated, token,
                 stored, me, here>>
  /\ SameGuard

Done(k) == fetching' = [fetching EXCEPT ![k] = {}]

\* The answer is stored whoever is signed in; queryFn mirrors `me`.
Answer(k) == \E r \in fetching[k] :
  /\ r.accepted
  /\ query' = [query EXCEPT ![k] = [data |-> r.as, status |-> "success", stale |-> FALSE]]
  /\ me' = IF k = "me" THEN r.as ELSE me
  /\ Done(k)
  /\ UNCHANGED <<logins, loads, rejected, screen, leaving, hydrated, token,
                 stored, here>>
  /\ SameGuard

\* A background error leaves the data and marks it stale.
Failed(k) == query' = [query EXCEPT ![k].status = "error", ![k].stale = TRUE]

\* Fault: every error drops the session.
DropsSession_Always(auth_failure) == TRUE

\* QueryCache.onError
DropsSession(auth_failure) == auth_failure

\* 401: the token is expired, or the account no longer active, or the request
\* had none.
Unauthorized(k) == \E r \in fetching[k] :
  /\ ~r.paused
  /\ r.as \in rejected \cup {None}
  /\ Failed(k)
  /\ IF DropsSession(TRUE) THEN Clear ELSE KeepSession
  /\ Done(k)
  /\ UNCHANGED <<logins, loads, rejected, screen, leaving, hydrated, here>>
  /\ SameGuard

\* Fault: the failures are not counted.
MayRetry_Forever(k, r) == Watched(k)

MayRetry(k, r) == r.retries < MaxRetries /\ Watched(k)

\* No answer, or a 5xx, that is tried again, with the session of that moment.
Retry(k) == \E r \in fetching[k] :
  /\ ~r.paused
  /\ MayRetry(k, r)
  /\ \E q \in Attempts(token, r.retries + 1) : fetching' = [fetching EXCEPT ![k] = {q}]
  /\ UNCHANGED <<logins, loads, rejected, screen, leaving, hydrated, token,
                 stored, me, query, here>>
  /\ SameGuard

\* Back online and in view, what was held back is sent; a retry only if
\* somebody still observes it.
Continue(k) == \E r \in fetching[k] :
  /\ r.paused
  /\ r.retries > 0 => Watched(k)
  /\ fetching' = [fetching EXCEPT ![k] = {Attempt(token, r.retries)}]
  /\ UNCHANGED <<logins, loads, rejected, screen, leaving, hydrated, token,
                 stored, me, query, here>>
  /\ SameGuard

\* Another 4xx, or no retry left, or none wanted any more.
GiveUp(k) == \E r \in fetching[k] :
  /\ r.paused => r.retries > 0 /\ ~Watched(k)
  /\ Failed(k)
  /\ IF DropsSession(FALSE) THEN Clear ELSE KeepSession
  /\ Done(k)
  /\ UNCHANGED <<logins, loads, rejected, screen, leaving, hydrated, here>>
  /\ SameGuard

\* staleTime passes.
Age(k) ==
  /\ ~query[k].stale
  /\ query' = [query EXCEPT ![k].stale = TRUE]
  /\ UNCHANGED <<logins, loads, rejected, screen, leaving, hydrated, token,
                 stored, me, fetching, here>>
  /\ SameGuard

\* gcTime passes without an observer.
Collect(k) ==
  /\ ~Watched(k)
  /\ fetching[k] = {}
  /\ query[k] # Empty
  /\ query' = [query EXCEPT ![k] = Empty]
  /\ UNCHANGED <<logins, loads, rejected, screen, leaving, hydrated, token,
                 stored, me, fetching, here>>
  /\ SameGuard

\* The API stops accepting the token of a session: it expired, or the account
\* was suspended.
Reject(s) ==
  /\ s <= logins
  /\ s \notin rejected
  /\ rejected' = rejected \cup {s}
  /\ UNCHANGED <<logins, loads, screen, leaving, hydrated, token, stored, me,
                 query, fetching, here>>
  /\ SameGuard

-----------------------------------------------------------------------------
\* A request in flight is settled: the network answers, or fails it.
Deliver(k) == InFlight(k) /\ (Answer(k) \/ Unauthorized(k) \/ Retry(k) \/ GiveUp(k))

\* A request held back goes on.
Resume(k) == Paused(k) /\ (Continue(k) \/ GiveUp(k))

Next ==
  \/ \E to \in {"login", "app"} : Load(to)
  \/ Hydrate
  \/ Login
  \/ SignOut
  \/ Redirect
  \/ Arrive
  \/ GoBack
  \/ GoElsewhere
  \/ \E k \in Keys : Fetch(k) \/ Deliver(k) \/ Resume(k) \/ Age(k) \/ Collect(k)
  \/ \E s \in Session : Reject(s)

\* The browser rehydrates, runs effects, ends transitions, and settles what is
\* in flight. Effects and transitions have strong fairness: a refetch may turn
\* an error back to pending before the effect has run, and somebody may
\* interrupt a transition, but neither wins that race for ever. Nobody has to
\* do anything else, and the browser does not have to come back online.
Fairness ==
  /\ WF_vars(Hydrate)
  /\ SF_vars(Redirect)
  /\ SF_vars(Arrive)
  /\ \A k \in Keys : WF_vars(Deliver(k))

Spec == Init /\ [][Next]_vars

LiveSpec == Spec /\ Fairness

-----------------------------------------------------------------------------
(* Properties *)

\* What the store and the cache can show.
Visible == {me} \cup {query[k].data : k \in Keys}

\* Every variable stays in its set.
TypeOK ==
  /\ logins \in 0..MaxLogins
  /\ loads \in 0..MaxLoads
  /\ rejected \subseteq Session
  /\ screen \in {"login", "app"}
  /\ leaving \in BOOLEAN
  /\ told \in BOOLEAN
  /\ hydrated \in BOOLEAN
  /\ token \in Session \cup {None}
  /\ stored \in Session \cup {None}
  /\ me \in Session \cup {None}
  /\ query \in [Keys -> [data: Session \cup {None},
                         status: {"pending", "success", "error"}, stale: BOOLEAN]]
  /\ fetching \in [Keys -> SUBSET Request]
  /\ \A k \in Keys : Cardinality(fetching[k]) <= 1
  /\ here \subseteq Session

\* A page shows nothing of a session that it has not had since it was loaded,
\* whatever answers arrive late; before it has read the stored session back it
\* shows nothing at all.
ShownIsOfThisPage == Visible \subseteq here \cup {None}

\* The page gives a session up by itself only for the answer to a request of a
\* rejected session it has had, or, on a page that has had a session before, to
\* a request sent without any: a failing network, a refused permission, or an
\* answer to an accepted token never sign anybody out, and no request is sent
\* without a token on the page of a first session. (A retry can go out between
\* clear() and the login screen; its 401 may arrive in the next session.)
SessionIsKept ==
  [][token # None /\ token' = None /\ hydrated' /\ ~SignOut =>
       \E k \in Keys : \E r \in fetching[k] :
         /\ fetching'[k] = {}
         /\ \/ r.as \in here \cap rejected
            \/ r.as = None /\ ~r.paused /\ here \ {token} # {}]_token

\* A reload, or a link opened anew, is not a sign-out: with a session in
\* storage the guard sends nobody to the login screen before it has read that
\* session back and the request for it has failed.
RedirectIsEarned ==
  [][screen = "app" /\ ~leaving /\ leaving' /\ stored' # None =>
       hydrated /\ query["me"].status = "error"]_leaving

\* The guard has redirected once, somebody went elsewhere meanwhile, and the
\* effect has no reason to run again.
Interrupted == told /\ ~leaving

\* Nobody is left in front of a spinner, or behind the guard without a
\* session: whatever fails, a screen or the login form comes up. It takes a
\* browser that comes back online when the request for the session is held
\* back, and nobody who leaves a redirect for another screen for good.
Unsettled == screen = "app" /\ (Spinner \/ token = None)
EverySpinnerEnds ==
  []<>~Paused("me") /\ <>[]~Interrupted => []<>~Unsettled

\* login-form.tsx: "The previous session's cached data must not be visible to
\* the new one." Only `me` is invalidated at a login, which shows it until its
\* replacement arrives; the rest is not, nor is a request still in flight. So
\* this asks only what is there once `me` has been answered again.
PreviousSessionIsHidden ==
  screen = "app" /\ ~Spinner /\ token # None /\ ~query["me"].stale =>
    Visible \subseteq {token, None}
=============================================================================
