-------------------------- MODULE WebSession_proofs --------------------------
(***************************************************************************)
(* Proofs about WebSession, for any number of logins, page loads and       *)
(* retries.                                                                *)
(***************************************************************************)
EXTENDS WebSession, FiniteSetTheorems, TLAPS

-----------------------------------------------------------------------------
(* The inductive invariant *)

\* A page that has not read the stored session back has nothing.
Blank ==
  ~hydrated =>
    /\ token = None /\ me = None /\ here = {}
    /\ \A k \in Keys : query[k] = Empty /\ fetching[k] = {}

\* The store and its persisted copy agree.
Persisted == hydrated => stored = token

\* Whatever the page has comes from a session it has had.
Own ==
  /\ {token, me} \subseteq here \cup {None}
  /\ \A k \in Keys :
       /\ query[k].data \in here \cup {None}
       /\ \A q \in fetching[k] : q.as \in here \cup {None}
       /\ \A q \in fetching[k] : q.accepted => q.as # None

\* One request per key.
Single == \A k \in Keys : fetching[k] = {} \/ \E q : fetching[k] = {q}

\* Sessions are numbered in the order of their logins.
StoredPast == stored \in {None} \cup 1..logins

Past == here \subseteq 1..logins /\ StoredPast

\* A page that has had no session sends nothing; and a request goes out without
\* a token only on a page that has had a session other than the one it has now.
Between ==
  \A k \in Keys : \A q \in fetching[k] :
    /\ here # {}
    /\ q.as = None /\ ~q.paused => here \ {token} # {}

\* What the guard's effect has run for is that there is no session.
Told == told => WantsLogin

Answered == [data: Session \cup {None}, status: {"pending", "success", "error"},
             stale: BOOLEAN]

Typed ==
  /\ logins \in 0..MaxLogins
  /\ loads \in 0..MaxLoads
  /\ rejected \subseteq Session
  /\ screen \in {"login", "app"}
  /\ leaving \in BOOLEAN
  /\ told \in BOOLEAN
  /\ hydrated \in BOOLEAN
  /\ token \in Session \cup {None}
  /\ stored \in Session \cup {None}
  /\ me \in Session \cup {None}
  /\ query \in [Keys -> Answered]
  /\ fetching \in [Keys -> SUBSET Request]
  /\ here \subseteq Session

IInv == Typed /\ Blank /\ Persisted /\ Own /\ Single /\ Past /\ Between /\ Told

-----------------------------------------------------------------------------
(* Lemmas about the operators *)

\* An attempt is of the session it is given, or held back, of none.
LEMMA AttemptsAreRequests ==
  ASSUME NEW s \in Session \cup {None}, NEW n \in 0..MaxRetries, NEW q \in Attempts(s, n)
  PROVE  /\ q \in Request
         /\ q.as \in {s, None}
         /\ q.as = None /\ ~q.paused => s = None
         /\ q.accepted => q.as # None
<1>1. PICK b \in BOOLEAN : b = (s # None /\ s \notin rejected)
  OBVIOUS
<1>2. CASE q = Attempt(s, n)
  <2>1. q = [as |-> s, accepted |-> b, retries |-> n, paused |-> FALSE]
    BY <1>1, <1>2 DEF Attempt
  <2> QED
    BY <1>1, <2>1 DEF Request
<1>3. CASE q = [as |-> None, accepted |-> FALSE, retries |-> n, paused |-> TRUE]
  BY <1>3 DEF Request
<1> QED
  BY <1>2, <1>3 DEF Attempts

\* The entry of a query that was never answered.
LEMMA EmptyIsAnswered == Empty \in Answered /\ Empty.data = None
BY DEF Empty, Answered

\* Going back to pending leaves the data alone.
LEMMA SentKeepsData ==
  ASSUME NEW q \in Answered
  PROVE  Sent(q) \in Answered /\ Sent(q).data = q.data
BY DEF Sent, Answered

\* Mounting the guard's observer changes the entry of `me` only, and keeps its
\* data; a request there is stays the one it is.
LEMMA MountKeeps ==
  ASSUME Typed, NEW s \in Session, MountMe(s)
  PROVE  /\ query' \in [Keys -> Answered]
         /\ \A k \in Keys : query'[k].data = query[k].data
         /\ fetching' \in [Keys -> SUBSET Request]
         /\ \A k \in Keys : \/ fetching'[k] = fetching[k]
                            \/ \E q \in Attempts(s, 0) : fetching'[k] = {q}
<1>1. "me" \in Keys /\ query \in [Keys -> Answered] /\ 0 \in 0..MaxRetries
  BY WebSessionAssumption DEF Keys, Typed
<1>2. CASE query["me"].stale /\ fetching["me"] = {}
  <2>1. PICK q \in Attempts(s, 0) : fetching' = [fetching EXCEPT !["me"] = {q}]
    BY <1>2 DEF MountMe
  <2>2. q \in Request
    BY <1>1, AttemptsAreRequests
  <2>3. PICK p \in Answered : /\ p.data = query["me"].data
                              /\ query' = [query EXCEPT !["me"] = p]
    BY <1>1, <1>2, SentKeepsData DEF MountMe
  <2> QED
    BY <1>1, <2>1, <2>2, <2>3 DEF Typed
<1>3. CASE ~(query["me"].stale /\ fetching["me"] = {})
  BY <1>1, <1>3 DEF MountMe, Typed
<1> QED
  BY <1>2, <1>3

\* Whatever sends a request puts an attempt of the current session in place of
\* what there was for its key.
LEMMA AttemptFits ==
  ASSUME IInv, NEW s \in here', s \in Session, here' \subseteq Session,
         here \subseteq here', token' = s, None \notin Session,
         here \ {token} # {} => here' \ {token'} # {},
         \A k \in Keys : \/ fetching'[k] = fetching[k]
                        \/ \E q \in Attempts(s, 0) : fetching'[k] = {q}
  PROVE  /\ \A k \in Keys : \A q \in fetching'[k] :
              q.as \in here' \cup {None} /\ (q.accepted => q.as # None)
         /\ Single'
         /\ Between'
<1>1. 0 \in 0..MaxRetries
  BY WebSessionAssumption
<1>2. ASSUME NEW k \in Keys, NEW q \in fetching'[k]
      PROVE  /\ q.as \in here' \cup {None} /\ (q.accepted => q.as # None)
             /\ here' # {}
             /\ q.as = None /\ ~q.paused => here' \ {token'} # {}
  <2>1. CASE fetching'[k] = fetching[k]
    BY <1>2, <2>1 DEF IInv, Own, Between
  <2>2. CASE \E p \in Attempts(s, 0) : fetching'[k] = {p}
    <3>1. q \in Attempts(s, 0)
      BY <1>2, <2>2
    <3> QED
      BY <1>1, <3>1, AttemptsAreRequests
  <2> QED
    BY <2>1, <2>2
<1>3. Single'
  BY DEF IInv, Single
<1> QED
  BY <1>2, <1>3 DEF Between

-----------------------------------------------------------------------------
(* The invariant is inductive *)

\* The first load of the page, on either screen, establishes it.
LEMMA InitEstablishes == Init => IInv
<1> SUFFICES ASSUME Init PROVE IInv
  OBVIOUS
<1>1. Typed
  <2>1. logins \in 0..MaxLogins /\ loads \in 0..MaxLoads
    BY WebSessionAssumption DEF Init
  <2>2. query \in [Keys -> Answered] /\ fetching \in [Keys -> SUBSET Request]
    BY EmptyIsAnswered DEF Init
  <2> QED
    BY <2>1, <2>2 DEF Init, Typed
<1>2. Blank /\ Persisted
  BY DEF Init, Blank, Persisted
<1>3. Own /\ Single /\ Past /\ Between /\ Told
  BY DEF Init, Own, Single, Past, StoredPast, Between, Told, Empty
<1> QED
  BY <1>1, <1>2, <1>3 DEF IInv

\* A step that leaves the effect of the guard alone keeps Told.
LEMMA ToldStays == ASSUME SameGuard PROVE Told' /\ told' \in BOOLEAN
BY DEF SameGuard, Told, WantsLogin

\* A page load starts from nothing but the stored token.
LEMMA LoadStep ==
  ASSUME IInv, NEW to \in {"login", "app"}, Load(to)
  PROVE  IInv'
<1>1. Typed'
  <2>1. logins' \in 0..MaxLogins /\ loads' \in 0..MaxLoads
    BY WebSessionAssumption DEF IInv, Typed, Load
  <2>2. query' \in [Keys -> Answered] /\ fetching' \in [Keys -> SUBSET Request]
    BY EmptyIsAnswered DEF Load
  <2> QED
    BY <2>1, <2>2, ToldStays DEF IInv, Typed, Load, KeptAcrossLoads
<1>2. Blank' /\ Persisted'
  BY DEF Load, KeptAcrossLoads, Blank, Persisted
<1>3. Own' /\ Single' /\ Past' /\ Between'
  BY DEF IInv, Load, KeptAcrossLoads, Own, Single, Past, StoredPast, Between, Empty
<1>4. Told'
  BY ToldStays DEF Load
<1> QED
  BY <1>1, <1>2, <1>3, <1>4 DEF IInv

\* The stored session is read back, and asked about if the guard is on.
LEMMA HydrateStep ==
  ASSUME IInv, Hydrate
  PROVE  IInv'
<1>1. /\ token = None /\ me = None /\ here = {}
      /\ \A k \in Keys : query[k] = Empty /\ fetching[k] = {}
  BY DEF IInv, Blank, Hydrate
<1>2. stored \in Session \cup {None} /\ None \notin Session
  BY DEF IInv, Typed, None, Session
<1>3. Told' /\ told' \in BOOLEAN
  BY ToldStays DEF Hydrate
<1>4. Past'
  BY DEF IInv, Past, StoredPast, Hydrate
<1>5. CASE screen = "app" /\ stored # None
  <2>1. MountMe(stored) /\ stored \in Session
    BY <1>2, <1>5 DEF Hydrate
  <2>2. /\ query' \in [Keys -> Answered]
        /\ \A k \in Keys : query'[k].data = query[k].data
        /\ fetching' \in [Keys -> SUBSET Request]
        /\ \A k \in Keys : \/ fetching'[k] = fetching[k]
                           \/ \E q \in Attempts(stored, 0) : fetching'[k] = {q}
    BY <2>1, MountKeeps DEF IInv
  <2>3. here' = {stored} /\ token' = stored /\ me' = None
    BY <1>1, <1>5 DEF Hydrate
  <2>4. /\ \A k \in Keys : \A q \in fetching'[k] :
             q.as \in here' \cup {None} /\ (q.accepted => q.as # None)
        /\ Single' /\ Between'
    BY <1>1, <1>2, <2>1, <2>2, <2>3, AttemptFits
  <2>5. Typed'
    BY <1>2, <1>3, <2>2, <2>3 DEF IInv, Typed, Hydrate
  <2>6. Blank' /\ Persisted'
    BY DEF Hydrate, Blank, Persisted
  <2>7. Own'
    BY <1>1, <2>2, <2>3, <2>4 DEF Own, Empty
  <2> QED
    BY <1>3, <1>4, <2>4, <2>5, <2>6, <2>7 DEF IInv
<1>6. CASE ~(screen = "app" /\ stored # None)
  <2>1. UNCHANGED <<query, fetching>>
    BY <1>6 DEF Hydrate
  <2>2. Typed'
    BY <1>2, <1>3, <2>1 DEF IInv, Typed, Hydrate
  <2>3. Blank' /\ Persisted'
    BY DEF Hydrate, Blank, Persisted
  <2>4. Own' /\ Between'
    BY <1>1, <2>1 DEF Own, Between, Hydrate, Empty
  <2>5. Single'
    BY <2>1 DEF IInv, Single
  <2> QED
    BY <1>3, <1>4, <2>2, <2>3, <2>4, <2>5 DEF IInv
<1> QED
  BY <1>5, <1>6

\* A login names its session after all those before it.
LEMMA LoginStep ==
  ASSUME IInv, Login
  PROVE  IInv'
<1>1. PICK s \in Session : s = logins + 1 /\ s # None /\ s \notin here
  BY WebSessionAssumption DEF IInv, Typed, Past, Login, Session, None
<1>2. PICK entry : entry = [query["me"] EXCEPT !.stale = TRUE]
  OBVIOUS
<1>3. "me" \in Keys /\ entry \in Answered /\ entry.data = query["me"].data
  BY <1>2 DEF IInv, Typed, Answered, Keys
<1>4. query' = [query EXCEPT !["me"] = entry]
  BY <1>2 DEF Login
<1>5. query' \in [Keys -> Answered] /\ \A k \in Keys : query'[k].data = query[k].data
  BY <1>3, <1>4 DEF IInv, Typed
<1>6. /\ token' = s /\ stored' = s /\ here' = here \cup {s} /\ hydrated' /\ me' = me
      /\ screen' = screen /\ rejected' = rejected /\ loads' = loads
      /\ fetching' = fetching /\ leaving' = TRUE /\ logins' = s
  BY <1>1 DEF Login
<1>7. Typed'
  <2>1. logins' \in 0..MaxLogins
    BY <1>1, WebSessionAssumption DEF Login, IInv, Typed
  <2> QED
    BY <1>5, <1>6, <2>1, ToldStays DEF IInv, Typed, Login
<1>8. Blank' /\ Persisted'
  BY <1>6 DEF Blank, Persisted
<1>9. Own'
  BY <1>1, <1>5, <1>6 DEF IInv, Own
<1>10. Single' /\ Past'
  <2>1. 1..logins \subseteq 1..s /\ s \in 1..s
    BY <1>1 DEF IInv, Typed
  <2> QED
    BY <1>6, <2>1 DEF IInv, Single, Past, StoredPast
<1>11. Between'
  BY <1>1, <1>6 DEF IInv, Between
<1>12. Told'
  BY ToldStays DEF Login
<1> QED
  BY <1>7, <1>8, <1>9, <1>10, <1>11, <1>12 DEF IInv

\* Signing out, the redirect, and leaving it for another screen.
LEMMA LeaveStep ==
  ASSUME IInv, SignOut \/ Redirect \/ GoElsewhere
  PROVE  IInv'
<1>1. /\ UNCHANGED <<logins, loads, rejected, screen, hydrated, query, fetching, here>>
      /\ leaving' \in BOOLEAN
      /\ \/ UNCHANGED <<token, stored, me>>
         \/ hydrated /\ Clear
  BY DEF SignOut, Redirect, GoElsewhere, Spinner, IsLoading
<1>2. Told' /\ told' \in BOOLEAN
  <2>1. CASE Redirect
    BY <2>1 DEF Redirect, Told, WantsLogin, IsLoading, IsAuthenticated, InFlight, Me
  <2>2. CASE SignOut \/ GoElsewhere
    BY <2>2, ToldStays DEF SignOut, GoElsewhere
  <2> QED
    BY <2>1, <2>2
<1>3. None \notin here
  BY DEF IInv, Typed, Session, None
<1>4. Typed'
  BY <1>1, <1>2 DEF IInv, Typed, Clear
<1>5. Blank' /\ Persisted'
  BY <1>1 DEF IInv, Blank, Persisted, Clear
<1>6. Own' /\ Single' /\ Past'
  BY <1>1 DEF IInv, Own, Single, Past, StoredPast, Clear
<1>7. Between'
  BY <1>1, <1>3 DEF IInv, Between, Clear
<1> QED
  BY <1>2, <1>4, <1>5, <1>6, <1>7 DEF IInv

\* The other screen comes up, and the guard asks about the session there is.
LEMMA SwitchStep ==
  ASSUME IInv, Switch
  PROVE  IInv'
<1>1. /\ UNCHANGED <<logins, loads, rejected, hydrated, token, stored, me, here>>
      /\ screen' \in {"login", "app"} /\ leaving' = FALSE
      /\ Told' /\ told' \in BOOLEAN
  BY ToldStays DEF Switch
<1>2. CASE screen = "login" /\ token # None
  <2>1. MountMe(token) /\ token \in Session /\ token \in here /\ hydrated
        /\ None \notin Session
    BY <1>2 DEF Switch, IInv, Typed, Own, Blank, None, Session
  <2>2. /\ query' \in [Keys -> Answered]
        /\ \A k \in Keys : query'[k].data = query[k].data
        /\ fetching' \in [Keys -> SUBSET Request]
        /\ \A k \in Keys : \/ fetching'[k] = fetching[k]
                           \/ \E q \in Attempts(token, 0) : fetching'[k] = {q}
    BY <2>1, MountKeeps DEF IInv
  <2>3. /\ \A k \in Keys : \A q \in fetching'[k] :
             q.as \in here' \cup {None} /\ (q.accepted => q.as # None)
        /\ Single' /\ Between'
    BY <1>1, <2>1, <2>2, AttemptFits DEF IInv, Typed
  <2>4. Typed'
    BY <1>1, <2>2 DEF IInv, Typed
  <2>5. Blank' /\ Persisted' /\ Past'
    BY <1>1, <2>1 DEF IInv, Blank, Persisted, Past, StoredPast
  <2>6. Own'
    BY <1>1, <2>2, <2>3 DEF IInv, Own
  <2> QED
    BY <1>1, <2>3, <2>4, <2>5, <2>6 DEF IInv
<1>3. CASE ~(screen = "login" /\ token # None)
  <2>1. UNCHANGED <<query, fetching>>
    BY <1>3 DEF Switch
  <2>2. Typed'
    BY <1>1, <2>1 DEF IInv, Typed
  <2>3. Blank' /\ Persisted' /\ Past'
    BY <1>1, <2>1 DEF IInv, Blank, Persisted, Past, StoredPast
  <2>4. Own' /\ Single' /\ Between'
    BY <1>1, <2>1 DEF IInv, Own, Single, Between
  <2> QED
    BY <1>1, <2>2, <2>3, <2>4 DEF IInv
<1> QED
  BY <1>2, <1>3

\* Failed marks the entry of one query, and keeps its data.
LEMMA FailedKeeps ==
  ASSUME Typed, NEW k \in Keys, Failed(k)
  PROVE  /\ query' \in [Keys -> Answered]
         /\ \A j \in Keys : query'[j].data = query[j].data
<1>1. query[k] \in Answered
  BY DEF Typed
<1>2. PICK p : p = [query[k] EXCEPT !.status = "error", !.stale = TRUE]
  OBVIOUS
<1>3. p \in Answered /\ p.data = query[k].data
  BY <1>1, <1>2 DEF Answered
<1>4. query' = [query EXCEPT ![k] = p]
  BY <1>2 DEF Failed
<1> QED
  BY <1>3, <1>4 DEF Typed

\* A query fails, and the session goes with it or stays.
LEMMA FailStep ==
  ASSUME IInv, NEW k \in Keys, fetching[k] # {}, Failed(k), Done(k),
         UNCHANGED <<logins, loads, rejected, screen, leaving, hydrated, here>>,
         Clear \/ KeepSession, SameGuard
  PROVE  IInv'
<1>1. /\ query' \in [Keys -> Answered]
      /\ \A j \in Keys : query'[j].data = query[j].data
  BY FailedKeeps DEF IInv
<1>2. /\ fetching' \in [Keys -> SUBSET Request]
      /\ \A j \in Keys : fetching'[j] \subseteq fetching[j]
      /\ \A j \in Keys : fetching'[j] = {} \/ fetching'[j] = fetching[j]
  BY DEF IInv, Typed, Done
<1>3. hydrated /\ None \notin here
  BY DEF IInv, Blank, Typed, Session, None
<1>4. Told' /\ told' \in BOOLEAN
  BY ToldStays
<1>5. Typed'
  BY <1>1, <1>2, <1>4 DEF IInv, Typed, Clear, KeepSession
<1>6. Blank' /\ Persisted'
  BY <1>3 DEF IInv, Blank, Persisted, Clear, KeepSession
<1>7. Own'
  BY <1>1, <1>2 DEF IInv, Own, Clear, KeepSession
<1>8. Single' /\ Past'
  BY <1>2 DEF IInv, Single, Past, StoredPast, Clear, KeepSession
<1>9. Between'
  BY <1>2, <1>3 DEF IInv, Between, Clear, KeepSession
<1> QED
  BY <1>4, <1>5, <1>6, <1>7, <1>8, <1>9 DEF IInv

\* An accepted request was of a session of this page.
LEMMA AnswerStep ==
  ASSUME IInv, NEW k \in Keys, Answer(k)
  PROVE  IInv'
<1>1. PICK q \in fetching[k] :
        /\ q.accepted
        /\ query' = [query EXCEPT ![k] = [data |-> q.as, status |-> "success", stale |-> FALSE]]
        /\ me' = IF k = "me" THEN q.as ELSE me
  BY DEF Answer
<1>2. q.as \in here /\ q.as \in Session /\ hydrated
  BY <1>1 DEF IInv, Own, Typed, Blank
<1>3. PICK p \in Answered : p.data = q.as /\ query' = [query EXCEPT ![k] = p]
  BY <1>1, <1>2 DEF Answered
<1>4. query' \in [Keys -> Answered] /\ \A j \in Keys : query'[j].data \in {query[j].data, q.as}
  BY <1>3 DEF IInv, Typed
<1>5. /\ fetching' \in [Keys -> SUBSET Request]
      /\ \A j \in Keys : fetching'[j] \subseteq fetching[j]
      /\ \A j \in Keys : fetching'[j] = {} \/ fetching'[j] = fetching[j]
  BY DEF IInv, Typed, Done, Answer
<1>6. Typed'
  BY <1>1, <1>2, <1>4, <1>5, ToldStays DEF IInv, Typed, Answer
<1>7. Blank' /\ Persisted'
  BY <1>2 DEF IInv, Blank, Persisted, Answer
<1>8. Own'
  BY <1>1, <1>2, <1>4, <1>5 DEF IInv, Own, Answer
<1>9. Single' /\ Past'
  BY <1>5 DEF IInv, Single, Past, StoredPast, Answer
<1>10. Between'
  BY <1>5 DEF IInv, Between, Answer
<1>11. Told'
  BY ToldStays DEF Answer
<1> QED
  BY <1>6, <1>7, <1>8, <1>9, <1>10, <1>11 DEF IInv

\* A request that is tried again, or goes on, is of the session of that moment.
LEMMA AgainStep ==
  ASSUME IInv, NEW k \in Keys, Retry(k) \/ Continue(k)
  PROVE  IInv'
<1>1. PICK n \in 0..MaxRetries :
        \E q \in Attempts(token, n) : fetching' = [fetching EXCEPT ![k] = {q}]
  <2>1. CASE Retry(k)
    <3>1. PICK r \in fetching[k] :
            /\ MayRetry(k, r)
            /\ \E q \in Attempts(token, r.retries + 1) :
                 fetching' = [fetching EXCEPT ![k] = {q}]
      BY <2>1 DEF Retry
    <3>2. r.retries + 1 \in 0..MaxRetries
      BY <3>1, WebSessionAssumption DEF IInv, Typed, Request, MayRetry
    <3> QED
      BY <3>1, <3>2
  <2>2. CASE Continue(k)
    <3>1. PICK r \in fetching[k] :
            fetching' = [fetching EXCEPT ![k] = {Attempt(token, r.retries)}]
      BY <2>2 DEF Continue
    <3>2. r.retries \in 0..MaxRetries
      BY DEF IInv, Typed, Request
    <3> QED
      BY <3>1, <3>2 DEF Attempts
  <2> QED
    BY <2>1, <2>2
<1>2. PICK q \in Attempts(token, n) : fetching' = [fetching EXCEPT ![k] = {q}]
  BY <1>1
<1>3. /\ q \in Request /\ q.as \in {token, None}
      /\ q.as = None /\ ~q.paused => token = None
      /\ q.accepted => q.as # None
  BY AttemptsAreRequests DEF IInv, Typed
<1>4. /\ fetching' \in [Keys -> SUBSET Request]
      /\ \A j \in Keys : fetching'[j] = fetching[j] \/ fetching'[j] = {q}
  BY <1>2, <1>3 DEF IInv, Typed
<1>5. /\ UNCHANGED <<logins, loads, rejected, screen, leaving, hydrated, token,
                     stored, me, query, here>>
      /\ SameGuard /\ fetching[k] # {}
  BY DEF Retry, Continue
<1>6. hydrated /\ here # {} /\ None \notin here
  BY <1>5 DEF IInv, Blank, Between, Typed, Session, None
<1>7. Told' /\ told' \in BOOLEAN
  BY <1>5, ToldStays
<1>8. Typed'
  BY <1>4, <1>5, <1>7 DEF IInv, Typed
<1>9. Blank' /\ Persisted' /\ Past'
  BY <1>5, <1>6 DEF IInv, Blank, Persisted, Past, StoredPast
<1>10. Own'
  BY <1>3, <1>4, <1>5 DEF IInv, Own
<1>11. Single'
  BY <1>4 DEF IInv, Single
<1>12. Between'
  BY <1>3, <1>4, <1>5, <1>6 DEF IInv, Between
<1> QED
  BY <1>7, <1>8, <1>9, <1>10, <1>11, <1>12 DEF IInv

\* A screen that is up has had a session, and fetches for the one it has.
LEMMA FetchStep ==
  ASSUME IInv, NEW k \in Keys, Fetch(k)
  PROVE  IInv'
<1>1. PICK q \in Attempts(token, 0) : fetching' = [fetching EXCEPT ![k] = {q}]
  BY DEF Fetch
<1>2. /\ q \in Request /\ q.as \in {token, None}
      /\ q.as = None /\ ~q.paused => token = None
      /\ q.accepted => q.as # None
  BY AttemptsAreRequests, WebSessionAssumption DEF IInv, Typed
<1>3. /\ fetching' \in [Keys -> SUBSET Request]
      /\ \A j \in Keys : fetching'[j] = fetching[j] \/ fetching'[j] = {q}
  BY <1>1, <1>2 DEF IInv, Typed
<1>4. PICK p \in Answered : p.data = query[k].data /\ query' = [query EXCEPT ![k] = p]
  BY SentKeepsData DEF Fetch, IInv, Typed
<1>5. /\ query' \in [Keys -> Answered]
      /\ \A j \in Keys : query'[j].data = query[j].data
  BY <1>4 DEF IInv, Typed
<1>6. /\ UNCHANGED <<logins, loads, rejected, screen, leaving, hydrated, token,
                     stored, me, here>>
      /\ SameGuard
  BY DEF Fetch
<1>7. hydrated /\ here # {} /\ None \notin here
  <2>1. token # None \/ Me # None
    BY DEF Fetch, Watched, Spinner
  <2>2. here # {}
    BY <2>1 DEF IInv, Own, Me, Keys
  <2>3. hydrated
    BY <2>2 DEF IInv, Blank
  <2>4. None \notin here
    BY DEF IInv, Typed, Session, None
  <2> QED
    BY <2>2, <2>3, <2>4
<1>8. Told' /\ told' \in BOOLEAN
  BY <1>6, ToldStays
<1>9. Typed'
  BY <1>3, <1>5, <1>6, <1>8 DEF IInv, Typed
<1>10. Blank' /\ Persisted' /\ Past'
  BY <1>6, <1>7 DEF IInv, Blank, Persisted, Past, StoredPast
<1>11. Own'
  BY <1>2, <1>3, <1>5, <1>6 DEF IInv, Own
<1>12. Single'
  BY <1>3 DEF IInv, Single
<1>13. Between'
  BY <1>2, <1>3, <1>6, <1>7 DEF IInv, Between
<1> QED
  BY <1>8, <1>9, <1>10, <1>11, <1>12, <1>13 DEF IInv

\* The passage of time: an answer turns stale, or is collected, or the API
\* stops accepting a session.
LEMMA TimeStep ==
  ASSUME IInv, NEW k \in Keys,
         Age(k) \/ Collect(k) \/ \E s \in Session : Reject(s)
  PROVE  IInv'
<1>1. /\ query' \in [Keys -> Answered]
      /\ \A j \in Keys : query'[j].data \in {query[j].data, None}
  <2>1. CASE Age(k)
    <3>1. PICK p : p = [query[k] EXCEPT !.stale = TRUE]
      OBVIOUS
    <3>2. p \in Answered /\ p.data = query[k].data
      BY <3>1 DEF IInv, Typed, Answered
    <3>3. query' = [query EXCEPT ![k] = p]
      BY <2>1, <3>1 DEF Age
    <3> QED
      BY <3>2, <3>3 DEF IInv, Typed
  <2>2. CASE Collect(k)
    BY <2>2, EmptyIsAnswered DEF IInv, Typed, Collect
  <2>3. CASE \E s \in Session : Reject(s)
    BY <2>3 DEF IInv, Typed, Reject
  <2> QED
    BY <2>1, <2>2, <2>3
<1>2. /\ UNCHANGED <<logins, loads, screen, leaving, hydrated, token, stored, me,
                     fetching, here>>
      /\ Told' /\ told' \in BOOLEAN
  BY ToldStays DEF Age, Collect, Reject
<1>3. rejected \subseteq rejected' /\ rejected' \subseteq Session
  BY DEF IInv, Typed, Age, Collect, Reject
<1>4. ~hydrated => \A j \in Keys : query'[j] = query[j]
  BY DEF IInv, Blank, Age, Collect, Reject, Empty
<1>5. Typed'
  BY <1>1, <1>2, <1>3 DEF IInv, Typed
<1>6. Blank' /\ Persisted'
  BY <1>2, <1>4 DEF IInv, Blank, Persisted
<1>7. Own' /\ Single'
  BY <1>1, <1>2 DEF IInv, Own, Single
<1>8. Past' /\ Between'
  BY <1>2 DEF IInv, Past, StoredPast, Between
<1> QED
  BY <1>2, <1>5, <1>6, <1>7, <1>8 DEF IInv

\* Every step preserves the invariant.
LEMMA NextPreserves == IInv /\ [Next]_vars => IInv'
<1> SUFFICES ASSUME IInv, [Next]_vars PROVE IInv'
  OBVIOUS
<1>1. ASSUME NEW to \in {"login", "app"}, Load(to) PROVE IInv'
  BY <1>1, LoadStep
<1>2. CASE Hydrate
  BY <1>2, HydrateStep
<1>3. CASE Login
  BY <1>3, LoginStep
<1>4. CASE SignOut \/ Redirect \/ GoElsewhere
  BY <1>4, LeaveStep
<1>5. CASE Arrive \/ GoBack
  BY <1>5, SwitchStep DEF Arrive, GoBack
<1>6. ASSUME NEW k \in Keys, Fetch(k) PROVE IInv'
  BY <1>6, FetchStep
<1>7. ASSUME NEW k \in Keys, Deliver(k) \/ Resume(k) PROVE IInv'
  <2>1. CASE Answer(k)
    BY <2>1, AnswerStep
  <2>2. CASE Unauthorized(k)
    BY <2>2, FailStep DEF Unauthorized
  <2>3. CASE Retry(k) \/ Continue(k)
    BY <2>3, AgainStep
  <2>4. CASE GiveUp(k)
    BY <2>4, FailStep DEF GiveUp
  <2> QED
    BY <1>7, <2>1, <2>2, <2>3, <2>4 DEF Deliver, Resume
<1>8. ASSUME NEW k \in Keys, Age(k) \/ Collect(k) PROVE IInv'
  BY <1>8, TimeStep
<1>9. ASSUME NEW s \in Session, Reject(s) PROVE IInv'
  BY <1>9, TimeStep DEF Keys
<1>10. CASE UNCHANGED vars
  BY <1>10 DEF vars, IInv, Typed, Blank, Persisted, Own, Single, Past, StoredPast,
     Between, Told, WantsLogin, IsLoading, IsAuthenticated, InFlight, Me
<1> QED
  BY <1>1, <1>2, <1>3, <1>4, <1>5, <1>6, <1>7, <1>8, <1>9, <1>10 DEF Next

\* IInv holds in every reachable state.
THEOREM InductiveInvariant == Spec => []IInv
BY InitEstablishes, NextPreserves, PTL DEF Spec

-----------------------------------------------------------------------------
(* The properties *)

\* Every variable stays in its set.
THEOREM TypeCorrect == Spec => []TypeOK
<1>1. IInv => TypeOK
  <2> SUFFICES ASSUME IInv PROVE TypeOK
    OBVIOUS
  <2>1. ASSUME NEW k \in Keys PROVE Cardinality(fetching[k]) <= 1
    <3>1. CASE fetching[k] = {}
      BY <3>1, FS_EmptySet
    <3>2. CASE \E q : fetching[k] = {q}
      <4>1. PICK q : fetching[k] = {q}
        BY <3>2
      <4>2. Cardinality({q}) = 1
        BY FS_Singleton
      <4> QED
        BY <4>1, <4>2
    <3> QED
      BY <3>1, <3>2 DEF IInv, Single
  <2> QED
    BY <2>1 DEF IInv, Typed, Answered, TypeOK
<1> QED
  BY <1>1, InductiveInvariant, PTL

\* What a page shows comes from the sessions it has had, because the only
\* requests it sends are theirs.
THEOREM ShownHolds == Spec => []ShownIsOfThisPage
<1>1. IInv => ShownIsOfThisPage
  BY DEF IInv, Own, ShownIsOfThisPage, Visible
<1> QED
  BY <1>1, InductiveInvariant, PTL

\* The page has had one session since it was loaded, or none.
OnePerPage == \A s, u \in here : s = u

\* PreviousSessionIsHidden fails only on a page that has had two sessions since
\* it was loaded: the session in the store is one the page has had. A page load
\* with every login or sign-out would hide the previous session.
THEOREM OneSessionPerPageHidesOthers == Spec => [](OnePerPage => PreviousSessionIsHidden)
<1>1. IInv /\ OnePerPage => PreviousSessionIsHidden
  BY DEF IInv, Own, OnePerPage, PreviousSessionIsHidden, Visible
<1> QED
  BY <1>1, InductiveInvariant, PTL

\* Only a 401 drops the session, and it answers a request that had the token of
\* a session of this page, or none on a page that has had another one.
THEOREM SessionsAreKept == Spec => SessionIsKept
<1> DEFINE Blamed == \E k \in Keys : \E r \in fetching[k] :
             /\ fetching'[k] = {}
             /\ \/ r.as \in here \cap rejected
                \/ r.as = None /\ ~r.paused /\ here \ {token} # {}
<1>1. IInv /\ [Next]_vars =>
        [token # None /\ token' = None /\ hydrated' /\ ~SignOut => Blamed]_token
  <2> SUFFICES ASSUME IInv, Next, token # None, token' = None, hydrated', ~SignOut
               PROVE  Blamed
    BY DEF vars
  <2>1. ASSUME NEW to \in {"login", "app"}, Load(to) PROVE FALSE
    BY <2>1 DEF Load
  <2>2. CASE Hydrate
    BY <2>2 DEF Hydrate, IInv, Blank
  <2>3. CASE Login
    BY <2>3 DEF Login, IInv, Typed, None
  <2>4. CASE Redirect \/ Arrive \/ GoBack \/ GoElsewhere
    BY <2>4 DEF Redirect, Arrive, GoBack, Switch, GoElsewhere
  <2>5. ASSUME NEW k \in Keys, Unauthorized(k) PROVE Blamed
    <3>1. PICK r \in fetching[k] : ~r.paused /\ r.as \in rejected \cup {None} /\ Done(k)
      BY <2>5 DEF Unauthorized
    <3>2. fetching'[k] = {}
      BY <3>1 DEF Done, IInv, Typed
    <3>3. \/ r.as \in here \cap rejected
          \/ r.as = None /\ here \ {token} # {}
      BY <3>1 DEF IInv, Own, Between
    <3> QED
      BY <3>1, <3>2, <3>3
  <2>6. ASSUME NEW k \in Keys,
               \/ Fetch(k) \/ Answer(k) \/ Retry(k) \/ Continue(k) \/ GiveUp(k)
               \/ Age(k) \/ Collect(k)
        PROVE  FALSE
    BY <2>6 DEF Fetch, Answer, Retry, Continue, GiveUp, Age, Collect, DropsSession,
       KeepSession
  <2>7. ASSUME NEW s \in Session, Reject(s) PROVE FALSE
    BY <2>7 DEF Reject
  <2> QED
    BY <2>1, <2>2, <2>3, <2>4, <2>5, <2>6, <2>7 DEF Next, Deliver, Resume
<1> QED
  BY <1>1, InductiveInvariant, PTL DEF Spec, SessionIsKept

\* The guard waits for the persisted session and for its first answer.
THEOREM RedirectsAreEarned == Spec => RedirectIsEarned
<1>1. IInv /\ [Next]_vars =>
        [screen = "app" /\ ~leaving /\ leaving' /\ stored' # None =>
           hydrated /\ query["me"].status = "error"]_leaving
  <2> SUFFICES ASSUME IInv, Next, screen = "app", ~leaving, leaving', stored' # None
               PROVE  hydrated /\ query["me"].status = "error"
    BY DEF vars
  <2>1. CASE Redirect
    BY <2>1 DEF Redirect, WantsLogin, IsLoading, IsAuthenticated, IInv, Persisted
  <2>2. CASE SignOut
    BY <2>2 DEF SignOut, Clear
  <2>3. ASSUME NEW to \in {"login", "app"}, Load(to) PROVE FALSE
    BY <2>3 DEF Load
  <2>4. CASE Hydrate \/ Login \/ Arrive \/ GoBack \/ GoElsewhere
    BY <2>4 DEF Hydrate, Login, Arrive, GoBack, Switch, GoElsewhere
  <2>5. ASSUME NEW k \in Keys,
               \/ Fetch(k) \/ Answer(k) \/ Unauthorized(k) \/ Retry(k) \/ Continue(k)
               \/ GiveUp(k) \/ Age(k) \/ Collect(k)
        PROVE  FALSE
    BY <2>5 DEF Fetch, Answer, Unauthorized, Retry, Continue, GiveUp, Age, Collect
  <2>6. ASSUME NEW s \in Session, Reject(s) PROVE FALSE
    BY <2>6 DEF Reject
  <2> QED
    BY <2>1, <2>2, <2>3, <2>4, <2>5, <2>6 DEF Next, Deliver, Resume
<1> QED
  BY <1>1, InductiveInvariant, PTL DEF Spec, RedirectIsEarned

-----------------------------------------------------------------------------
(* What a spinner waits for *)

\* An answered session has data, one that was never answered is stale, and a
\* screen without an answer has asked.
Pursued ==
  /\ query["me"].status = "success" => query["me"].data # None
  /\ query["me"].status = "pending" => query["me"].stale
  /\ screen = "app" /\ hydrated /\ token # None /\ query["me"].status = "pending" =>
       fetching["me"] # {}

\* What the observer of the guard leaves: `me` is answered, or asked about.
LEMMA MountPursues ==
  ASSUME Typed, Pursued, NEW s \in Session, MountMe(s)
  PROVE  /\ query'["me"].status = "success" => query'["me"].data # None
         /\ query'["me"].status = "pending" => query'["me"].stale
         /\ query'["me"].status = "pending" => fetching'["me"] # {}
<1>1. "me" \in Keys /\ query["me"] \in Answered
  BY DEF Keys, Typed
<1>2. CASE query["me"].stale /\ fetching["me"] = {}
  <2>1. PICK q \in Attempts(s, 0) : fetching' = [fetching EXCEPT !["me"] = {q}]
    BY <1>2 DEF MountMe
  <2>2. query'["me"] = Sent(query["me"]) /\ fetching'["me"] = {q}
    BY <1>1, <1>2, <2>1 DEF MountMe, Typed
  <2> QED
    BY <1>1, <1>2, <2>2 DEF Sent, Answered, Pursued
<1>3. CASE ~(query["me"].stale /\ fetching["me"] = {})
  BY <1>1, <1>3 DEF MountMe, Pursued
<1> QED
  BY <1>2, <1>3

\* Every step keeps it: whatever puts `me` back to pending behind the guard
\* makes a request, and only an answer or a failure takes one away.
LEMMA NextPursues == IInv /\ Pursued /\ [Next]_vars => Pursued'
<1> SUFFICES ASSUME IInv, Pursued, [Next]_vars PROVE Pursued'
  OBVIOUS
<1> USE DEF Keys
<1>1. query["me"] \in Answered
  BY DEF IInv, Typed
<1>2. ASSUME NEW to \in {"login", "app"}, Load(to) PROVE Pursued'
  BY <1>2 DEF Load, Pursued, Empty
<1>3. CASE Hydrate
  <2>1. CASE screen = "app" /\ stored # None
    <3>1. MountMe(stored) /\ stored \in Session
      BY <1>3, <2>1 DEF Hydrate, IInv, Typed
    <3> QED
      BY <3>1, MountPursues DEF IInv, Pursued
  <2>2. CASE ~(screen = "app" /\ stored # None)
    BY <1>3, <2>2 DEF Hydrate, Pursued
  <2> QED
    BY <2>1, <2>2
<1>4. CASE Arrive \/ GoBack
  <2>1. CASE screen = "login" /\ token # None
    <3>1. MountMe(token) /\ token \in Session
      BY <1>4, <2>1 DEF Arrive, GoBack, Switch, IInv, Typed
    <3> QED
      BY <3>1, MountPursues DEF IInv, Pursued
  <2>2. CASE ~(screen = "login" /\ token # None)
    BY <1>4, <2>2 DEF Arrive, GoBack, Switch, IInv, Typed, Pursued
  <2> QED
    BY <2>1, <2>2
<1>5. CASE Login
  <2>1. PICK q : q = [query["me"] EXCEPT !.stale = TRUE]
    OBVIOUS
  <2>2. /\ q.stale /\ q.data = query["me"].data /\ q.status = query["me"].status
    BY <1>1, <2>1 DEF Answered
  <2>3. query'["me"] = q /\ screen' = "login"
    BY <1>5, <2>1 DEF Login, IInv, Typed
  <2> QED
    BY <2>2, <2>3 DEF Pursued
<1>6. CASE SignOut \/ Redirect \/ GoElsewhere
  BY <1>6 DEF SignOut, Clear, Redirect, GoElsewhere, Pursued
<1>7. ASSUME NEW k \in Keys, Fetch(k) PROVE Pursued'
  <2>1. PICK q \in Attempts(token, 0) : fetching' = [fetching EXCEPT ![k] = {q}]
    BY <1>7 DEF Fetch
  <2>2. query'["me"] = (IF k = "me" THEN Sent(query["me"]) ELSE query["me"])
    BY <1>7 DEF Fetch, IInv, Typed
  <2>3. fetching'["me"] = (IF k = "me" THEN {q} ELSE fetching["me"])
    BY <2>1 DEF IInv, Typed
  <2> QED
    BY <1>7, <1>1, <2>2, <2>3 DEF Fetch, Pursued, Sent, Answered
<1>8. ASSUME NEW k \in Keys, Answer(k) PROVE Pursued'
  <2>1. PICK r \in fetching[k] :
          /\ r.accepted
          /\ query' = [query EXCEPT ![k] = [data |-> r.as, status |-> "success", stale |-> FALSE]]
    BY <1>8 DEF Answer
  <2>2. r.as # None
    BY <2>1 DEF IInv, Own
  <2>3. CASE k = "me"
    <3>1. query'["me"].data = r.as /\ query'["me"].status = "success"
      BY <2>1, <2>3 DEF IInv, Typed
    <3> QED
      BY <2>2, <3>1 DEF Pursued
  <2>4. CASE k # "me"
    BY <1>8, <2>1, <2>4 DEF Answer, Done, Pursued, IInv, Typed
  <2> QED
    BY <2>3, <2>4
<1>9. ASSUME NEW k \in Keys, Unauthorized(k) \/ GiveUp(k) PROVE Pursued'
  <2>1. /\ Failed(k) /\ Done(k) /\ UNCHANGED <<screen, hydrated>>
        /\ token' \in {None, token}
    BY <1>9 DEF Unauthorized, GiveUp, DropsSession, Clear, KeepSession
  <2>2. CASE k = "me"
    <3>1. query'["me"].status = "error"
      BY <1>1, <2>1, <2>2 DEF Failed, Answered, IInv, Typed
    <3> QED
      BY <3>1 DEF Pursued
  <2>3. CASE k # "me"
    <3>1. query'["me"] = query["me"] /\ fetching'["me"] = fetching["me"]
      BY <2>1, <2>3 DEF Failed, Done, IInv, Typed
    <3> QED
      BY <2>1, <3>1 DEF Pursued
  <2> QED
    BY <2>2, <2>3
<1>10. ASSUME NEW k \in Keys, Retry(k) \/ Continue(k) PROVE Pursued'
  <2>1. \E q : fetching' = [fetching EXCEPT ![k] = {q}]
    BY <1>10 DEF Retry, Continue
  <2>2. fetching'["me"] = {} => fetching["me"] = {}
    BY <2>1 DEF IInv, Typed
  <2> QED
    BY <1>10, <2>2 DEF Retry, Continue, Pursued
<1>11. ASSUME NEW k \in Keys, Age(k) PROVE Pursued'
  <2>1. /\ query'["me"].status = query["me"].status
        /\ query'["me"].data = query["me"].data
        /\ query["me"].stale => query'["me"].stale
    BY <1>11, <1>1 DEF Age, IInv, Typed, Answered
  <2> QED
    BY <1>11, <2>1 DEF Age, Pursued
<1>12. ASSUME NEW k \in Keys, Collect(k) PROVE Pursued'
  <2>1. query'["me"] = query["me"] \/ (query'["me"] = Empty /\ screen # "app")
    BY <1>12 DEF Collect, Watched, IInv, Typed
  <2> QED
    BY <1>12, <2>1 DEF Collect, Pursued, Empty
<1>13. ASSUME NEW s \in Session, Reject(s) PROVE Pursued'
  BY <1>13 DEF Reject, Pursued
<1>14. CASE UNCHANGED vars
  BY <1>14 DEF vars, Pursued
<1> QED
  BY <1>2, <1>3, <1>4, <1>5, <1>6, <1>7, <1>8, <1>9, <1>10, <1>11, <1>12, <1>13, <1>14
     DEF Next, Deliver, Resume

\* A page in front of a spinner, or behind the guard without a session, has yet
\* to read the stored session back, or its request for the session is in flight
\* or held back, or the guard is about to redirect, or a transition is under
\* way, or somebody interrupted it.
SpinnersHaveACause ==
  Unsettled => \/ ~hydrated
               \/ InFlight("me") \/ Paused("me")
               \/ WantsLogin /\ ~told
               \/ leaving
               \/ Interrupted

\* Only following a link away from a redirect under way interrupts it.
OnlyNavigationInterrupts == [][Interrupted' => Interrupted \/ GoElsewhere]_vars

\* No page is stuck by its own doing: unless the browser is held back, or
\* somebody left a redirect for another screen, one of the steps
\* EverySpinnerEnds assumes fair is due (use-session.ts, app-shell.tsx).
THEOREM SpinnersAreNotStuck == Spec => []SpinnersHaveACause /\ OnlyNavigationInterrupts
<1>1. Init => Pursued
  BY DEF Init, Pursued, Empty, Keys
<1>2. IInv /\ Pursued => SpinnersHaveACause
  <2> SUFFICES ASSUME IInv, Pursued, Unsettled, hydrated, ~InFlight("me"), ~Paused("me")
               PROVE  WantsLogin
    BY DEF SpinnersHaveACause, Interrupted
  <2>1. fetching["me"] = {}
    BY DEF InFlight, Paused
  <2>2. ~IsLoading
    BY DEF IsLoading
  <2>3. token = None \/ Me = None
    BY <2>2 DEF Unsettled, Spinner
  <2>4. Me = None => query["me"].status # "success"
    BY DEF Pursued, Me
  <2>5. token # None => query["me"].status # "pending"
    BY <2>1 DEF Pursued, Unsettled
  <2>6. query["me"].status \in {"pending", "success", "error"}
    BY DEF IInv, Typed, Answered, Keys
  <2> QED
    BY <2>2, <2>3, <2>4, <2>5, <2>6 DEF IsAuthenticated, WantsLogin, Unsettled
<1>3. IInv /\ [Next]_vars => [Interrupted' => Interrupted \/ GoElsewhere]_vars
  <2> SUFFICES ASSUME IInv, Next, Interrupted', ~GoElsewhere PROVE Interrupted
    OBVIOUS
  <2>1. ASSUME NEW to \in {"login", "app"}, Load(to) PROVE FALSE
    BY <2>1 DEF Load, SameGuard, Interrupted, WantsLogin, IsLoading
  <2>2. CASE Login \/ SignOut \/ Redirect
    BY <2>2 DEF Login, SignOut, Redirect, Interrupted
  <2>3. CASE Arrive \/ GoBack
    BY <2>3 DEF Arrive, GoBack, Switch, SameGuard, Interrupted, WantsLogin, IInv, Told
  <2>4. CASE UNCHANGED leaving /\ SameGuard
    BY <2>4 DEF SameGuard, Interrupted
  <2>5. ASSUME NEW k \in Keys,
               Fetch(k) \/ Deliver(k) \/ Resume(k) \/ Age(k) \/ Collect(k)
        PROVE  UNCHANGED leaving /\ SameGuard
    BY <2>5 DEF Fetch, Deliver, Resume, Answer, Unauthorized, Retry, GiveUp, Continue,
       Age, Collect
  <2>6. (Hydrate \/ \E s \in Session : Reject(s)) => UNCHANGED leaving /\ SameGuard
    BY DEF Hydrate, Reject
  <2> QED
    BY <2>1, <2>2, <2>3, <2>4, <2>5, <2>6 DEF Next
<1> QED
  BY <1>1, <1>2, <1>3, InductiveInvariant, NextPursues, PTL
     DEF Spec, OnlyNavigationInterrupts
=============================================================================
