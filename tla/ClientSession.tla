---------------------------- MODULE ClientSession ----------------------------
(***************************************************************************)
(* The signed-in session of the web client (src/frontend/src): the token   *)
(* pair in localStorage that all tabs of a browser share, the axios        *)
(* interceptors that refresh it on a 401, and AuthContext, which keeps a   *)
(* user on screen and a query cache in every tab.                          *)
(*                                                                         *)
(* Tokens are named by the pair they were issued with: pair n is the n-th  *)
(* the back end issued, 0 is no token.  Code of one tab runs to the next   *)
(* await without interruption, so what runs between two awaits is one      *)
(* action; tabs, the network and the back end interleave between them.     *)
(***************************************************************************)
EXTENDS Naturals, Sequences, FiniteSets

CONSTANTS
  Tabs,
  Fetches,    \* the queries that screens send
  TabOf,      \* the tab of a fetch
  Users,
  MaxPairs    \* bound: token pairs the back end issues

ASSUME SessionParameters ==
  /\ TabOf \in [Fetches -> Tabs]
  /\ MaxPairs \in Nat
  /\ Tabs \cap (Fetches \cup {"live", "ended"}) = {}
  /\ "nobody" \notin Users

VARIABLES
  pairs,      \* back end: owner, state of the refresh and of the access token
  store,      \* localStorage: oam.access and oam.refresh
  shown,      \* AuthContext's user in each tab
  form,       \* what a tab's user is waiting for: signing in, out, or a page load
  shared,     \* `refreshing', the refresh in flight in each tab
  sent,       \* each request; a tab's own is its POST /auth/logout/ or GET /auth/me/
  cache,      \* users whose data a tab's query cache holds
  strayed     \* history: other users whose tokens a tab has met since its last reset

sessionVars == <<pairs, store, shown, form, shared, sent, cache, strayed>>

Requests == Fetches \cup Tabs
Nobody == "nobody"
Here(r) == IF r \in Tabs THEN r ELSE TabOf[r]
OfTab(t) == {r \in Requests : Here(r) = t}

NoTokens == [access |-> 0, refresh |-> 0]
Unsent == [step |-> "idle", token |-> 0, body |-> 0, kept |-> TRUE]
NoRefresh == [step |-> "none", old |-> 0, new |-> 0]
NoForm == [what |-> "none", user |-> Nobody]

Issue(u) == [user |-> u, refresh |-> "live", access |-> "fresh"]
Owner(n) == IF n = 0 THEN Nobody ELSE pairs[n].user
Accepted(n) == n # 0 /\ pairs[n].access = "fresh"

SessionInit ==
  /\ pairs = <<>>
  /\ store = NoTokens
  /\ shown = [t \in Tabs |-> Nobody]
  /\ form = [t \in Tabs |-> NoForm]
  /\ shared = [t \in Tabs |-> NoRefresh]
  /\ sent = [r \in Requests |-> Unsent]
  /\ cache = [t \in Tabs |-> {}]
  /\ strayed = [t \in Tabs |-> {}]

-----------------------------------------------------------------------------
(* AuthContext. *)

\* A mutant: the cache survives a change of user.
EmptiedNever(t) == cache

\* resetCache: queryClient.clear() also forgets the queries in flight.
Emptied(t) == [cache EXCEPT ![t] = {}]
Forgotten(t, requests) ==
  [r \in Requests |-> IF Here(r) = t /\ r \notin Tabs
                        THEN [requests[r] EXCEPT !.kept = FALSE] ELSE requests[r]]

\* login and register, from pages that show no user.  The interceptor attaches what the
\* store holds to this call as well, and the back end turns it away when that token has
\* expired.  socialLogin and verifyOtp are the same, but that the interceptor refreshes
\* an expired token for them first, which is left out.
SignIn(t, u) ==
  /\ shown[t] = Nobody
  /\ form[t] = NoForm
  /\ form' = IF store.access = 0 \/ Accepted(store.access)
               THEN [form EXCEPT ![t] = [what |-> "signing_in", user |-> u]] ELSE form
  /\ cache' = Emptied(t)
  /\ sent' = Forgotten(t, sent)
  /\ UNCHANGED <<pairs, store, shown, shared>>

SignedIn(t) ==
  LET u == form[t].user
      n == Len(pairs) + 1
  IN  /\ form[t].what = "signing_in"
      /\ n <= MaxPairs
      /\ pairs' = Append(pairs, Issue(u))
      /\ store' = [access |-> n, refresh |-> n]
      /\ shown' = [shown EXCEPT ![t] = u]
      /\ form' = [form EXCEPT ![t] = NoForm]
      /\ cache' = Emptied(t)
      /\ sent' = Forgotten(t, sent)
      /\ UNCHANGED shared

SignInFails(t) ==
  /\ form[t].what = "signing_in"
  /\ form' = [form EXCEPT ![t] = NoForm]
  /\ UNCHANGED <<pairs, store, shown, shared, sent, cache>>

\* setUser(null) and resetCache, with the tokens gone.
Leave(t, requests) ==
  /\ store' = NoTokens
  /\ shown' = [shown EXCEPT ![t] = Nobody]
  /\ cache' = Emptied(t)
  /\ sent' = Forgotten(t, requests)

\* logout: the call is only made with a refresh token at hand.
SignOut(t) ==
  /\ shown[t] # Nobody
  /\ form[t] = NoForm
  /\ IF store.refresh = 0
       THEN Leave(t, sent) /\ UNCHANGED form
       ELSE /\ sent' = [sent EXCEPT ![t] = [Unsent EXCEPT !.step = "asked",
                                              !.token = store.access, !.body = store.refresh]]
            /\ form' = [form EXCEPT ![t] = [NoForm EXCEPT !.what = "signing_out"]]
            /\ UNCHANGED <<store, shown, cache>>
  /\ UNCHANGED <<pairs, shared>>

\* A new page load: the tab's memory is gone, and a stored session is restored with
\* GET /auth/me/.  A refresh it had in flight reaches the back end or not.
Reload(t) ==
  LET n == shared[t].old
      spent == shared[t].step = "asked" /\ pairs[n].refresh = "live" /\ Len(pairs) < MaxPairs
      tagged == [m \in DOMAIN pairs |-> IF pairs[m].refresh = t
                                          THEN [pairs[m] EXCEPT !.refresh = "ended"] ELSE pairs[m]]
      fresh == [r \in Requests |-> IF Here(r) = t THEN Unsent ELSE sent[r]]
  IN  /\ \/ pairs' = tagged
         \/ spent /\ pairs' = Append([tagged EXCEPT ![n].refresh = "ended"], Issue(Owner(n)))
      /\ shared' = [shared EXCEPT ![t] = NoRefresh]
      /\ shown' = [shown EXCEPT ![t] = Nobody]
      /\ cache' = Emptied(t)
      /\ IF store.refresh = 0
           THEN sent' = fresh /\ form' = [form EXCEPT ![t] = NoForm]
           ELSE /\ sent' = [fresh EXCEPT ![t] = [Unsent EXCEPT !.step = "asked",
                                                   !.token = store.access]]
                /\ form' = [form EXCEPT ![t] = [NoForm EXCEPT !.what = "restoring"]]
      /\ UNCHANGED store

-----------------------------------------------------------------------------
(* Requests and the interceptors. *)

\* The request interceptor attaches the stored access token.
Ask(r) ==
  /\ r \in Fetches
  /\ sent[r].step = "idle"
  /\ shown[Here(r)] # Nobody
  /\ sent' = [sent EXCEPT ![r] = [Unsent EXCEPT !.step = "asked", !.token = store.access]]
  /\ UNCHANGED <<pairs, store, shown, form, shared, cache>>

InFlight(r) == sent[r].step \in {"asked", "again"}
Finished(r) == [sent EXCEPT ![r] = Unsent]

\* A query is answered, into the cache unless it was cleared in the meantime.
Answered(r) ==
  LET t == Here(r)
  IN  /\ r \in Fetches
      /\ InFlight(r)
      /\ Accepted(sent[r].token)
      /\ cache' = IF sent[r].kept THEN [cache EXCEPT ![t] = @ \cup {Owner(sent[r].token)}]
                  ELSE cache
      /\ sent' = Finished(r)
      /\ UNCHANGED <<pairs, store, shown, form, shared>>

\* The restored user is whoever the token belongs to.
Restored(t) ==
  /\ form[t].what = "restoring"
  /\ InFlight(t)
  /\ Accepted(sent[t].token)
  /\ shown' = [shown EXCEPT ![t] = Owner(sent[t].token)]
  /\ form' = [form EXCEPT ![t] = NoForm]
  /\ sent' = Finished(t)
  /\ UNCHANGED <<pairs, store, shared, cache>>

\* The back end blacklists the refresh token in the body.  It answers 400 when that
\* one is blacklisted already: then authApi.logout clears the tokens and throws,
\* and AuthContext.logout does not reach setUser(null).
SignedOut(t) ==
  LET n == sent[t].body
  IN  /\ form[t].what = "signing_out"
      /\ InFlight(t)
      /\ Accepted(sent[t].token)
      /\ form' = [form EXCEPT ![t] = NoForm]
      /\ IF pairs[n].refresh = "live"
           THEN pairs' = [pairs EXCEPT ![n].refresh = "ended"] /\ Leave(t, Finished(t))
           ELSE /\ store' = NoTokens
                /\ sent' = Finished(t)
                /\ UNCHANGED <<pairs, shown, cache>>
      /\ UNCHANGED shared

\* The promise of a request is rejected: a tab's own request clears the tokens, as
\* both `finally' in authApi.logout and `catch' in the restore effect do.
Reject(R) ==
  /\ form' = [t \in Tabs |-> IF t \in R THEN NoForm ELSE form[t]]
  /\ sent' = [r \in Requests |-> IF r \in R THEN Unsent ELSE sent[r]]

\* No answer, or not a 401; or a 401 on the request that was sent again.
Fails(r) ==
  /\ InFlight(r)
  /\ Reject({r})
  /\ store' = IF r \in Tabs THEN NoTokens ELSE store
  /\ UNCHANGED <<pairs, shown, shared, cache>>

\* A mutant: nobody is told that the session is over.
ExpireQuietly(t, R) ==
  /\ Reject(R)
  /\ store' = NoTokens
  /\ UNCHANGED <<shown, cache>>

\* A refresh came to nothing: clear() and oam:logout, and every waiting request fails.
Expire(t, R) ==
  /\ form' = [form EXCEPT ![t] = IF t \in R THEN NoForm ELSE @]
  /\ Leave(t, [r \in Requests |-> IF r \in R THEN Unsent ELSE sent[r]])

\* A mutant: every 401 starts a refresh of its own, the last one is kept.
DeniedAlone(r) ==
  LET t == Here(r)
  IN  /\ sent[r].step = "asked"
      /\ ~Accepted(sent[r].token)
      /\ IF store.refresh = 0
           THEN Expire(t, {r}) /\ UNCHANGED shared
           ELSE /\ shared' = [shared EXCEPT ![t] = [step |-> "asked", old |-> store.refresh, new |-> 0]]
                /\ sent' = [sent EXCEPT ![r].step = "waiting", ![r].token = 0]
                /\ UNCHANGED <<store, shown, form, cache>>
      /\ UNCHANGED pairs

\* The first 401 of a request starts the tab's refresh, or joins it.
Denied(r) ==
  LET t == Here(r)
      joined == [sent EXCEPT ![r].step = "waiting", ![r].token = 0]
  IN  /\ sent[r].step = "asked"
      /\ ~Accepted(sent[r].token)
      /\ IF shared[t] # NoRefresh
           THEN sent' = joined /\ UNCHANGED <<store, shown, form, shared, cache>>
         ELSE IF store.refresh = 0
           THEN Expire(t, {r}) /\ UNCHANGED shared
         ELSE /\ shared' = [shared EXCEPT ![t] = [step |-> "asked", old |-> store.refresh, new |-> 0]]
              /\ sent' = joined
              /\ UNCHANGED <<store, shown, form, cache>>
      /\ UNCHANGED pairs

Refresh(t, step, n) == [shared EXCEPT ![t].step = step, ![t].new = n]

\* The back end rotates the refresh token, blacklisting the one presented; the
\* answer may be lost on the way back, or the call on the way there.
RefreshServed(t) ==
  LET old == shared[t].old
      n == Len(pairs) + 1
  IN  /\ shared[t].step = "asked"
      /\ IF pairs[old].refresh = "live"
           THEN /\ n <= MaxPairs
                /\ pairs' = Append([pairs EXCEPT ![old].refresh = t], Issue(Owner(old)))
                /\ \/ shared' = Refresh(t, "granted", n)
                   \/ shared' = Refresh(t, "lost", 0)
           ELSE /\ shared' = Refresh(t, "refused", 0)
                /\ UNCHANGED pairs
      /\ UNCHANGED <<store, shown, form, sent, cache>>

RefreshUnsent(t) ==
  /\ shared[t].step = "asked"
  /\ shared' = Refresh(t, "lost", 0)
  /\ UNCHANGED <<pairs, store, shown, form, sent, cache>>

Waiting(t) == {r \in OfTab(t) : sent[r].step = "waiting"}

\* setAccess and setRefresh.
Stored(n) == [access |-> n, refresh |-> n]

\* A mutant: only one of the requests that share the refresh is sent again.
ResentOne(t, n) ==
  LET first == CHOOSE r \in Waiting(t) : TRUE
  IN  [sent EXCEPT ![first].step = "again", ![first].token = n]

\* Every request that waited is sent again, with what the store holds now.
Resent(t, n) ==
  [r \in Requests |-> IF r \in Waiting(t)
                        THEN [sent[r] EXCEPT !.step = "again", !.token = n] ELSE sent[r]]

Refreshed(t) ==
  LET n == shared[t].new
  IN  /\ shared[t].step = "granted"
      /\ store' = Stored(n)
      /\ sent' = Resent(t, n)
      /\ shared' = [shared EXCEPT ![t] = NoRefresh]
      /\ UNCHANGED <<pairs, shown, form, cache>>

RefreshFails(t) ==
  /\ shared[t].step \in {"refused", "lost"}
  /\ Expire(t, Waiting(t))
  /\ shared' = [shared EXCEPT ![t] = NoRefresh]
  /\ UNCHANGED pairs

\* Half an hour passes.
AccessExpires(n) ==
  /\ pairs[n].access = "fresh"
  /\ pairs' = [pairs EXCEPT ![n].access = "stale"]
  /\ UNCHANGED <<store, shown, form, shared, sent, cache>>

-----------------------------------------------------------------------------
Answer(r) == Answered(r) \/ (r \in Tabs /\ (Restored(r) \/ SignedOut(r))) \/ Denied(r)

Settle(t) == RefreshServed(t) \/ RefreshUnsent(t) \/ Refreshed(t) \/ RefreshFails(t)

SessionStep ==
  \/ \E t \in Tabs :
       \/ \E u \in Users : SignIn(t, u)
       \/ SignedIn(t)
       \/ SignInFails(t)
       \/ SignOut(t)
       \/ Reload(t)
       \/ Settle(t)
  \/ \E r \in Requests : Ask(r) \/ Answer(r) \/ Fails(r)
  \/ \E n \in DOMAIN pairs : AccessExpires(n)

\* The history variable: a tab that keeps its cache keeps what it has met.
Strays ==
  strayed' = [t \in Tabs |->
    LET met == {pairs'[n].user : n \in {store'.access, store'.refresh} \ {0}}
        before == IF shown'[t] # shown[t] THEN {} ELSE strayed[t]
    IN  IF shown'[t] = Nobody THEN {} ELSE before \cup (met \ {shown'[t]})]

SessionNext == SessionStep /\ Strays

SessionSpec == SessionInit /\ [][SessionNext]_sessionVars

\* Answers come or calls fail, awaited code goes on, a page with a user keeps asking
\* (the notification bell, every 30 seconds), and not every one of its calls fails.
SessionFairness ==
  /\ \A t \in Tabs : WF_sessionVars(Settle(t) /\ Strays)
  /\ \A r \in Requests : WF_sessionVars((Answer(r) \/ Fails(r)) /\ Strays)
  /\ \A r \in Fetches : /\ WF_sessionVars(Ask(r) /\ Strays)
                        /\ SF_sessionVars(Answer(r) /\ Strays)

-----------------------------------------------------------------------------
(* Properties. *)

\* Every variable keeps its type, and a tab's refresh names pairs that exist.
SessionTypeOK ==
  /\ pairs \in Seq([user : Users, refresh : {"live", "ended"} \cup Tabs,
                    access : {"fresh", "stale"}])
  /\ Len(pairs) <= MaxPairs
  /\ store \in [access : 0 .. Len(pairs), refresh : 0 .. Len(pairs)]
  /\ shown \in [Tabs -> Users \cup {Nobody}]
  /\ form \in [Tabs -> [what : {"none", "signing_in", "signing_out", "restoring"},
                       user : Users \cup {Nobody}]]
  /\ shared \in [Tabs -> [step : {"none", "asked", "granted", "refused", "lost"},
                         old : 0 .. Len(pairs), new : 0 .. Len(pairs)]]
  /\ sent \in [Requests -> [step : {"idle", "asked", "waiting", "again"},
                            token : 0 .. Len(pairs), body : 0 .. Len(pairs), kept : BOOLEAN]]
  /\ cache \in [Tabs -> SUBSET Users]
  /\ strayed \in [Tabs -> SUBSET Users]
  /\ \A t \in Tabs : shared[t].step = "none" <=> shared[t].old = 0

\* The back end blacklists a refresh token when it rotates it, so presenting one
\* twice ends the session.  A tab never does that to itself, however many of its
\* requests meet a 401 at once or late (lib/api.ts: the shared `refreshing', and
\* the rotated token that is kept); another tab, or a page load in between, can.
NeverLocksItselfOut ==
  \A t \in Tabs : shared[t].step = "refused" => pairs[shared[t].old].refresh # t

\* A tab holds no data but its user's, over any run of sign-ins, sign-outs, expired
\* sessions and late answers - except what it fetched after the shared store was
\* given someone else's tokens (by another tab, or by a refresh that comes back
\* after the user has changed) (AuthContext.tsx: resetCache).
OwnData ==
  \A t \in Tabs : cache[t] \subseteq {shown[t]} \cup strayed[t]

\* The requests of a tab that wait for its shared refresh all go on when it ends: none
\* is left behind (lib/api.ts: every 401 awaits the one promise).
WaitersGoOn == \A t \in Tabs : Waiting(t) # {} ~> Waiting(t) = {}

\* A page that asks the back end anything (the bell, on every page with a header) does
\* not keep showing a user whose tokens are gone, after a sign-out that failed or a
\* session that expired in another tab: it signs the user out, unless a late refresh
\* or a sign-in puts tokens back.
GoneFromScreen ==
  \A r \in Fetches :
    (shown[TabOf[r]] # Nobody /\ store = NoTokens)
      ~> (shown[TabOf[r]] = Nobody \/ store # NoTokens)

=============================================================================
