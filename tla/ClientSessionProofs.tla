------------------------ MODULE ClientSessionProofs ------------------------
(***************************************************************************)
(* The session of the web client, for any tabs, requests, users and token  *)
(* pairs: a tab never presents a refresh token that it had rotated itself, *)
(* and keeps no answer that was fetched for another user than its own.     *)
(***************************************************************************)
EXTENDS ClientSession, TLAPS

Tags == {"live", "ended"} \cup Tabs
Pairs == [user : Users, refresh : Tags, access : {"fresh", "stale"}]
Forms == [what : {"signing_in"}, user : Users]
           \cup [what : {"none", "signing_out", "restoring"}, user : {Nobody}]
RefreshSteps == {"none", "asked", "granted", "refused", "lost"}
Refreshes == [step : RefreshSteps, old : Nat, new : Nat]

PairData == pairs \in Seq(Pairs)
FormData == form \in [Tabs -> Forms]
SharedData == shared \in [Tabs -> Refreshes]

\* What became of a refresh token: the tab that rotated it, until that tab's next page.
Tag(n) == pairs[n].refresh

Known(n) == n \in 0 .. Len(pairs)

\* The pairs that the store and the tabs name were issued.
Names ==
  /\ Known(store.refresh)
  /\ \A t \in Tabs : /\ Known(shared[t].old) /\ Known(shared[t].new)
                     /\ shared[t].step # "none" => shared[t].old # 0
                     /\ shared[t].step = "granted" => shared[t].new # 0

\* A new pair is its tab's secret until it is stored.
Secret ==
  \A t \in Tabs : shared[t].step = "granted" =>
    /\ Tag(shared[t].new) \notin Tabs
    /\ store.refresh # shared[t].new
    /\ \A u \in Tabs : shared[u].old # shared[t].new
    /\ \A u \in Tabs : u # t /\ shared[u].step = "granted" => shared[u].new # shared[t].new

\* A token that is stored though a tab rotated it is about to be replaced by that tab.
Replaced ==
  \A t \in Tabs : store.refresh # 0 /\ Tag(store.refresh) = t =>
    shared[t].step \in {"granted", "lost"}

\* A tab presents no token that it rotated.
Honest ==
  \A t \in Tabs : shared[t].step \in {"asked", "refused"} => Tag(shared[t].old) # t

Data == PairData /\ FormData /\ SharedData
SessionInv == Data /\ Names /\ Secret /\ Replaced /\ Honest

-----------------------------------------------------------------------------
(* Pairs and refreshes. *)

LEMMA Distinct == {"live", "ended"} \cap Tabs = {}
  BY SessionParameters

LEMMA Issued ==
  ASSUME NEW ps \in Seq(Pairs), NEW u \in Users
  PROVE  /\ Append(ps, Issue(u)) \in Seq(Pairs)
         /\ Len(Append(ps, Issue(u))) = Len(ps) + 1
         /\ Len(ps) \in Nat
         /\ Append(ps, Issue(u))[Len(ps) + 1].refresh = "live"
         /\ \A n \in 1 .. Len(ps) : Append(ps, Issue(u))[n] = ps[n]
<1>1. Issue(u) \in Pairs /\ Issue(u).refresh = "live"
  BY DEF Issue, Pairs, Tags
<1>2. QED BY <1>1

LEMMA PairChanged ==
  ASSUME NEW p \in Pairs, NEW tag \in Tags
  PROVE  /\ [p EXCEPT !.refresh = tag] \in Pairs /\ [p EXCEPT !.refresh = tag].refresh = tag
         /\ [p EXCEPT !.access = "stale"] \in Pairs /\ [p EXCEPT !.access = "stale"].refresh = p.refresh
  BY DEF Pairs

LEMMA PairAt ==
  ASSUME PairData, NEW m \in 1 .. Len(pairs)
  PROVE  pairs[m] \in Pairs
  BY DEF PairData

LEMMA Retagged ==
  ASSUME NEW ps \in Seq(Pairs), NEW m \in 1 .. Len(ps), NEW tag \in Tags
  PROVE  /\ [ps EXCEPT ![m].refresh = tag] \in Seq(Pairs)
         /\ Len([ps EXCEPT ![m].refresh = tag]) = Len(ps)
         /\ [ps EXCEPT ![m].refresh = tag][m].refresh = tag
         /\ \A n \in 1 .. Len(ps) : n # m => [ps EXCEPT ![m].refresh = tag][n] = ps[n]
<1>1. ps[m] \in Pairs
  OBVIOUS
<1>2. [ps[m] EXCEPT !.refresh = tag] \in Pairs /\ [ps[m] EXCEPT !.refresh = tag].refresh = tag
  BY <1>1, PairChanged
<1>3. [ps EXCEPT ![m].refresh = tag] = [ps EXCEPT ![m] = [ps[m] EXCEPT !.refresh = tag]]
  OBVIOUS
<1>4. QED BY <1>2, <1>3

LEMMA Aged ==
  ASSUME PairData, NEW m \in 1 .. Len(pairs)
  PROVE  /\ [pairs EXCEPT ![m].access = "stale"] \in Seq(Pairs)
         /\ Len([pairs EXCEPT ![m].access = "stale"]) = Len(pairs)
         /\ \A n \in 1 .. Len(pairs) :
              [pairs EXCEPT ![m].access = "stale"][n].refresh = pairs[n].refresh
<1>1. /\ [pairs[m] EXCEPT !.access = "stale"] \in Pairs
      /\ [pairs[m] EXCEPT !.access = "stale"].refresh = pairs[m].refresh
  <2>1. "live" \in Tags
    BY DEF Tags
  <2>2. QED BY <2>1, PairAt, PairChanged
<1>2. [pairs EXCEPT ![m].access = "stale"] = [pairs EXCEPT ![m] = [pairs[m] EXCEPT !.access = "stale"]]
  OBVIOUS
<1>3. QED BY <1>1, <1>2 DEF PairData

LEMMA NoRefreshData ==
  /\ NoRefresh \in Refreshes
  /\ NoRefresh.step = "none" /\ NoRefresh.old = 0 /\ NoRefresh.new = 0
  BY DEF NoRefresh, Refreshes, RefreshSteps

LEMMA RefreshData ==
  ASSUME SharedData, NEW t \in Tabs, NEW step \in RefreshSteps, NEW n \in Nat
  PROVE  /\ Refresh(t, step, n) \in [Tabs -> Refreshes]
         /\ Refresh(t, step, n)[t].step = step
         /\ Refresh(t, step, n)[t].old = shared[t].old
         /\ Refresh(t, step, n)[t].new = n
         /\ \A u \in Tabs : u # t => Refresh(t, step, n)[u] = shared[u]
  BY DEF Refresh, SharedData, Refreshes

LEMMA StartData ==
  ASSUME NEW old \in Nat
  PROVE  /\ [step |-> "asked", old |-> old, new |-> 0] \in Refreshes
         /\ [step |-> "asked", old |-> old, new |-> 0].step = "asked"
         /\ [step |-> "asked", old |-> old, new |-> 0].old = old
         /\ [step |-> "asked", old |-> old, new |-> 0].new = 0
  BY DEF Refreshes, RefreshSteps

LEMMA NoTokensData == NoTokens.refresh = 0
  BY DEF NoTokens

LEMMA StoredData == ASSUME NEW n PROVE Stored(n).refresh = n
  BY DEF Stored

\* A page load forgets which tokens the tab has rotated.
LEMMA Untagged ==
  ASSUME PairData, NEW t \in Tabs,
         NEW tagged, tagged = [m \in DOMAIN pairs |-> IF pairs[m].refresh = t
                                 THEN [pairs[m] EXCEPT !.refresh = "ended"] ELSE pairs[m]]
  PROVE  /\ tagged \in Seq(Pairs)
         /\ Len(tagged) = Len(pairs)
         /\ \A n \in 1 .. Len(pairs) : tagged[n].refresh = IF pairs[n].refresh = t THEN "ended"
                                                           ELSE pairs[n].refresh
<1> DEFINE P(m) == IF pairs[m].refresh = t THEN [pairs[m] EXCEPT !.refresh = "ended"] ELSE pairs[m]
<1>1. ASSUME NEW m \in 1 .. Len(pairs)
      PROVE  P(m) \in Pairs /\ P(m).refresh = IF pairs[m].refresh = t THEN "ended" ELSE pairs[m].refresh
  <2>1. "ended" \in Tags
    BY DEF Tags
  <2>2. pairs[m] \in Pairs
    BY PairAt
  <2>3. CASE pairs[m].refresh = t
    <3>1. /\ [pairs[m] EXCEPT !.refresh = "ended"] \in Pairs
          /\ [pairs[m] EXCEPT !.refresh = "ended"].refresh = "ended"
      BY <2>1, <2>2, PairChanged
    <3>2. QED BY <2>3, <3>1
  <2>4. CASE pairs[m].refresh # t
    BY <2>2, <2>4
  <2>5. QED BY <2>3, <2>4
<1>2. tagged = [m \in 1 .. Len(pairs) |-> P(m)]
  BY DEF PairData
<1>3. Len(pairs) \in Nat
  BY DEF PairData
<1> HIDE DEF P
<1>4. QED BY <1>1, <1>2, <1>3

-----------------------------------------------------------------------------
(* What a step does to the tokens. *)

\* No token is issued, or tagged by a tab.
NoneIssued ==
  /\ Len(pairs') = Len(pairs)
  /\ \A n \in 1 .. Len(pairs) : pairs'[n].refresh \in {pairs[n].refresh, "ended"}

LEMMA SamePairs ==
  ASSUME PairData, UNCHANGED pairs
  PROVE  PairData' /\ NoneIssued
  BY DEF PairData, NoneIssued

LEMMA Calm ==
  ASSUME SessionInv, PairData', FormData', NoneIssued, UNCHANGED shared,
         store'.refresh \in {store.refresh, 0}
  PROVE  SessionInv'
<1> USE DEF SessionInv, Data, Known, Tag
<1>1. Data' /\ Names'
  BY DEF SharedData, Names, NoneIssued, PairData
<1>2. ASSUME NEW n \in 1 .. Len(pairs), NEW t \in Tabs, pairs'[n].refresh = t
      PROVE  pairs[n].refresh = t
  BY <1>2, Distinct DEF NoneIssued
<1>3. Secret'
  <2> SUFFICES ASSUME NEW t \in Tabs, shared[t].step = "granted"
               PROVE  /\ pairs'[shared[t].new].refresh \notin Tabs
                      /\ store'.refresh # shared[t].new
                      /\ \A u \in Tabs : shared[u].old # shared[t].new
                      /\ \A u \in Tabs : u # t /\ shared[u].step = "granted" => shared[u].new # shared[t].new
    BY DEF Secret
  <2>1. shared[t].new \in 1 .. Len(pairs)
    BY DEF Names, PairData
  <2>2. QED BY <1>2, <2>1 DEF Secret
<1>4. Replaced'
  <2>1. store'.refresh # 0 => store'.refresh = store.refresh /\ store.refresh \in 1 .. Len(pairs)
    BY DEF Names, PairData
  <2>2. QED BY <1>2, <2>1 DEF Replaced
<1>5. Honest'
  <2> SUFFICES ASSUME NEW t \in Tabs, shared[t].step \in {"asked", "refused"}
               PROVE  pairs'[shared[t].old].refresh # t
    BY DEF Honest
  <2>1. shared[t].old \in 1 .. Len(pairs)
    BY DEF Names, PairData
  <2>2. QED BY <1>2, <2>1 DEF Honest
<1>6. QED BY <1>1, <1>3, <1>4, <1>5

\* A tab ends its refresh, or starts one with the stored token, or gets no new pair.
LEMMA SharedMoves ==
  ASSUME SessionInv, NEW t \in Tabs, SharedData', FormData', UNCHANGED pairs,
         \A u \in Tabs : u # t => shared'[u] = shared[u],
         shared'[t].new = 0, Known(shared'[t].old),
         shared'[t].step # "granted", shared'[t].step # "none" => shared'[t].old # 0,
         \/ UNCHANGED store
         \/ store'.refresh = 0
         \/ /\ shared[t].step = "granted" /\ store'.refresh = shared[t].new,
         shared'[t].old \in {shared[t].old, store.refresh, 0},
         shared'[t].step \in {"asked", "refused"} => pairs[shared'[t].old].refresh # t,
         \/ shared[t].step \notin {"granted", "lost"}
         \/ shared'[t].step = "lost"
         \/ store'.refresh = 0
         \/ shared[t].step = "granted" /\ store'.refresh = shared[t].new
  PROVE  SessionInv'
<1> USE DEF SessionInv, Data, Known, Tag
<1>1. Data' /\ Names'
  BY DEF Names, PairData, SharedData
<1>2. Secret'
  <2> SUFFICES ASSUME NEW u \in Tabs, shared'[u].step = "granted"
               PROVE  /\ pairs[shared'[u].new].refresh \notin Tabs
                      /\ store'.refresh # shared'[u].new
                      /\ \A v \in Tabs : shared'[v].old # shared'[u].new
                      /\ \A v \in Tabs : v # u /\ shared'[v].step = "granted" => shared'[v].new # shared'[u].new
    BY DEF Secret
  <2>1. u # t /\ shared'[u] = shared[u] /\ shared[u].new # 0
    BY DEF Names
  <2>2. store'.refresh # shared[u].new
    BY <2>1 DEF Secret
  <2>3. \A v \in Tabs : shared'[v].old # shared[u].new
    BY <2>1 DEF Secret
  <2>4. QED BY <2>1, <2>2, <2>3 DEF Secret
<1>3. Replaced'
  <2> SUFFICES ASSUME NEW u \in Tabs, store'.refresh # 0, pairs[store'.refresh].refresh = u
               PROVE  shared'[u].step \in {"granted", "lost"}
    BY DEF Replaced
  <2>1. store'.refresh = store.refresh
    BY DEF Secret
  <2>2. shared[u].step \in {"granted", "lost"}
    BY <2>1 DEF Replaced
  <2>3. CASE u # t
    BY <2>2, <2>3
  <2>4. CASE u = t
    BY <2>1, <2>2, <2>4 DEF Secret
  <2>5. QED BY <2>3, <2>4
<1>4. Honest'
  BY DEF Honest
<1>5. QED BY <1>1, <1>2, <1>3, <1>4

\* The back end rotates the token of tab t and issues a pair, which t hears of or not.
LEMMA Rotates ==
  ASSUME SessionInv, NEW t \in Tabs, PairData', SharedData', UNCHANGED <<form, store>>,
         shared[t].step = "asked",
         Len(pairs') = Len(pairs) + 1,
         pairs'[Len(pairs) + 1].refresh = "live",
         pairs'[shared[t].old].refresh = t,
         \A n \in 1 .. Len(pairs) : n # shared[t].old => pairs'[n].refresh = pairs[n].refresh,
         \A u \in Tabs : u # t => shared'[u] = shared[u],
         shared'[t].old = shared[t].old,
         \/ shared'[t].step = "granted" /\ shared'[t].new = Len(pairs) + 1
         \/ shared'[t].step = "lost" /\ shared'[t].new = 0
  PROVE  SessionInv'
<1> USE Distinct DEF SessionInv, Data, Known, Tag
<1> DEFINE old == shared[t].old
           new == Len(pairs) + 1
<1>1. /\ Len(pairs) \in Nat /\ old \in 1 .. Len(pairs)
      /\ store.refresh \in 0 .. Len(pairs)
      /\ \A u \in Tabs : shared[u].old \in 0 .. Len(pairs) /\ shared[u].new \in 0 .. Len(pairs)
  BY DEF Names, PairData
<1>2. Data' /\ Names'
  BY <1>1 DEF Names, FormData
<1>3. Secret'
  <2>1. ASSUME NEW u \in Tabs, u # t, shared[u].step = "granted"
        PROVE  /\ pairs'[shared[u].new].refresh \notin Tabs
               /\ store.refresh # shared[u].new
               /\ \A v \in Tabs : shared'[v].old # shared[u].new
               /\ \A v \in Tabs : v # u /\ shared'[v].step = "granted" => shared'[v].new # shared[u].new
    <3>1. shared[u].new \in 1 .. Len(pairs) /\ shared[u].new # old
      BY <1>1, <2>1 DEF Names, Secret
    <3>2. pairs'[shared[u].new].refresh = pairs[shared[u].new].refresh
      BY <3>1
    <3>3. pairs'[shared[u].new].refresh \notin Tabs
      BY <2>1, <3>2 DEF Secret, Tag
    <3>4. store.refresh # shared[u].new
      BY <2>1 DEF Secret
    <3>5. \A v \in Tabs : shared'[v].old # shared[u].new
      BY <1>1, <2>1, <3>1 DEF Secret
    <3>6. ASSUME NEW v \in Tabs, v # u, shared'[v].step = "granted"
          PROVE  shared'[v].new # shared[u].new
      BY <1>1, <2>1, <3>1, <3>6 DEF Secret
    <3>7. QED BY <3>3, <3>4, <3>5, <3>6
  <2>2. ASSUME shared'[t].step = "granted"
        PROVE  /\ pairs'[new].refresh \notin Tabs
               /\ store.refresh # new
               /\ \A v \in Tabs : shared'[v].old # new
               /\ \A v \in Tabs : v # t /\ shared'[v].step = "granted" => shared'[v].new # new
    BY <1>1, <2>2
  <2>3. QED BY <2>1, <2>2 DEF Secret
<1>4. Replaced'
  <2> SUFFICES ASSUME NEW u \in Tabs, store.refresh # 0, pairs'[store.refresh].refresh = u
               PROVE  shared'[u].step \in {"granted", "lost"}
    BY DEF Replaced
  <2>1. CASE store.refresh = old
    BY <2>1
  <2>2. CASE store.refresh # old
    BY <1>1, <2>2 DEF Replaced
  <2>3. QED BY <2>1, <2>2
<1>5. Honest'
  <2> SUFFICES ASSUME NEW u \in Tabs, u # t, shared[u].step \in {"asked", "refused"}
               PROVE  pairs'[shared[u].old].refresh # u
    BY DEF Honest
  <2>1. shared[u].old \in 1 .. Len(pairs)
    BY <1>1 DEF Names
  <2>2. QED BY <2>1 DEF Honest
<1>6. QED BY <1>2, <1>3, <1>4, <1>5

\* A pair comes into the store without a refresh.
LEMMA PairIssued ==
  ASSUME SessionInv, PairData', FormData', UNCHANGED shared,
         Len(pairs') = Len(pairs) + 1,
         store'.refresh = Len(pairs) + 1,
         pairs'[Len(pairs) + 1].refresh = "live",
         \A n \in 1 .. Len(pairs) : pairs'[n] = pairs[n]
  PROVE  SessionInv'
<1> USE Distinct DEF SessionInv, Data, Known, Tag
<1>1. /\ Len(pairs) \in Nat
      /\ \A u \in Tabs : shared[u].old \in 0 .. Len(pairs) /\ shared[u].new \in 0 .. Len(pairs)
  BY DEF Names, PairData
<1>2. Data' /\ Names'
  BY <1>1 DEF Names, SharedData
<1>3. Secret'
  <2> SUFFICES ASSUME NEW u \in Tabs, shared[u].step = "granted"
               PROVE  /\ pairs'[shared[u].new].refresh \notin Tabs
                      /\ store'.refresh # shared[u].new
                      /\ \A v \in Tabs : shared[v].old # shared[u].new
                      /\ \A v \in Tabs : v # u /\ shared[v].step = "granted" => shared[v].new # shared[u].new
    BY DEF Secret
  <2>1. shared[u].new \in 1 .. Len(pairs)
    BY <1>1 DEF Names
  <2>2. QED BY <1>1, <2>1 DEF Secret
<1>4. Replaced'
  BY DEF Replaced
<1>5. Honest'
  <2>1. \A u \in Tabs : shared[u].step \in {"asked", "refused"} => shared[u].old \in 1 .. Len(pairs)
    BY <1>1 DEF Names
  <2>2. QED BY <2>1 DEF Honest
<1>6. QED BY <1>2, <1>3, <1>4, <1>5

\* A page load of tab t; the back end may have served its refresh.
LEMMA Reloads ==
  ASSUME SessionInv, NEW t \in Tabs, PairData', FormData', SharedData', UNCHANGED store,
         Len(pairs') \in {Len(pairs), Len(pairs) + 1},
         \A n \in 1 .. Len(pairs) : /\ pairs'[n].refresh \in {pairs[n].refresh, "ended"}
                                    /\ pairs'[n].refresh # t,
         shared'[t] = NoRefresh,
         \A u \in Tabs : u # t => shared'[u] = shared[u]
  PROVE  SessionInv'
<1> USE Distinct, NoRefreshData DEF SessionInv, Data, Known, Tag
<1>1. /\ Len(pairs) \in Nat
      /\ store.refresh \in 0 .. Len(pairs)
      /\ \A u \in Tabs : shared[u].old \in 0 .. Len(pairs) /\ shared[u].new \in 0 .. Len(pairs)
  BY DEF Names, PairData
<1>2. Data' /\ Names'
  BY <1>1 DEF Names
<1>3. Secret'
  <2> SUFFICES ASSUME NEW u \in Tabs, u # t, shared[u].step = "granted"
               PROVE  /\ pairs'[shared[u].new].refresh \notin Tabs
                      /\ store.refresh # shared[u].new
                      /\ \A v \in Tabs : shared'[v].old # shared[u].new
                      /\ \A v \in Tabs : v # u /\ shared'[v].step = "granted" => shared'[v].new # shared[u].new
    BY DEF Secret
  <2>1. shared[u].new \in 1 .. Len(pairs)
    BY <1>1 DEF Names
  <2>2. pairs'[shared[u].new].refresh \notin Tabs
    BY <2>1 DEF Secret
  <2>3. QED BY <1>1, <2>1, <2>2 DEF Secret
<1>4. Replaced'
  <2> SUFFICES ASSUME NEW u \in Tabs, store.refresh # 0, pairs'[store.refresh].refresh = u
               PROVE  shared'[u].step \in {"granted", "lost"}
    BY DEF Replaced
  <2>1. u # t /\ pairs[store.refresh].refresh = u
    BY <1>1
  <2>2. QED BY <2>1 DEF Replaced
<1>5. Honest'
  <2> SUFFICES ASSUME NEW u \in Tabs, u # t, shared[u].step \in {"asked", "refused"}
               PROVE  pairs'[shared[u].old].refresh # u
    BY DEF Honest
  <2>1. shared[u].old \in 1 .. Len(pairs)
    BY <1>1 DEF Names
  <2>2. QED BY <2>1 DEF Honest
<1>6. QED BY <1>2, <1>3, <1>4, <1>5

-----------------------------------------------------------------------------
(* Every step keeps SessionInv. *)

LEMMA FormsData ==
  /\ NoForm \in Forms
  /\ \A u \in Users : [what |-> "signing_in", user |-> u] \in Forms
  /\ [NoForm EXCEPT !.what = "signing_out"] \in Forms
  /\ [NoForm EXCEPT !.what = "restoring"] \in Forms
  BY DEF NoForm, Forms

LEMMA SignInKeeps ==
  ASSUME SessionInv, NEW t \in Tabs, NEW u \in Users, SignIn(t, u)
  PROVE  SessionInv'
<1>1. UNCHANGED <<pairs, store, shared>>
  BY DEF SignIn
<1>2. form' = [form EXCEPT ![t] = [what |-> "signing_in", user |-> u]] \/ form' = form
  BY DEF SignIn
<1> DEFINE f == [what |-> "signing_in", user |-> u]
<1>3. f \in Forms
  BY FormsData
<1> HIDE DEF f
<1>4. FormData'
  BY <1>2, <1>3 DEF SessionInv, Data, FormData, f
<1>5. QED BY <1>1, <1>4, SamePairs, Calm DEF SessionInv, Data

LEMMA SignedInKeeps ==
  ASSUME SessionInv, NEW t \in Tabs, SignedIn(t)
  PROVE  SessionInv'
<1> DEFINE u == form[t].user
<1>1. u \in Users
  BY DEF SignedIn, SessionInv, Data, FormData, Forms
<1>2. /\ pairs' = Append(pairs, Issue(u))
      /\ store' = [access |-> Len(pairs) + 1, refresh |-> Len(pairs) + 1]
      /\ form' = [form EXCEPT ![t] = NoForm]
      /\ shared' = shared
  BY DEF SignedIn
<1> HIDE DEF u
<1>3. /\ PairData'
      /\ Len(pairs') = Len(pairs) + 1
      /\ pairs'[Len(pairs) + 1].refresh = "live"
      /\ \A n \in 1 .. Len(pairs) : pairs'[n] = pairs[n]
  BY <1>1, <1>2, Issued DEF SessionInv, Data, PairData
<1>4. FormData'
  BY <1>2, FormsData DEF SessionInv, Data, FormData
<1>5. store'.refresh = Len(pairs) + 1
  BY <1>2
<1>6. QED BY <1>2, <1>3, <1>4, <1>5, PairIssued

\* Steps that leave the pairs and the refreshes alone.
LEMMA QuietKeeps ==
  ASSUME SessionInv, UNCHANGED <<pairs, shared>>, FormData',
         store' = store \/ store' = NoTokens
  PROVE  SessionInv'
<1>1. PairData' /\ NoneIssued
  BY SamePairs DEF SessionInv, Data
<1>2. store'.refresh \in {store.refresh, 0}
  BY NoTokensData
<1>3. QED BY <1>1, <1>2, Calm

LEMMA SignOutKeeps ==
  ASSUME SessionInv, NEW t \in Tabs, SignOut(t) \/ SignInFails(t) \/ Restored(t)
  PROVE  SessionInv'
<1>1. /\ UNCHANGED <<pairs, shared>>
      /\ store' = store \/ store' = NoTokens
      /\ \/ form' = form
         \/ form' = [form EXCEPT ![t] = NoForm]
         \/ form' = [form EXCEPT ![t] = [NoForm EXCEPT !.what = "signing_out"]]
  BY DEF SignOut, SignInFails, Restored, Leave
<1> DEFINE f == [NoForm EXCEPT !.what = "signing_out"]
<1>2. f \in Forms /\ NoForm \in Forms
  BY FormsData
<1>3. form' = form \/ form' = [form EXCEPT ![t] = NoForm] \/ form' = [form EXCEPT ![t] = f]
  BY <1>1
<1> HIDE DEF f
<1>4. FormData'
  BY <1>2, <1>3 DEF SessionInv, Data, FormData
<1>5. QED BY <1>1, <1>4, QuietKeeps

LEMMA AskKeeps ==
  ASSUME SessionInv, NEW r \in Requests, Ask(r) \/ Answered(r)
  PROVE  SessionInv'
<1>1. UNCHANGED <<pairs, store, form, shared>>
  BY DEF Ask, Answered
<1>2. FormData'
  BY <1>1 DEF SessionInv, Data, FormData
<1>3. QED BY <1>1, <1>2, QuietKeeps

LEMMA FailsKeeps ==
  ASSUME SessionInv, NEW r \in Requests, Fails(r)
  PROVE  SessionInv'
<1>1. /\ UNCHANGED <<pairs, shared>>
      /\ store' = store \/ store' = NoTokens
      /\ form' = [t \in Tabs |-> IF t \in {r} THEN NoForm ELSE form[t]]
  BY DEF Fails, Reject
<1>2. FormData'
  BY <1>1, FormsData DEF SessionInv, Data, FormData
<1>3. QED BY <1>1, <1>2, QuietKeeps

LEMMA ExpireForm ==
  ASSUME FormData, NEW t \in Tabs, NEW R, Expire(t, R)
  PROVE  FormData' /\ store' = NoTokens
<1>1. form' = [form EXCEPT ![t] = IF t \in R THEN NoForm ELSE form[t]]
  BY DEF Expire
<1>2. QED BY <1>1, FormsData DEF Expire, Leave, FormData

LEMMA HereIsTab ==
  ASSUME NEW r \in Requests
  PROVE  Here(r) \in Tabs
  BY SessionParameters DEF Here, Requests

LEMMA DeniedKeeps ==
  ASSUME SessionInv, NEW r \in Requests, Denied(r)
  PROVE  SessionInv'
<1> DEFINE t == Here(r)
<1>1. t \in Tabs /\ UNCHANGED pairs
  BY HereIsTab DEF Denied
<1>2. \/ UNCHANGED <<store, form, shared>>
      \/ Expire(t, {r}) /\ UNCHANGED shared
      \/ /\ shared[t] = NoRefresh /\ store.refresh # 0
         /\ shared' = [shared EXCEPT ![t] = [step |-> "asked", old |-> store.refresh, new |-> 0]]
         /\ UNCHANGED <<store, form>>
  BY DEF Denied
<1> HIDE DEF t
<1>3. CASE UNCHANGED <<store, form, shared>>
  <2>1. FormData'
    BY <1>3 DEF SessionInv, Data, FormData
  <2>2. QED BY <1>1, <1>3, <2>1, QuietKeeps
<1>4. CASE Expire(t, {r}) /\ UNCHANGED shared
  <2>1. FormData
    BY DEF SessionInv, Data
  <2>2. FormData' /\ store' = NoTokens
    BY <1>1, <1>4, <2>1, ExpireForm
  <2>3. QED BY <1>1, <1>4, <2>2, QuietKeeps
<1>5. CASE /\ shared[t] = NoRefresh /\ store.refresh # 0
           /\ shared' = [shared EXCEPT ![t] = [step |-> "asked", old |-> store.refresh, new |-> 0]]
           /\ UNCHANGED <<store, form>>
  <2> DEFINE start == [step |-> "asked", old |-> store.refresh, new |-> 0]
  <2>1. store.refresh \in Nat /\ store.refresh \in 1 .. Len(pairs)
    BY <1>5 DEF SessionInv, Data, PairData, Names, Known
  <2>2. start \in Refreshes /\ start.step = "asked" /\ start.old = store.refresh /\ start.new = 0
    BY <2>1, StartData
  <2> HIDE DEF start
  <2>3. shared' = [shared EXCEPT ![t] = start]
    BY <1>5 DEF start
  <2>4. SharedData' /\ shared'[t] = start /\ \A u \in Tabs : u # t => shared'[u] = shared[u]
    BY <1>1, <2>2, <2>3 DEF SessionInv, Data, SharedData
  <2>5. FormData'
    BY <1>5 DEF SessionInv, Data, FormData
  <2>6. pairs[store.refresh].refresh # t
    BY <1>1, <1>5, NoRefreshData DEF SessionInv, Replaced, Tag
  <2>7. shared[t].step = "none"
    BY <1>5, NoRefreshData
  <2>8. Known(store.refresh)
    BY DEF SessionInv, Names
  <2>9. QED BY <1>1, <1>5, <2>2, <2>4, <2>5, <2>6, <2>7, <2>8, SharedMoves
<1>6. QED BY <1>2, <1>3, <1>4, <1>5

LEMMA SignedOutKeeps ==
  ASSUME SessionInv, NEW t \in Tabs, SignedOut(t)
  PROVE  SessionInv'
<1> DEFINE n == sent[t].body
<1>1. /\ form' = [form EXCEPT ![t] = NoForm]
      /\ store' = NoTokens
      /\ shared' = shared
      /\ pairs' = pairs \/ pairs' = [pairs EXCEPT ![n].refresh = "ended"]
  BY DEF SignedOut, Leave
<1>2. FormData'
  BY <1>1, FormsData DEF SessionInv, Data, FormData
<1>3. pairs \in Seq(Pairs) /\ DOMAIN pairs = 1 .. Len(pairs)
  BY DEF SessionInv, Data, PairData
<1>4. CASE pairs' = pairs
  BY <1>1, <1>2, <1>4, QuietKeeps
<1>5. CASE pairs' = [pairs EXCEPT ![n].refresh = "ended"] /\ n \in 1 .. Len(pairs)
  <2>1. "ended" \in Tags
    BY DEF Tags
  <2>2. PairData' /\ NoneIssued
    BY <1>3, <1>5, <2>1, Retagged DEF PairData, NoneIssued
  <2>3. store'.refresh = 0
    BY <1>1, NoTokensData
  <2>4. QED BY <1>1, <1>2, <2>2, <2>3, Calm
<1>6. CASE pairs' = [pairs EXCEPT ![n].refresh = "ended"] /\ n \notin 1 .. Len(pairs)
  <2>1. pairs' = pairs
    BY <1>3, <1>6
  <2>2. QED BY <1>4, <2>1
<1>7. QED BY <1>1, <1>4, <1>5, <1>6

LEMMA AgesKeeps ==
  ASSUME SessionInv, NEW n \in DOMAIN pairs, AccessExpires(n)
  PROVE  SessionInv'
<1>1. n \in 1 .. Len(pairs) /\ PairData
  BY DEF SessionInv, Data, PairData
<1>2. pairs' = [pairs EXCEPT ![n].access = "stale"] /\ UNCHANGED <<store, form, shared>>
  BY DEF AccessExpires
<1>3. PairData' /\ NoneIssued
  BY <1>1, <1>2, Aged DEF PairData, NoneIssued
<1>4. FormData'
  BY <1>2 DEF SessionInv, Data, FormData
<1>5. QED BY <1>2, <1>3, <1>4, Calm

LEMMA ReloadKeeps ==
  ASSUME SessionInv, NEW t \in Tabs, Reload(t)
  PROVE  SessionInv'
<1> DEFINE n == shared[t].old
           tagged == [m \in DOMAIN pairs |-> IF pairs[m].refresh = t
                        THEN [pairs[m] EXCEPT !.refresh = "ended"] ELSE pairs[m]]
           f == [NoForm EXCEPT !.what = "restoring"]
<1>1. /\ \/ pairs' = tagged
         \/ /\ shared[t].step = "asked"
            /\ pairs' = Append([tagged EXCEPT ![n].refresh = "ended"], Issue(Owner(n)))
      /\ shared' = [shared EXCEPT ![t] = NoRefresh]
      /\ form' = [form EXCEPT ![t] = NoForm] \/ form' = [form EXCEPT ![t] = f]
      /\ UNCHANGED store
  BY DEF Reload
<1>2. /\ tagged \in Seq(Pairs)
      /\ Len(tagged) = Len(pairs)
      /\ \A m \in 1 .. Len(pairs) : tagged[m].refresh = IF pairs[m].refresh = t THEN "ended"
                                                        ELSE pairs[m].refresh
  <2>1. PairData
    BY DEF SessionInv, Data
  <2>2. QED BY <2>1, Untagged
<1> HIDE DEF tagged
<1>3. shared[t].step = "asked" => n \in 1 .. Len(pairs)
  BY DEF SessionInv, Data, PairData, Names, Known
<1>4. n \in 1 .. Len(pairs) => Owner(n) \in Users
  <2>1. ASSUME n \in 1 .. Len(pairs) PROVE pairs[n].user \in Users
    <3>1. pairs[n] \in Pairs
      BY <2>1, PairAt DEF SessionInv, Data
    <3>2. QED BY <3>1 DEF Pairs
  <2>2. QED BY <2>1 DEF Owner
<1>5. f \in Forms /\ NoForm \in Forms
  BY FormsData
<1> HIDE DEF f, n
<1>6. FormData'
  BY <1>1, <1>5 DEF SessionInv, Data, FormData
<1>7. SharedData' /\ shared'[t] = NoRefresh /\ \A u \in Tabs : u # t => shared'[u] = shared[u]
  BY <1>1, NoRefreshData DEF SessionInv, Data, SharedData
<1>8. /\ PairData'
      /\ Len(pairs') \in {Len(pairs), Len(pairs) + 1}
      /\ \A m \in 1 .. Len(pairs) : /\ pairs'[m].refresh \in {pairs[m].refresh, "ended"}
                                    /\ pairs'[m].refresh # t
  <2>1. CASE pairs' = tagged
    BY <1>2, <2>1, Distinct DEF PairData
  <2>2. CASE /\ shared[t].step = "asked"
             /\ pairs' = Append([tagged EXCEPT ![n].refresh = "ended"], Issue(Owner(n)))
    <3> DEFINE ps == [tagged EXCEPT ![n].refresh = "ended"]
    <3>1. "ended" \in Tags /\ n \in 1 .. Len(tagged)
      BY <1>2, <1>3, <2>2 DEF Tags
    <3>2. /\ ps \in Seq(Pairs) /\ Len(ps) = Len(pairs)
          /\ ps[n].refresh = "ended"
          /\ \A m \in 1 .. Len(pairs) : m # n => ps[m] = tagged[m]
      BY <1>2, <3>1, Retagged
    <3>3. pairs' = Append(ps, Issue(Owner(n))) /\ Owner(n) \in Users
      BY <1>2, <1>4, <2>2, <3>1
    <3> HIDE DEF ps
    <3>4. /\ pairs' \in Seq(Pairs)
          /\ Len(pairs') = Len(pairs) + 1
          /\ \A m \in 1 .. Len(pairs) : pairs'[m] = ps[m]
      BY <3>2, <3>3, Issued
    <3>5. ASSUME NEW m \in 1 .. Len(pairs)
          PROVE  pairs'[m].refresh \in {pairs[m].refresh, "ended"} /\ pairs'[m].refresh # t
      BY <1>2, <3>2, <3>4, Distinct
    <3>6. QED BY <3>4, <3>5 DEF PairData
  <2>3. QED BY <1>1, <2>1, <2>2
<1>9. QED BY <1>1, <1>6, <1>7, <1>8, Reloads

LEMMA SettleKeeps ==
  ASSUME SessionInv, NEW t \in Tabs, Settle(t)
  PROVE  SessionInv'
<1> SharedData /\ FormData /\ PairData
  BY DEF SessionInv, Data
<1>1. {"granted", "lost", "refused"} \subseteq RefreshSteps /\ 0 \in Nat
  BY DEF RefreshSteps
<1>2. ASSUME NEW step \in {"lost", "refused"}, shared[t].step = "asked",
             shared' = Refresh(t, step, 0), UNCHANGED <<pairs, store, form>>
      PROVE  SessionInv'
  <2>1. /\ SharedData' /\ shared'[t].step = step
        /\ shared'[t].old = shared[t].old /\ shared'[t].new = 0
        /\ \A u \in Tabs : u # t => shared'[u] = shared[u]
    BY <1>1, <1>2, RefreshData DEF SharedData
  <2>2. /\ Known(shared[t].old) /\ shared[t].old # 0
        /\ pairs[shared[t].old].refresh # t
    BY <1>2 DEF SessionInv, Names, Honest, Tag
  <2>3. FormData'
    BY <1>2 DEF FormData
  <2>4. QED BY <1>2, <2>1, <2>2, <2>3, SharedMoves
<1>3. CASE RefreshServed(t)
  <2> DEFINE old == shared[t].old
             n == Len(pairs) + 1
  <2>1. shared[t].step = "asked" /\ UNCHANGED <<store, form>>
    BY <1>3 DEF RefreshServed
  <2>2. CASE pairs[old].refresh # "live"
    <3>1. shared' = Refresh(t, "refused", 0) /\ UNCHANGED pairs
      BY <1>3, <2>2 DEF RefreshServed
    <3>2. QED BY <1>2, <2>1, <3>1
  <2>3. CASE pairs[old].refresh = "live"
    <3>1. /\ pairs' = Append([pairs EXCEPT ![old].refresh = t], Issue(Owner(old)))
          /\ shared' = Refresh(t, "granted", n) \/ shared' = Refresh(t, "lost", 0)
      BY <1>3, <2>3 DEF RefreshServed
    <3>2. /\ old \in 1 .. Len(pairs) /\ t \in Tags
          /\ pairs \in Seq(Pairs) /\ n \in Nat
      BY <2>1 DEF SessionInv, PairData, Names, Known, Tags
    <3>3. Owner(old) \in Users
      <4>1. pairs[old] \in Pairs
        BY <3>2
      <4>2. pairs[old].user \in Users
        BY <4>1 DEF Pairs
      <4>3. QED BY <3>2, <4>2 DEF Owner
    <3> DEFINE ps == [pairs EXCEPT ![old].refresh = t]
    <3> HIDE DEF old, n
    <3>4. /\ ps \in Seq(Pairs) /\ Len(ps) = Len(pairs)
          /\ ps[old].refresh = t
          /\ \A m \in 1 .. Len(pairs) : m # old => ps[m] = pairs[m]
      BY <3>2, Retagged
    <3>5. pairs' = Append(ps, Issue(Owner(old)))
      BY <3>1
    <3> HIDE DEF ps
    <3>6. /\ pairs' \in Seq(Pairs)
          /\ Len(pairs') = Len(pairs) + 1
          /\ pairs'[Len(pairs) + 1].refresh = "live"
          /\ \A m \in 1 .. Len(pairs) : pairs'[m] = ps[m]
      BY <3>3, <3>4, <3>5, Issued
    <3>7. /\ SharedData' /\ shared'[t].old = old
          /\ \/ shared'[t].step = "granted" /\ shared'[t].new = Len(pairs) + 1
             \/ shared'[t].step = "lost" /\ shared'[t].new = 0
          /\ \A u \in Tabs : u # t => shared'[u] = shared[u]
      BY <1>1, <3>1, <3>2, RefreshData DEF SharedData, old, n
    <3>8. /\ pairs'[old].refresh = t
          /\ \A m \in 1 .. Len(pairs) : m # old => pairs'[m].refresh = pairs[m].refresh
      BY <3>2, <3>4, <3>6
    <3>9. QED BY <2>1, <3>6, <3>7, <3>8, Rotates DEF PairData, old
  <2>4. QED BY <2>2, <2>3
<1>4. CASE RefreshUnsent(t)
  BY <1>2, <1>4 DEF RefreshUnsent
<1>5. ASSUME shared' = [shared EXCEPT ![t] = NoRefresh], UNCHANGED pairs, FormData',
             \/ store'.refresh = 0
             \/ shared[t].step = "granted" /\ store'.refresh = shared[t].new
      PROVE  SessionInv'
  <2>1. SharedData' /\ shared'[t] = NoRefresh /\ \A u \in Tabs : u # t => shared'[u] = shared[u]
    BY <1>5, NoRefreshData DEF SharedData
  <2>2. Known(0)
    BY DEF Known, PairData
  <2>3. QED BY <1>5, <2>1, <2>2, NoRefreshData, SharedMoves
<1>6. CASE Refreshed(t)
  <2>1. /\ shared[t].step = "granted"
        /\ store' = Stored(shared[t].new)
        /\ shared' = [shared EXCEPT ![t] = NoRefresh]
        /\ UNCHANGED <<pairs, form>>
    BY <1>6 DEF Refreshed
  <2>2. store'.refresh = shared[t].new
    BY <2>1, StoredData
  <2>3. FormData'
    BY <2>1 DEF FormData
  <2>4. QED BY <1>5, <2>1, <2>2, <2>3
<1>7. CASE RefreshFails(t)
  <2>1. /\ Expire(t, Waiting(t))
        /\ shared' = [shared EXCEPT ![t] = NoRefresh]
        /\ UNCHANGED pairs
    BY <1>7 DEF RefreshFails
  <2>2. FormData' /\ store'.refresh = 0
    BY <2>1, ExpireForm, NoTokensData
  <2>3. QED BY <1>5, <2>1, <2>2
<1>8. QED BY <1>3, <1>4, <1>6, <1>7 DEF Settle

-----------------------------------------------------------------------------
(* Whose data a tab holds. *)

Sends(n) ==
  [step : {"idle", "asked", "waiting", "again"}, token : 0 .. n, body : 0 .. n, kept : BOOLEAN]

MoreData ==
  /\ Len(pairs) <= MaxPairs
  /\ store \in [access : 0 .. Len(pairs), refresh : 0 .. Len(pairs)]
  /\ shown \in [Tabs -> Users \cup {Nobody}]
  /\ sent \in [Requests -> Sends(Len(pairs))]
  /\ cache \in [Tabs -> SUBSET Users]
  /\ strayed \in [Tabs -> SUBSET Users]
  /\ \A t \in Tabs : shared[t].step = "none" => shared[t].old = 0

\* Whose data tab t may hold.
Mine(t) == {shown[t]} \cup strayed[t]

\* A page load shows nobody until the session is restored.
Restoring == \A t \in Tabs : form[t].what = "restoring" => shown[t] = Nobody

\* A tab without a user has met nobody.
ClearScreen == \A t \in Tabs : shown[t] = Nobody => strayed[t] = {}

Kept(r) == sent[r].step # "idle" /\ sent[r].kept

\* A query whose answer is kept carries a token of the tab's user, or of one it has met.
OwnFetch(r) ==
  Kept(r) => /\ shown[Here(r)] # Nobody
             /\ sent[r].token # 0 => Owner(sent[r].token) \in Mine(Here(r))

OwnFetches == \A r \in Fetches : OwnFetch(r)

OInv == SessionInv /\ MoreData /\ Restoring /\ ClearScreen /\ OwnFetches /\ OwnData

\* What a step makes of a tab: it stays with its user and adds one answer at most; or it
\* forgets all it holds and asked for; or it learns whom it restores.
Stays(t) ==
  /\ shown'[t] = shown[t]
  /\ \/ cache'[t] = cache[t]
     \/ \E r \in Fetches : /\ Here(r) = t /\ Kept(r) /\ Accepted(sent[r].token)
                           /\ cache'[t] = cache[t] \cup {Owner(sent[r].token)}

Forgets(t) ==
  /\ cache'[t] = {}
  /\ \A r \in Fetches : Here(r) = t => ~Kept(r)'

Learns(t) ==
  /\ shown[t] = Nobody
  /\ cache'[t] = cache[t]

TabStep(t) == Stays(t) \/ Forgets(t) \/ Learns(t)

\* What it makes of a query that is kept: it was kept before, with the same token or none,
\* or it is given the stored one; either way its tab shows a user.
FetchStep(r) ==
  Kept(r)' =>
    /\ Kept(r) \/ shown[Here(r)] # Nobody
    /\ \/ Kept(r) /\ sent'[r].token \in {sent[r].token, 0}
       \/ sent'[r].token = store'.access

\* What it makes of the pairs.
OwnersKept ==
  /\ Len(pairs') \in {Len(pairs), Len(pairs) + 1}
  /\ Len(pairs') <= MaxPairs
  /\ \A n \in 1 .. Len(pairs) : pairs'[n].user = pairs[n].user

LEMMA SessionBounds == MaxPairs \in Nat /\ Nobody \notin Users /\ Tabs \cap Fetches = {}
  BY SessionParameters DEF Nobody

LEMMA PairCount ==
  ASSUME PairData
  PROVE  Len(pairs) \in Nat /\ DOMAIN pairs = 1 .. Len(pairs)
  BY DEF PairData

LEMMA OwnerIsUser ==
  ASSUME PairData, NEW n \in 1 .. Len(pairs)
  PROVE  Owner(n) \in Users /\ Owner(n) = pairs[n].user
<1>1. pairs[n] \in Pairs
  BY PairAt
<1>2. n # 0
  BY PairCount
<1>3. QED BY <1>1, <1>2 DEF Pairs, Owner

LEMMA AskedData ==
  ASSUME NEW n \in Nat, NEW a \in 0 .. n, NEW b \in 0 .. n
  PROVE  /\ [Unsent EXCEPT !.step = "asked", !.token = a] \in Sends(n)
         /\ [Unsent EXCEPT !.step = "asked", !.token = a].token = a
         /\ [Unsent EXCEPT !.step = "asked", !.token = a, !.body = b] \in Sends(n)
<1>1. 0 \in 0 .. n
  OBVIOUS
<1>2. [Unsent EXCEPT !.step = "asked", !.token = a] \in Sends(n)
  BY <1>1 DEF Unsent, Sends
<1>3. [Unsent EXCEPT !.step = "asked", !.token = a].token = a
  BY DEF Unsent
<1>4. [Unsent EXCEPT !.step = "asked", !.token = a, !.body = b] \in Sends(n)
  BY DEF Unsent, Sends
<1>5. QED BY <1>2, <1>3, <1>4

LEMMA UnkeptData ==
  ASSUME NEW n \in Nat, NEW s \in Sends(n)
  PROVE  [s EXCEPT !.kept = FALSE] \in Sends(n) /\ ~[s EXCEPT !.kept = FALSE].kept
<1>1. [s EXCEPT !.kept = FALSE] \in Sends(n)
  BY DEF Sends
<1>2. ~[s EXCEPT !.kept = FALSE].kept
  BY DEF Sends
<1>3. QED BY <1>1, <1>2

LEMMA UnsentData ==
  ASSUME NEW n \in Nat
  PROVE  /\ Unsent \in Sends(n) /\ [Unsent EXCEPT !.kept = FALSE] \in Sends(n)
         /\ Unsent.step = "idle" /\ [Unsent EXCEPT !.kept = FALSE].step = "idle"
<1>1. Unsent \in Sends(n) /\ Unsent.step = "idle"
  BY DEF Unsent, Sends
<1>2. [Unsent EXCEPT !.kept = FALSE] \in Sends(n)
  BY <1>1, UnkeptData
<1>3. [Unsent EXCEPT !.kept = FALSE].step = "idle"
  BY DEF Unsent
<1>4. QED BY <1>1, <1>2, <1>3

LEMMA RetriedData ==
  ASSUME NEW n \in Nat, NEW s \in Sends(n), NEW a \in 0 .. n
  PROVE  /\ [s EXCEPT !.step = "waiting", !.token = a] \in Sends(n)
         /\ [s EXCEPT !.step = "again", !.token = a] \in Sends(n)
  BY DEF Sends

LEMMA SendsGrow ==
  ASSUME NEW n \in Nat, NEW m \in {n, n + 1}
  PROVE  Sends(n) \subseteq Sends(m)
<1>1. 0 .. n \subseteq 0 .. m
  OBVIOUS
<1>2. QED BY <1>1 DEF Sends

\* What a step has to show.
StoreStep == store' = store \/ store' = NoTokens \/ \E n \in 1 .. Len(pairs') : store' = Stored(n)

ScreenStep ==
  /\ shown' \in [Tabs -> Users \cup {Nobody}]
  /\ cache' \in [Tabs -> SUBSET Users]
  /\ Restoring'
  /\ \A t \in Tabs : TabStep(t)

SentStep ==
  /\ sent' \in [Requests -> Sends(Len(pairs'))]
  /\ \A r \in Fetches : FetchStep(r)

SharedStep == \A t \in Tabs : shared'[t].step = "none" => shared'[t].old = 0

Shows == OwnersKept /\ StoreStep /\ ScreenStep /\ SentStep /\ SharedStep

LEMMA OInvData ==
  ASSUME OInv
  PROVE  /\ PairData /\ FormData /\ SharedData /\ Len(pairs) \in Nat /\ DOMAIN pairs = 1 .. Len(pairs)
         /\ store.access \in 0 .. Len(pairs) /\ store.refresh \in 0 .. Len(pairs)
         /\ shown \in [Tabs -> Users \cup {Nobody}]
         /\ sent \in [Requests -> Sends(Len(pairs))]
         /\ cache \in [Tabs -> SUBSET Users]
         /\ strayed \in [Tabs -> SUBSET Users]
         /\ Restoring /\ Fetches \subseteq Requests /\ Tabs \subseteq Requests
  BY PairCount DEF OInv, SessionInv, Data, MoreData, Requests

LEMMA PairsStay ==
  ASSUME OInv, UNCHANGED pairs
  PROVE  OwnersKept
  BY OInvData, SessionBounds DEF OwnersKept, OInv, MoreData

LEMMA SharedStays ==
  ASSUME OInv, UNCHANGED shared
  PROVE  SharedStep
  BY DEF SharedStep, OInv, MoreData

LEMMA SharedEnds ==
  ASSUME OInv, NEW t \in Tabs, shared' = [shared EXCEPT ![t] = NoRefresh]
  PROVE  SharedStep
  BY OInvData, NoRefreshData DEF SharedStep, OInv, MoreData, SharedData

LEMMA ScreenStays ==
  ASSUME OInv, UNCHANGED <<shown, cache>>,
         \A t \in Tabs : form'[t] = form[t] \/ form'[t].what # "restoring"
  PROVE  ScreenStep
  BY OInvData DEF ScreenStep, Restoring, TabStep, Stays

\* A query goes on as it was, or is finished, or its answer is wanted no more.
Fades(r) ==
  sent'[r] \in {sent[r], Unsent, [sent[r] EXCEPT !.kept = FALSE], [Unsent EXCEPT !.kept = FALSE]}

LEMMA SentFades ==
  ASSUME OInv, OwnersKept, sent' = [r \in Requests |-> sent'[r]],
         \A r \in Requests : \/ sent'[r] \in Sends(Len(pairs)) /\ r \in Tabs
                             \/ Fades(r)
  PROVE  SentStep
<1>1. Sends(Len(pairs)) \subseteq Sends(Len(pairs'))
  BY OInvData, SendsGrow DEF OwnersKept
<1>2. ASSUME NEW r \in Requests
      PROVE  sent'[r] \in Sends(Len(pairs)) /\ (Fades(r) => FetchStep(r))
  <2>1. sent[r] \in Sends(Len(pairs))
    BY OInvData
  <2>2. CASE sent'[r] = Unsent
    BY <2>2, OInvData, UnsentData DEF FetchStep, Kept
  <2>3. CASE sent'[r] = [sent[r] EXCEPT !.kept = FALSE]
    <3>1. sent'[r] \in Sends(Len(pairs)) /\ ~sent'[r].kept
      BY <2>1, <2>3, OInvData, UnkeptData
    <3>2. QED BY <3>1 DEF FetchStep, Kept
  <2>4. CASE sent'[r] = [Unsent EXCEPT !.kept = FALSE]
    <3>1. sent'[r] \in Sends(Len(pairs)) /\ sent'[r].step = "idle"
      BY <2>4, OInvData, UnsentData
    <3>2. QED BY <3>1 DEF FetchStep, Kept
  <2>5. CASE sent'[r] = sent[r]
    BY <2>1, <2>5 DEF FetchStep, Kept
  <2>6. CASE sent'[r] \in Sends(Len(pairs)) /\ ~Fades(r)
    BY <2>6
  <2>7. QED BY <2>2, <2>3, <2>4, <2>5, <2>6 DEF Fades
<1>3. sent' \in [Requests -> Sends(Len(pairs'))]
  BY <1>1, <1>2
<1>4. \A r \in Fetches : FetchStep(r)
  BY <1>2, SessionBounds, OInvData
<1>5. QED BY <1>3, <1>4 DEF SentStep

LEMMA SentStays ==
  ASSUME OInv, OwnersKept, UNCHANGED sent
  PROVE  SentStep
  BY OInvData, SentFades DEF Fades

\* resetCache.
LEMMA ForgottenData ==
  ASSUME NEW t \in Tabs, NEW requests \in [Requests -> Sends(Len(pairs))], NEW r \in Requests,
         PairData
  PROVE  /\ Here(r) # t => Forgotten(t, requests)[r] = requests[r]
         /\ r \in Tabs => Forgotten(t, requests)[r] = requests[r]
         /\ Forgotten(t, requests)[r] \in {requests[r], [requests[r] EXCEPT !.kept = FALSE]}
         /\ r \notin Tabs /\ Here(r) = t => ~Forgotten(t, requests)[r].kept
<1>1. ~[requests[r] EXCEPT !.kept = FALSE].kept
  BY PairCount, UnkeptData
<1>2. QED BY <1>1 DEF Forgotten

\* A tab empties its cache and forgets its queries; others carry on.
LEMMA ResetSteps ==
  ASSUME OInv, OwnersKept, NEW t \in Tabs,
         NEW requests \in [Requests -> Sends(Len(pairs))],
         \A r \in Requests : requests[r] \in {sent[r], Unsent},
         cache' = Emptied(t), sent' = Forgotten(t, requests),
         shown' \in [Tabs -> Users \cup {Nobody}],
         \A u \in Tabs : u # t => shown'[u] = shown[u],
         \A u \in Tabs : \/ form'[u] = form[u] /\ shown'[u] \in {shown[u], Nobody}
                         \/ form'[u].what # "restoring"
  PROVE  ScreenStep /\ SentStep
<1>1. cache' \in [Tabs -> SUBSET Users] /\ cache'[t] = {} /\ \A u \in Tabs : u # t => cache'[u] = cache[u]
  BY OInvData DEF Emptied
<1>2. ASSUME NEW r \in Requests
      PROVE  /\ Fades(r)
             /\ r \in Fetches /\ Here(r) = t => ~Kept(r)'
  <2>1. sent'[r] \in {requests[r], [requests[r] EXCEPT !.kept = FALSE]}
    BY OInvData, ForgottenData
  <2>2. r \in Fetches /\ Here(r) = t => ~sent'[r].kept
    BY OInvData, ForgottenData, SessionBounds
  <2>3. Unsent.kept /\ [Unsent EXCEPT !.kept = FALSE].step = "idle"
    BY DEF Unsent
  <2>4. QED BY <2>1, <2>2, <2>3 DEF Fades, Kept
<1>3. SentStep
  BY <1>2, SentFades DEF Forgotten
<1>4. \A u \in Tabs : TabStep(u)
  BY <1>1, <1>2, OInvData DEF TabStep, Stays, Forgets
<1>5. Restoring'
  BY OInvData DEF Restoring
<1>6. QED BY <1>1, <1>3, <1>4, <1>5 DEF ScreenStep

-----------------------------------------------------------------------------
(* Each action shows it. *)

LEMMA SignInShows ==
  ASSUME OInv, NEW t \in Tabs, NEW u \in Users, SignIn(t, u)
  PROVE  Shows
<1>1. /\ UNCHANGED <<pairs, store, shown, shared>>
      /\ cache' = Emptied(t) /\ sent' = Forgotten(t, sent)
      /\ \/ form' = form
         \/ form' = [form EXCEPT ![t] = [what |-> "signing_in", user |-> u]]
  BY DEF SignIn
<1>2. \A v \in Tabs : form'[v] = form[v] \/ form'[v].what # "restoring"
  BY <1>1, OInvData DEF FormData
<1>3. ScreenStep /\ SentStep
  BY <1>1, <1>2, OInvData, PairsStay, ResetSteps
<1>4. QED BY <1>1, <1>3, PairsStay, SharedStays DEF Shows, StoreStep

LEMMA SignedInShows ==
  ASSUME OInv, NEW t \in Tabs, SignedIn(t)
  PROVE  Shows
<1> DEFINE u == form[t].user
           n == Len(pairs) + 1
<1>1. /\ n <= MaxPairs
      /\ pairs' = Append(pairs, Issue(u))
      /\ store' = [access |-> n, refresh |-> n]
      /\ shown' = [shown EXCEPT ![t] = u]
      /\ form' = [form EXCEPT ![t] = NoForm]
      /\ cache' = Emptied(t)
      /\ sent' = Forgotten(t, sent)
      /\ UNCHANGED shared
  BY DEF SignedIn
<1>2. u \in Users
  BY OInvData DEF SignedIn, FormData, Forms
<1> HIDE DEF u
<1>3. OwnersKept /\ Len(pairs') = n
  BY <1>1, <1>2, OInvData, Issued DEF OwnersKept, PairData
<1>4. NoForm.what = "none"
  BY DEF NoForm
<1>5. ScreenStep /\ SentStep
  BY <1>1, <1>2, <1>3, <1>4, OInvData, ResetSteps DEF FormData
<1>6. StoreStep
  BY <1>1, <1>3, OInvData DEF StoreStep, Stored
<1>7. QED BY <1>1, <1>3, <1>5, <1>6, SharedStays DEF Shows

LEMMA SignInFailsShows ==
  ASSUME OInv, NEW t \in Tabs, SignInFails(t)
  PROVE  Shows
<1>1. UNCHANGED <<pairs, store, shown, shared, sent, cache>> /\ form' = [form EXCEPT ![t] = NoForm]
  BY DEF SignInFails
<1>2. \A v \in Tabs : form'[v] = form[v] \/ form'[v].what # "restoring"
  BY <1>1, OInvData DEF FormData, NoForm
<1>3. QED BY <1>1, <1>2, PairsStay, SharedStays, ScreenStays, SentStays DEF Shows, StoreStep

LEMMA SignOutShows ==
  ASSUME OInv, NEW t \in Tabs, SignOut(t)
  PROVE  Shows
<1>1. CASE Leave(t, sent) /\ UNCHANGED <<form, pairs, shared>>
  <2>1. /\ store' = NoTokens /\ cache' = Emptied(t) /\ sent' = Forgotten(t, sent)
        /\ shown' = [shown EXCEPT ![t] = Nobody]
    BY <1>1 DEF Leave
  <2>2. ScreenStep /\ SentStep
    BY <1>1, <2>1, OInvData, PairsStay, ResetSteps
  <2>3. QED BY <1>1, <2>1, <2>2, PairsStay, SharedStays DEF Shows, StoreStep
<1>2. CASE /\ sent' = [sent EXCEPT ![t] = [Unsent EXCEPT !.step = "asked", !.token = store.access,
                                                         !.body = store.refresh]]
           /\ form' = [form EXCEPT ![t] = [NoForm EXCEPT !.what = "signing_out"]]
           /\ UNCHANGED <<pairs, shared, store, shown, cache>>
  <2> DEFINE s == [Unsent EXCEPT !.step = "asked", !.token = store.access, !.body = store.refresh]
             f == [NoForm EXCEPT !.what = "signing_out"]
  <2>1. s \in Sends(Len(pairs))
    BY OInvData, AskedData
  <2>2. f.what # "restoring"
    BY DEF NoForm
  <2>3. sent' = [sent EXCEPT ![t] = s] /\ form' = [form EXCEPT ![t] = f]
    BY <1>2
  <2> HIDE DEF s, f
  <2>4. \A r \in Requests : sent'[r] = IF r = t THEN s ELSE sent[r]
    BY <2>3, OInvData
  <2>5. SentStep
    BY <1>2, <2>1, <2>3, <2>4, OInvData, PairsStay, SentFades DEF Fades
  <2>6. \A v \in Tabs : form'[v] = form[v] \/ form'[v].what # "restoring"
    BY <2>2, <2>3, OInvData DEF FormData
  <2>7. QED BY <1>2, <2>5, <2>6, PairsStay, SharedStays, ScreenStays DEF Shows, StoreStep
<1>3. QED BY <1>1, <1>2 DEF SignOut

LEMMA ReloadShows ==
  ASSUME OInv, NEW t \in Tabs, Reload(t)
  PROVE  Shows
<1> DEFINE n == shared[t].old
           tagged == [m \in DOMAIN pairs |-> IF pairs[m].refresh = t
                        THEN [pairs[m] EXCEPT !.refresh = "ended"] ELSE pairs[m]]
           fresh == [r \in Requests |-> IF Here(r) = t THEN Unsent ELSE sent[r]]
           ps == [tagged EXCEPT ![n].refresh = "ended"]
           s == [Unsent EXCEPT !.step = "asked", !.token = store.access]
           f == [NoForm EXCEPT !.what = "restoring"]
<1>1. /\ \/ pairs' = tagged
         \/ /\ shared[t].step = "asked" /\ Len(pairs) < MaxPairs
            /\ pairs' = Append(ps, Issue(Owner(n)))
      /\ shared' = [shared EXCEPT ![t] = NoRefresh]
      /\ shown' = [shown EXCEPT ![t] = Nobody]
      /\ cache' = Emptied(t)
      /\ \/ sent' = fresh /\ form' = [form EXCEPT ![t] = NoForm]
         \/ sent' = [fresh EXCEPT ![t] = s] /\ form' = [form EXCEPT ![t] = f]
      /\ UNCHANGED store
  BY DEF Reload
<1>2. /\ tagged \in Seq(Pairs) /\ Len(tagged) = Len(pairs)
      /\ \A m \in 1 .. Len(pairs) : tagged[m].user = pairs[m].user
  <2>1. ASSUME NEW m \in 1 .. Len(pairs)
        PROVE  [pairs[m] EXCEPT !.refresh = "ended"].user = pairs[m].user
    BY OInvData, PairAt DEF Pairs
  <2>2. QED BY <2>1, OInvData, Untagged
<1> HIDE DEF tagged
<1>3. OwnersKept
  <2>1. CASE pairs' = tagged
    BY <1>2, <2>1, OInvData DEF OwnersKept, OInv, MoreData
  <2>2. CASE /\ shared[t].step = "asked" /\ Len(pairs) < MaxPairs
             /\ pairs' = Append(ps, Issue(Owner(n)))
    <3>1. n \in 1 .. Len(pairs) /\ Owner(n) \in Users
      BY <2>2, OInvData, OwnerIsUser DEF OInv, SessionInv, Names, Known
    <3>2. /\ ps \in Seq(Pairs) /\ Len(ps) = Len(pairs)
          /\ \A m \in 1 .. Len(pairs) : ps[m].user = tagged[m].user
      <4>1. "ended" \in Tags
        BY DEF Tags
      <4>2. [tagged[n] EXCEPT !.refresh = "ended"].user = tagged[n].user
        <5>1. tagged[n] \in Pairs
          BY <1>2, <3>1
        <5>2. QED BY <5>1 DEF Pairs
      <4>3. ps = [tagged EXCEPT ![n] = [tagged[n] EXCEPT !.refresh = "ended"]]
        BY <1>2, <3>1
      <4>4. ps \in Seq(Pairs) /\ Len(ps) = Len(pairs)
        BY <1>2, <3>1, <4>1, Retagged
      <4>5. QED BY <1>2, <3>1, <4>2, <4>3, <4>4
    <3> HIDE DEF ps, n
    <3>3. QED BY <1>2, <2>2, <3>1, <3>2, OInvData, Issued, SessionBounds DEF OwnersKept
  <2>3. QED BY <1>1, <2>1, <2>2
<1>4. s \in Sends(Len(pairs)) /\ Unsent \in Sends(Len(pairs)) /\ f.what = "restoring"
      /\ Unsent.step = "idle" /\ NoForm.what = "none"
  BY OInvData, AskedData, UnsentData DEF NoForm
<1> HIDE DEF s, f
<1>5. sent' \in [Requests -> Sends(Len(pairs))]
  BY <1>1, <1>4, OInvData
<1>6. \A r \in Requests : (r \in Tabs /\ r = t) \/ sent'[r] = fresh[r]
  BY <1>1, OInvData
<1>7. SentStep
  BY <1>3, <1>5, <1>6, SentFades DEF Fades
<1>8. ScreenStep
  <2>1. cache' \in [Tabs -> SUBSET Users] /\ cache'[t] = {} /\ \A u \in Tabs : u # t => cache'[u] = cache[u]
    BY <1>1, OInvData DEF Emptied
  <2>2. \A r \in Fetches : Here(r) = t => sent'[r] = Unsent
    BY <1>6, SessionBounds, OInvData
  <2>3. Forgets(t)
    BY <1>4, <2>1, <2>2 DEF Forgets, Kept
  <2>4. \A u \in Tabs : u # t => Stays(u)
    BY <1>1, <2>1, OInvData DEF Stays
  <2>5. shown' \in [Tabs -> Users \cup {Nobody}] /\ Restoring'
    BY <1>1, OInvData DEF Restoring, FormData
  <2>6. QED BY <2>1, <2>3, <2>4, <2>5 DEF ScreenStep, TabStep
<1>9. QED BY <1>1, <1>3, <1>7, <1>8, SharedEnds DEF Shows, StoreStep

LEMMA RefreshServedShows ==
  ASSUME OInv, NEW t \in Tabs, RefreshServed(t) \/ RefreshUnsent(t)
  PROVE  Shows
<1> DEFINE old == shared[t].old
           n == Len(pairs) + 1
           ps == [pairs EXCEPT ![old].refresh = t]
<1>1. /\ shared[t].step = "asked"
      /\ \/ UNCHANGED pairs
         \/ n <= MaxPairs /\ pairs' = Append(ps, Issue(Owner(old)))
      /\ \E step \in {"granted", "lost", "refused"}, m \in {0, n} : shared' = Refresh(t, step, m)
      /\ UNCHANGED <<store, shown, form, sent, cache>>
  BY DEF RefreshServed, RefreshUnsent
<1>2. old \in 1 .. Len(pairs)
  BY <1>1, OInvData DEF OInv, SessionInv, Names, Known
<1>3. OwnersKept
  <2>1. CASE n <= MaxPairs /\ pairs' = Append(ps, Issue(Owner(old)))
    <3>1. t \in Tags /\ Owner(old) \in Users
      BY <1>2, OInvData, OwnerIsUser DEF Tags
    <3>2. ps \in Seq(Pairs) /\ Len(ps) = Len(pairs)
      BY <1>2, <3>1, OInvData, Retagged DEF PairData
    <3>3. \A m \in 1 .. Len(pairs) : ps[m].user = pairs[m].user
      <4>1. [pairs[old] EXCEPT !.refresh = t].user = pairs[old].user
        BY <1>2, OInvData, PairAt DEF Pairs
      <4>2. ps = [pairs EXCEPT ![old] = [pairs[old] EXCEPT !.refresh = t]]
        BY <1>2, OInvData
      <4>3. QED BY <1>2, <4>1, <4>2, OInvData
    <3> HIDE DEF ps, old
    <3>4. QED BY <2>1, <3>1, <3>2, <3>3, OInvData, Issued DEF OwnersKept
  <2>2. QED BY <1>1, <2>1, PairsStay
<1>4. SharedStep
  <2>1. PICK step \in {"granted", "lost", "refused"}, m \in {0, n} : shared' = Refresh(t, step, m)
    BY <1>1
  <2>2. shared'[t].step = step /\ \A u \in Tabs : u # t => shared'[u] = shared[u]
    <3>1. step \in RefreshSteps /\ m \in Nat
      BY OInvData DEF RefreshSteps
    <3>2. QED BY <2>1, <3>1, OInvData, RefreshData
  <2>3. QED BY <2>2 DEF SharedStep, OInv, MoreData
<1>5. QED BY <1>1, <1>3, <1>4, OInvData, ScreenStays, SentStays DEF Shows, StoreStep

LEMMA RefreshedShows ==
  ASSUME OInv, NEW t \in Tabs, Refreshed(t)
  PROVE  Shows
<1> DEFINE n == shared[t].new
<1>1. /\ shared[t].step = "granted"
      /\ store' = Stored(n)
      /\ sent' = Resent(t, n)
      /\ shared' = [shared EXCEPT ![t] = NoRefresh]
      /\ UNCHANGED <<pairs, shown, form, cache>>
  BY DEF Refreshed
<1>2. n \in 1 .. Len(pairs)
  BY <1>1, OInvData DEF OInv, SessionInv, Names, Known
<1> HIDE DEF n
<1>3. ASSUME NEW r \in Requests
      PROVE  sent'[r] \in Sends(Len(pairs)) /\ FetchStep(r)
  <2>1. sent[r] \in Sends(Len(pairs))
    BY OInvData
  <2>2. CASE r \in Waiting(t)
    <3>1. /\ sent'[r] \in Sends(Len(pairs)) /\ sent'[r].token = n /\ sent'[r].kept = sent[r].kept
      <4> DEFINE s == [sent[r] EXCEPT !.step = "again", !.token = n]
      <4>1. s \in Sends(Len(pairs))
        <5>1. n \in 0 .. Len(pairs) /\ Len(pairs) \in Nat
          BY <1>2, OInvData
        <5>2. QED BY <2>1, <5>1, RetriedData
      <4>2. s.token = n
        BY <2>1 DEF Sends
      <4>3. s.kept = sent[r].kept
        BY <2>1 DEF Sends
      <4>4. sent'[r] = s
        BY <1>1, <2>2 DEF Resent
      <4> HIDE DEF s
      <4>5. QED BY <4>1, <4>2, <4>3, <4>4
    <3>2. sent[r].step = "waiting"
      BY <2>2 DEF Waiting
    <3>3. store'.access = n
      BY <1>1 DEF Stored
    <3>4. QED BY <3>1, <3>2, <3>3 DEF FetchStep, Kept
  <2>3. CASE r \notin Waiting(t)
    BY <1>1, <2>1, <2>3 DEF Resent, FetchStep, Kept
  <2>4. QED BY <2>2, <2>3
<1>4. SentStep
  BY <1>1, <1>3, OInvData DEF SentStep, Resent
<1>5. QED BY <1>1, <1>2, <1>4, PairsStay, SharedEnds, ScreenStays DEF Shows, StoreStep

\* A refresh that failed, or could not be made: the tab is signed out.
LEMMA ExpireSteps ==
  ASSUME OInv, NEW t \in Tabs, NEW R, Expire(t, R), UNCHANGED pairs
  PROVE  OwnersKept /\ StoreStep /\ ScreenStep /\ SentStep
<1> DEFINE requests == [r \in Requests |-> IF r \in R THEN Unsent ELSE sent[r]]
<1>1. /\ form' = [form EXCEPT ![t] = IF t \in R THEN NoForm ELSE form[t]]
      /\ store' = NoTokens
      /\ shown' = [shown EXCEPT ![t] = Nobody]
      /\ cache' = Emptied(t)
      /\ sent' = Forgotten(t, requests)
  BY DEF Expire, Leave
<1>2. requests \in [Requests -> Sends(Len(pairs))] /\ \A r \in Requests : requests[r] \in {sent[r], Unsent}
  BY OInvData, UnsentData
<1> HIDE DEF requests
<1>3. \A u \in Tabs : \/ form'[u] = form[u] /\ shown'[u] \in {shown[u], Nobody}
                      \/ form'[u].what # "restoring"
  BY <1>1, OInvData DEF FormData, NoForm
<1>4. ScreenStep /\ SentStep
  BY <1>1, <1>2, <1>3, OInvData, PairsStay, ResetSteps
<1>5. QED BY <1>1, <1>4, PairsStay DEF StoreStep

LEMMA RefreshFailsShows ==
  ASSUME OInv, NEW t \in Tabs, RefreshFails(t)
  PROVE  Shows
<1>1. Expire(t, Waiting(t)) /\ shared' = [shared EXCEPT ![t] = NoRefresh] /\ UNCHANGED pairs
  BY DEF RefreshFails
<1>2. QED BY <1>1, ExpireSteps, SharedEnds DEF Shows

LEMMA AskShows ==
  ASSUME OInv, NEW r \in Requests, Ask(r)
  PROVE  Shows
<1> DEFINE s == [Unsent EXCEPT !.step = "asked", !.token = store.access]
<1>1. /\ r \in Fetches /\ shown[Here(r)] # Nobody
      /\ sent' = [sent EXCEPT ![r] = s]
      /\ UNCHANGED <<pairs, store, shown, form, shared, cache>>
  BY DEF Ask
<1>2. s \in Sends(Len(pairs)) /\ s.token = store.access
  BY OInvData, AskedData
<1> HIDE DEF s
<1>3. SentStep
  BY <1>1, <1>2, OInvData DEF SentStep, FetchStep, Kept
<1>4. QED BY <1>1, <1>3, PairsStay, SharedStays, ScreenStays DEF Shows, StoreStep

LEMMA FinishedFades ==
  ASSUME OInv, OwnersKept, NEW r \in Requests, sent' = Finished(r)
  PROVE  SentStep
<1>1. sent' = [sent EXCEPT ![r] = Unsent]
  BY DEF Finished
<1>2. QED BY <1>1, OInvData, SentFades DEF Fades

LEMMA AnsweredShows ==
  ASSUME OInv, NEW r \in Requests, Answered(r)
  PROVE  Shows
<1> DEFINE t == Here(r)
           u == Owner(sent[r].token)
<1>1. /\ r \in Fetches /\ InFlight(r) /\ Accepted(sent[r].token)
      /\ cache' = IF sent[r].kept THEN [cache EXCEPT ![t] = cache[t] \cup {u}] ELSE cache
      /\ sent' = Finished(r)
      /\ UNCHANGED <<pairs, store, shown, form, shared>>
  BY DEF Answered
<1>2. t \in Tabs /\ u \in Users
  <2>1. sent[r].token \in 1 .. Len(pairs)
    BY <1>1, OInvData DEF Accepted, Sends
  <2>2. QED BY <2>1, OInvData, OwnerIsUser, HereIsTab
<1>3. ScreenStep
  <2>1. cache' \in [Tabs -> SUBSET Users]
    BY <1>1, <1>2, OInvData
  <2>2. ASSUME NEW v \in Tabs PROVE Stays(v)
    <3>1. sent[r].kept /\ v = t => cache'[v] = cache[v] \cup {u}
      BY <1>1, <1>2, OInvData
    <3>2. ~(sent[r].kept /\ v = t) => cache'[v] = cache[v]
      BY <1>1, <1>2, OInvData
    <3>3. Kept(r) <=> sent[r].kept
      BY <1>1 DEF Kept, InFlight
    <3>4. QED BY <1>1, <3>1, <3>2, <3>3 DEF Stays
  <2>3. Restoring'
    BY <1>1, OInvData DEF Restoring
  <2>4. QED BY <1>1, <2>1, <2>2, <2>3, OInvData DEF ScreenStep, TabStep
<1>4. QED BY <1>1, <1>3, PairsStay, SharedStays, FinishedFades DEF Shows, StoreStep

LEMMA RestoredShows ==
  ASSUME OInv, NEW t \in Tabs, Restored(t)
  PROVE  Shows
<1> DEFINE u == Owner(sent[t].token)
<1>1. /\ form[t].what = "restoring" /\ Accepted(sent[t].token)
      /\ shown' = [shown EXCEPT ![t] = u]
      /\ form' = [form EXCEPT ![t] = NoForm]
      /\ sent' = Finished(t)
      /\ UNCHANGED <<pairs, store, shared, cache>>
  BY DEF Restored
<1>2. u \in Users
  <2>1. sent[t].token \in 1 .. Len(pairs)
    BY <1>1, OInvData DEF Accepted, Sends
  <2>2. QED BY <2>1, OInvData, OwnerIsUser
<1> HIDE DEF u
<1>3. shown[t] = Nobody /\ NoForm.what = "none"
  BY <1>1, OInvData DEF Restoring, NoForm
<1>4. ScreenStep
  <2>1. Restoring'
    BY <1>1, <1>3, OInvData DEF Restoring, FormData
  <2>2. \A v \in Tabs : Stays(v) \/ Learns(v)
    BY <1>1, <1>3, OInvData DEF Stays, Learns
  <2>3. QED BY <1>1, <1>2, <2>1, <2>2, OInvData DEF ScreenStep, TabStep
<1>5. QED BY <1>1, <1>4, OInvData, PairsStay, SharedStays, FinishedFades DEF Shows, StoreStep

LEMMA SignedOutShows ==
  ASSUME OInv, NEW t \in Tabs, SignedOut(t)
  PROVE  Shows
<1> DEFINE n == sent[t].body
<1>1. /\ form' = [form EXCEPT ![t] = NoForm]
      /\ store' = NoTokens
      /\ shared' = shared
      /\ \/ pairs' = [pairs EXCEPT ![n].refresh = "ended"] /\ Leave(t, Finished(t))
         \/ sent' = Finished(t) /\ UNCHANGED <<pairs, shown, cache>>
  BY DEF SignedOut, Leave
<1>2. NoForm.what = "none" /\ \A v \in Tabs : form'[v] = form[v] \/ form'[v].what = "none"
  BY <1>1, OInvData DEF FormData, NoForm
<1>3. CASE pairs' = [pairs EXCEPT ![n].refresh = "ended"] /\ Leave(t, Finished(t))
  <2>1. OwnersKept
    <3>1. CASE n \in 1 .. Len(pairs)
      <4>1. [pairs[n] EXCEPT !.refresh = "ended"].user = pairs[n].user
        BY <3>1, OInvData, PairAt DEF Pairs
      <4>2. pairs' = [pairs EXCEPT ![n] = [pairs[n] EXCEPT !.refresh = "ended"]]
        BY <1>3, <3>1, OInvData
      <4>3. Len(pairs') = Len(pairs)
        <5>1. "ended" \in Tags
          BY DEF Tags
        <5>2. QED BY <1>3, <3>1, <5>1, OInvData, Retagged DEF PairData
      <4>4. QED BY <3>1, <4>1, <4>2, <4>3, OInvData DEF OwnersKept, OInv, MoreData
    <3>2. CASE n \notin 1 .. Len(pairs)
      <4>1. pairs' = pairs
        BY <1>3, <3>2, OInvData DEF PairData
      <4>2. QED BY <4>1, PairsStay
    <3>3. QED BY <3>1, <3>2
  <2>2. /\ shown' = [shown EXCEPT ![t] = Nobody] /\ cache' = Emptied(t)
        /\ sent' = Forgotten(t, Finished(t))
    BY <1>3 DEF Leave
  <2>3. /\ Finished(t) \in [Requests -> Sends(Len(pairs))]
        /\ \A r \in Requests : Finished(t)[r] \in {sent[r], Unsent}
    BY OInvData, UnsentData DEF Finished
  <2>4. ScreenStep /\ SentStep
    BY <1>2, <2>1, <2>2, <2>3, OInvData, ResetSteps
  <2>5. QED BY <1>1, <2>1, <2>4, SharedStays DEF Shows, StoreStep
<1>4. CASE sent' = Finished(t) /\ UNCHANGED <<pairs, shown, cache>>
  <2>1. ScreenStep
    BY <1>2, <1>4, ScreenStays
  <2>2. QED BY <1>1, <1>4, <2>1, OInvData, PairsStay, SharedStays, FinishedFades DEF Shows, StoreStep
<1>5. QED BY <1>1, <1>3, <1>4

LEMMA FailsShows ==
  ASSUME OInv, NEW r \in Requests, Fails(r)
  PROVE  Shows
<1>1. /\ UNCHANGED <<pairs, shown, shared, cache>>
      /\ store' = store \/ store' = NoTokens
      /\ form' = [t \in Tabs |-> IF t \in {r} THEN NoForm ELSE form[t]]
      /\ sent' = [q \in Requests |-> IF q \in {r} THEN Unsent ELSE sent[q]]
  BY DEF Fails, Reject
<1>2. SentStep
  BY <1>1, PairsStay, SentFades DEF Fades
<1>3. \A v \in Tabs : form'[v] = form[v] \/ form'[v].what # "restoring"
  BY <1>1 DEF NoForm
<1>4. QED BY <1>1, <1>2, <1>3, PairsStay, SharedStays, ScreenStays DEF Shows, StoreStep

LEMMA DeniedShows ==
  ASSUME OInv, NEW r \in Requests, Denied(r)
  PROVE  Shows
<1> DEFINE t == Here(r)
           s == [sent[r] EXCEPT !.step = "waiting", !.token = 0]
<1>1. t \in Tabs
  BY HereIsTab
<1>2. CASE Expire(t, {r}) /\ UNCHANGED <<pairs, shared>>
  BY <1>1, <1>2, ExpireSteps, SharedStays DEF Shows
<1>3. CASE /\ sent' = [sent EXCEPT ![r].step = "waiting", ![r].token = 0]
           /\ \/ UNCHANGED shared
              \/ shared' = [shared EXCEPT ![t] = [step |-> "asked", old |-> store.refresh, new |-> 0]]
           /\ UNCHANGED <<pairs, store, shown, form, cache>>
  <2>1. sent[r].step = "asked" /\ sent[r] \in Sends(Len(pairs))
    BY OInvData DEF Denied
  <2>2. s \in Sends(Len(pairs)) /\ s.token = 0 /\ s.kept = sent[r].kept
    <3>1. s \in Sends(Len(pairs))
      <4>1. 0 \in 0 .. Len(pairs) /\ Len(pairs) \in Nat
        BY OInvData
      <4>2. QED BY <2>1, <4>1, RetriedData
    <3>2. s.token = 0
      BY <2>1 DEF Sends
    <3>3. s.kept = sent[r].kept
      BY <2>1 DEF Sends
    <3>4. QED BY <3>1, <3>2, <3>3
  <2>3. sent' = [sent EXCEPT ![r] = s]
    BY <1>3, OInvData
  <2> HIDE DEF s
  <2>4. ASSUME NEW q \in Requests
        PROVE  sent'[q] \in Sends(Len(pairs)) /\ FetchStep(q)
    <3>1. CASE q = r
      BY <2>1, <2>2, <2>3, <3>1, OInvData DEF FetchStep, Kept
    <3>2. CASE q # r
      BY <2>3, <3>2, OInvData DEF FetchStep, Kept
    <3>3. QED BY <3>1, <3>2
  <2>5. SentStep
    BY <1>3, <2>3, <2>4, OInvData DEF SentStep
  <2>6. SharedStep
    <3>1. [step |-> "asked", old |-> store.refresh, new |-> 0].step = "asked"
      OBVIOUS
    <3>2. CASE UNCHANGED shared
      BY <3>2, SharedStays
    <3>3. CASE shared' = [shared EXCEPT ![t] = [step |-> "asked", old |-> store.refresh, new |-> 0]]
      BY <1>1, <3>1, <3>3, OInvData DEF SharedStep, SharedData, OInv, MoreData
    <3>4. QED BY <1>3, <3>2, <3>3
  <2>7. QED BY <1>3, <2>5, <2>6, PairsStay, ScreenStays DEF Shows, StoreStep
<1>4. QED BY <1>2, <1>3 DEF Denied

LEMMA AgesShows ==
  ASSUME OInv, NEW n \in DOMAIN pairs, AccessExpires(n)
  PROVE  Shows
<1>1. /\ pairs' = [pairs EXCEPT ![n].access = "stale"]
      /\ UNCHANGED <<store, shown, form, shared, sent, cache>>
  BY DEF AccessExpires
<1>2. OwnersKept
  <2>1. n \in 1 .. Len(pairs)
    BY OInvData
  <2>2. [pairs[n] EXCEPT !.access = "stale"].user = pairs[n].user
    BY <2>1, OInvData, PairAt DEF Pairs
  <2>3. pairs' = [pairs EXCEPT ![n] = [pairs[n] EXCEPT !.access = "stale"]]
    BY <1>1, <2>1, OInvData
  <2>4. Len(pairs') = Len(pairs)
    BY <1>1, <2>1, OInvData, Aged
  <2>5. QED BY <2>1, <2>2, <2>3, <2>4, OInvData DEF OwnersKept, OInv, MoreData
<1>3. QED BY <1>1, <1>2, SharedStays, ScreenStays, SentStays DEF Shows, StoreStep

-----------------------------------------------------------------------------
(* Every step keeps OInv. *)

LEMMA SessionKeeps ==
  ASSUME SessionInv, [SessionNext]_sessionVars
  PROVE  SessionInv'
<1>1. CASE UNCHANGED sessionVars
  <2>1. UNCHANGED <<pairs, store, form, shared>>
    BY <1>1 DEF sessionVars
  <2>2. FormData'
    BY <2>1 DEF SessionInv, Data, FormData
  <2>3. QED BY <2>1, <2>2, QuietKeeps
<1>2. ASSUME NEW r \in Requests, Answer(r) PROVE SessionInv'
  BY <1>2, AskKeeps, SignOutKeeps, SignedOutKeeps, DeniedKeeps DEF Answer
<1>3. QED
  BY <1>1, <1>2, SignInKeeps, SignedInKeeps, SignOutKeeps, ReloadKeeps, SettleKeeps, AskKeeps,
     FailsKeeps, AgesKeeps
  DEF SessionNext, SessionStep

LEMMA StepShows ==
  ASSUME OInv, SessionStep
  PROVE  Shows
<1>1. ASSUME NEW r \in Requests, Answer(r) PROVE Shows
  BY <1>1, AnsweredShows, RestoredShows, SignedOutShows, DeniedShows DEF Answer
<1>2. ASSUME NEW t \in Tabs, Settle(t) PROVE Shows
  BY <1>2, RefreshServedShows, RefreshedShows, RefreshFailsShows DEF Settle
<1>3. QED
  BY <1>1, <1>2, SignInShows, SignedInShows, SignInFailsShows, SignOutShows, ReloadShows, AskShows,
     FailsShows, AgesShows
  DEF SessionStep

\* The tokens in the store are of users that every tab with a user has then met.
LEMMA StoreIsMine ==
  ASSUME Strays, PairData', NEW t \in Tabs, shown'[t] # Nobody,
         NEW n \in {store'.access, store'.refresh}, n \in 1 .. Len(pairs')
  PROVE  pairs'[n].user \in Mine(t)'
<1>1. n # 0
  BY DEF PairData
<1> DEFINE met == {pairs'[m].user : m \in {store'.access, store'.refresh} \ {0}}
<1>2. pairs'[n].user \in met
  BY <1>1
<1>3. met \ {shown'[t]} \subseteq strayed'[t]
  BY DEF Strays
<1> HIDE DEF met
<1>4. QED BY <1>1, <1>2, <1>3 DEF Mine

LEMMA MineGrows ==
  ASSUME Strays, NEW t \in Tabs, shown'[t] = shown[t], shown[t] # Nobody
  PROVE  Mine(t) \subseteq Mine(t)'
  BY DEF Strays, Mine

\* The users a tab strays to are users, and none when nobody is on screen.
LEMMA StraysData ==
  ASSUME Strays, OInv, PairData',
         store'.access \in 0 .. Len(pairs'), store'.refresh \in 0 .. Len(pairs')
  PROVE  strayed' \in [Tabs -> SUBSET Users] /\ ClearScreen'
<1> DEFINE met == {pairs'[m].user : m \in {store'.access, store'.refresh} \ {0}}
           before(t) == IF shown'[t] # shown[t] THEN {} ELSE strayed[t]
           S(t) == IF shown'[t] = Nobody THEN {} ELSE before(t) \cup (met \ {shown'[t]})
<1>1. strayed' = [t \in Tabs |-> S(t)]
  BY DEF Strays
<1>2. met \subseteq Users
  <2>1. ASSUME NEW m \in 1 .. Len(pairs') PROVE pairs'[m].user \in Users
    <3>1. pairs'[m] \in Pairs
      BY <2>1 DEF PairData
    <3>2. QED BY <3>1 DEF Pairs
  <2>2. Len(pairs') \in Nat
    BY DEF PairData
  <2>3. QED BY <2>1, <2>2
<1> HIDE DEF met
<1>3. \A t \in Tabs : S(t) \in SUBSET Users /\ (shown'[t] = Nobody => S(t) = {})
  BY <1>2, OInvData
<1> HIDE DEF S
<1>4. QED BY <1>1, <1>3 DEF ClearScreen

LEMMA NextOInv ==
  ASSUME OInv, SessionNext
  PROVE  OInv'
<1>1. SessionInv' /\ PairData'
  BY SessionKeeps DEF OInv, SessionInv, Data
<1>2. Shows /\ Strays
  BY StepShows DEF SessionNext
<1>3. Len(pairs') \in Nat /\ Sends(Len(pairs)) \subseteq Sends(Len(pairs'))
      /\ 0 .. Len(pairs) \subseteq 0 .. Len(pairs')
  BY <1>2, OInvData, SendsGrow DEF Shows, OwnersKept
<1>4. store' \in [access : 0 .. Len(pairs'), refresh : 0 .. Len(pairs')]
  <2>1. NoTokens \in [access : 0 .. Len(pairs'), refresh : 0 .. Len(pairs')]
    BY <1>3 DEF NoTokens
  <2>2. \A n \in 1 .. Len(pairs') : Stored(n) \in [access : 0 .. Len(pairs'), refresh : 0 .. Len(pairs')]
    BY <1>3 DEF Stored
  <2>3. store \in [access : 0 .. Len(pairs), refresh : 0 .. Len(pairs)]
    BY DEF OInv, MoreData
  <2>4. QED BY <1>2, <1>3, <2>1, <2>2, <2>3 DEF Shows, StoreStep
<1>5. store'.access \in 0 .. Len(pairs') /\ store'.refresh \in 0 .. Len(pairs')
  BY <1>4
<1>6. strayed' \in [Tabs -> SUBSET Users] /\ ClearScreen'
  BY <1>1, <1>2, <1>5, StraysData
<1>7. MoreData'
  BY <1>2, <1>4, <1>6 DEF MoreData, Shows, OwnersKept, ScreenStep, SentStep, SharedStep
<1>8. Restoring'
  BY <1>2 DEF Shows, ScreenStep
<1>9. ASSUME NEW n \in 1 .. Len(pairs) PROVE Owner(n)' = Owner(n)
  BY <1>2, OInvData DEF Owner, Shows, OwnersKept
<1>10. ASSUME NEW r \in Fetches PROVE OwnFetch(r)'
  <2> DEFINE t == Here(r)
  <2> SUFFICES ASSUME Kept(r)'
               PROVE  shown'[t] # Nobody /\ (sent[r].token # 0 => Owner(sent[r].token) \in Mine(t))'
    BY DEF OwnFetch
  <2>1. t \in Tabs /\ r \in Requests /\ FetchStep(r) /\ TabStep(t) /\ OwnFetch(r)
    BY <1>2, HereIsTab, OInvData DEF Shows, ScreenStep, SentStep, OInv, OwnFetches
  <2>2. shown[t] # Nobody
    BY <2>1 DEF FetchStep, OwnFetch
  <2>3. shown'[t] = shown[t]
    BY <2>1, <2>2 DEF TabStep, Stays, Forgets, Learns
  <2>4. CASE Kept(r) /\ sent'[r].token \in {sent[r].token, 0}
    <3>1. sent[r].token # 0 => sent[r].token \in 1 .. Len(pairs) /\ Owner(sent[r].token) \in Mine(t)
      BY <2>1, <2>4, OInvData DEF OwnFetch, Sends
    <3>2. ASSUME sent'[r].token # 0 PROVE pairs'[sent'[r].token].user \in Mine(t)'
      <4>1. sent'[r].token = sent[r].token /\ sent[r].token \in 1 .. Len(pairs)
        BY <2>4, <3>1, <3>2
      <4>2. pairs'[sent[r].token].user = pairs[sent[r].token].user
        BY <4>1, <1>9 DEF Owner
      <4>3. pairs[sent[r].token].user \in Mine(t)
        BY <4>1, <3>1, <3>2 DEF Owner
      <4>4. QED BY <4>1, <4>2, <4>3, <1>2, <2>1, <2>2, <2>3, MineGrows
    <3>3. QED BY <2>2, <2>3, <3>2 DEF Owner
  <2>5. CASE sent'[r].token = store'.access
    <3>1. ASSUME sent'[r].token # 0 PROVE pairs'[sent'[r].token].user \in Mine(t)'
      <4>1. store'.access \in 1 .. Len(pairs')
        BY <1>3, <1>5, <2>5, <3>1
      <4>2. pairs'[store'.access].user \in Mine(t)'
        BY <4>1, <1>1, <1>2, <2>1, <2>2, <2>3, StoreIsMine
      <4>3. QED BY <4>2, <2>5
    <3>2. QED BY <2>2, <2>3, <3>1 DEF Owner
  <2>6. QED BY <2>1, <2>4, <2>5 DEF FetchStep
<1>11. ASSUME NEW t \in Tabs PROVE cache'[t] \subseteq Mine(t)'
  <2>1. TabStep(t) /\ cache[t] \subseteq Mine(t) /\ cache[t] \subseteq Users
    BY <1>2, OInvData DEF Shows, ScreenStep, OInv, OwnData, Mine
  <2>2. shown[t] = Nobody => cache[t] = {}
    BY <2>1, SessionBounds DEF Mine, OInv, ClearScreen
  <2>3. CASE Stays(t)
    <3>1. \A r \in Fetches : Here(r) = t /\ Kept(r) /\ Accepted(sent[r].token) =>
            shown[t] # Nobody /\ Owner(sent[r].token) \in Mine(t)
      BY DEF OInv, OwnFetches, OwnFetch, Accepted
    <3>2. CASE shown[t] = Nobody
      BY <2>2, <2>3, <3>1, <3>2 DEF Stays
    <3>3. CASE shown[t] # Nobody
      BY <1>2, <2>1, <2>3, <3>1, <3>3, MineGrows DEF Stays
    <3>4. QED BY <3>2, <3>3
  <2>4. CASE Forgets(t)
    BY <2>4 DEF Forgets
  <2>5. CASE Learns(t)
    BY <2>2, <2>5 DEF Learns
  <2>6. QED BY <2>1, <2>3, <2>4, <2>5 DEF TabStep
<1>12. QED BY <1>1, <1>6, <1>7, <1>8, <1>10, <1>11 DEF OInv, OwnFetches, OwnData, Mine

LEMMA InitSessionInv == SessionInit => SessionInv
<1> SUFFICES ASSUME SessionInit PROVE SessionInv
  OBVIOUS
<1>1. pairs = <<>> /\ store.refresh = 0 /\ \A t \in Tabs : shared[t] = NoRefresh
  BY NoTokensData DEF SessionInit
<1>2. Data
  BY <1>1, FormsData, NoRefreshData
  DEF SessionInit, Data, PairData, FormData, SharedData
<1>3. Names /\ Secret /\ Replaced /\ Honest
  BY <1>1, NoRefreshData DEF Names, Secret, Replaced, Honest, Known
<1>4. QED BY <1>2, <1>3 DEF SessionInv

LEMMA InitOInv == SessionInit => OInv
<1> SUFFICES ASSUME SessionInit PROVE OInv
  OBVIOUS
<1>1. Len(pairs) = 0 /\ 0 \in Nat /\ 0 \in 0 .. 0
  BY DEF SessionInit
<1>2. MoreData
  <2>1. sent \in [Requests -> Sends(0)]
    BY <1>1, UnsentData DEF SessionInit
  <2>2. store \in [access : 0 .. 0, refresh : 0 .. 0]
    BY <1>1 DEF SessionInit, NoTokens
  <2>3. \A t \in Tabs : shared[t].old = 0
    BY NoRefreshData DEF SessionInit
  <2>4. QED BY <1>1, <2>1, <2>2, <2>3, SessionBounds DEF SessionInit, MoreData
<1>3. NoForm.what = "none" /\ \A r \in Requests : ~Kept(r)
  BY <1>1, UnsentData DEF SessionInit, NoForm, Kept
<1>4. Restoring /\ ClearScreen /\ OwnFetches /\ OwnData
  BY <1>3 DEF SessionInit, Restoring, ClearScreen, OwnFetches, OwnFetch, OwnData, Requests
<1>5. QED BY <1>2, <1>4, InitSessionInv DEF OInv

LEMMA OInvariance == SessionSpec => []OInv
<1>1. OInv /\ [SessionNext]_sessionVars => OInv'
  <2> SUFFICES ASSUME OInv, [SessionNext]_sessionVars PROVE OInv'
    OBVIOUS
  <2>1. CASE UNCHANGED sessionVars
    <3>1. SessionInv'
      BY SessionKeeps DEF OInv
    <3>2. (MoreData /\ Restoring /\ ClearScreen /\ OwnFetches /\ OwnData)'
      BY <2>1
      DEF OInv, MoreData, Restoring, ClearScreen, OwnFetches, OwnFetch, OwnData, Kept, Mine, Owner, sessionVars
    <3>3. QED BY <3>1, <3>2 DEF OInv
  <2>2. QED BY <2>1, NextOInv
<1>2. QED BY <1>1, InitOInv, PTL DEF SessionSpec

-----------------------------------------------------------------------------
(* Results. *)

\* The types of the session, and that what it names exists.
THEOREM SessionTypeCorrect == SessionSpec => []SessionTypeOK
<1>1. OInv => SessionTypeOK
  <2> SUFFICES ASSUME OInv PROVE SessionTypeOK
    OBVIOUS
  <2>1. pairs \in Seq([user : Users, refresh : {"live", "ended"} \cup Tabs, access : {"fresh", "stale"}])
    BY OInvData DEF PairData, Pairs, Tags
  <2>2. form \in [Tabs -> [what : {"none", "signing_in", "signing_out", "restoring"},
                          user : Users \cup {Nobody}]]
    BY OInvData DEF FormData, Forms
  <2>3. shared \in [Tabs -> [step : {"none", "asked", "granted", "refused", "lost"},
                            old : 0 .. Len(pairs), new : 0 .. Len(pairs)]]
    BY OInvData DEF SharedData, Refreshes, RefreshSteps, OInv, SessionInv, Names, Known
  <2>4. sent \in [Requests -> [step : {"idle", "asked", "waiting", "again"},
                              token : 0 .. Len(pairs), body : 0 .. Len(pairs), kept : BOOLEAN]]
    BY OInvData DEF Sends
  <2>5. \A t \in Tabs : shared[t].step = "none" <=> shared[t].old = 0
    BY DEF OInv, SessionInv, Names, MoreData
  <2>6. QED BY <2>1, <2>2, <2>3, <2>4, <2>5 DEF SessionTypeOK, OInv, MoreData
<1>2. QED BY <1>1, OInvariance, PTL

\* A tab never presents a refresh token that it has rotated itself, however many of
\* its requests meet a 401 at once or late, and whatever other tabs do (lib/api.ts).
THEOREM NoTabLocksItselfOut == SessionSpec => []NeverLocksItselfOut
<1>1. OInv => NeverLocksItselfOut
  BY DEF OInv, SessionInv, Honest, Tag, NeverLocksItselfOut
<1>2. QED BY <1>1, OInvariance, PTL

\* A tab's query cache holds the data of its user only, but for what it fetched after the
\* shared store was given someone else's tokens: resetCache, and the answers dropped with
\* it, are enough over any run of sign-ins, sign-outs and page loads (AuthContext.tsx).
THEOREM TabsHoldOwnData == SessionSpec => []OwnData
  BY OInvariance, PTL DEF OInv

=============================================================================
