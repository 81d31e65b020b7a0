----------------------------- MODULE JobsSocket -----------------------------
(***************************************************************************)
(* The one WebSocket that the screens of a client share                    *)
(* (src/frontend/src/lib/jobsSocket.ts, and the app's                      *)
(* src/oam-mobile/src/features/jobs/socket.ts): it is opened by the first  *)
(* screen that subscribes, closed a while after the last one leaves, opened *)
(* again with a delay when it drops, and keeps the frames written meanwhile. *)
(*                                                                         *)
(* The two clients run the same code except where `app' is asked for: the  *)
(* app reads its token asynchronously and asks again for subscribers; the  *)
(* web client listens to `online' and to a session that expired.           *)
(***************************************************************************)
EXTENDS Naturals, Sequences

CONSTANTS
  Apps,       \* the clients modelled: a subset of {"web", "mobile"}
  Sockets,    \* WebSocket objects
  MaxScreens, \* bound: screens subscribed at a time
  MaxFrames,  \* bound: frames written
  MaxTimers,  \* bound: pending reconnect timers whose handle was overwritten
  MaxCloses   \* bound: close handlers waiting for their API call

ASSUME SocketParameters ==
  /\ Apps \subseteq {"web", "mobile"}
  /\ "no socket" \notin Sockets
  /\ MaxScreens \in Nat /\ MaxFrames \in Nat /\ MaxTimers \in Nat /\ MaxCloses \in Nat

VARIABLES
  app,
  access,     \* the stored access token: "valid", "expired" or "none"
  screens,    \* the number of `listeners'
  ws,         \* the socket the module points to
  phase,      \* each socket; "doomed": opening with an expired token
  connecting, \* a connect waits for the token (app only)
  timer,      \* reconnectTimer is pending
  strays,     \* earlier reconnect timers that nobody can clear any more
  idle,       \* idleTimer is pending
  awaiting,   \* close handlers that wait for their API call
  outbox,
  handed,     \* history: frames given to a socket, in order
  written     \* history: frames the screens wrote; frame n is the n-th

socketVars == <<app, access, screens, ws, phase, connecting, timer, strays, idle,
                awaiting, outbox, handed, written>>
frames == <<outbox, handed, written>>
timers == <<timer, strays, idle, awaiting>>

NoSocket == "no socket"

SocketInit ==
  /\ app \in Apps
  /\ access = "none"
  /\ screens = 0
  /\ ws = NoSocket
  /\ phase = [s \in Sockets |-> "closed"]
  /\ connecting = FALSE
  /\ timer = FALSE
  /\ strays = 0
  /\ idle = FALSE
  /\ awaiting = 0
  /\ outbox = <<>>
  /\ handed = <<>>
  /\ written = 0

-----------------------------------------------------------------------------
(* connect and disconnect: what they leave behind. *)

HasSocket == ws # NoSocket

\* A mutant: nobody asks whether there is a socket.
OpenedAnyway ==
  IF access = "none" THEN UNCHANGED <<ws, phase>>
  ELSE \E s \in Sockets :
         /\ phase[s] = "closed"
         /\ ws' = s
         /\ phase' = [phase EXCEPT ![s] = IF access = "valid" THEN "opening" ELSE "doomed"]

\* new WebSocket, when there is a token and no socket.
Opened ==
  IF HasSocket \/ access = "none" THEN UNCHANGED <<ws, phase>>
  ELSE \E s \in Sockets :
         /\ phase[s] = "closed"
         /\ ws' = s
         /\ phase' = [phase EXCEPT ![s] = IF access = "valid" THEN "opening" ELSE "doomed"]

\* The app returns at once when another call waits for the token.
Connect ==
  IF app = "web" THEN Opened /\ UNCHANGED connecting
  ELSE connecting' = (connecting \/ ~HasSocket) /\ UNCHANGED <<ws, phase>>

\* A mutant: the app does not ask again whether anybody listens.
TokenReadBlindly ==
  /\ connecting
  /\ connecting' = FALSE
  /\ Opened
  /\ UNCHANGED <<app, access, screens, timers, frames>>

\* The rest of the app's connect, once SecureStore has answered.
TokenRead ==
  /\ connecting
  /\ connecting' = FALSE
  /\ IF screens = 0 THEN UNCHANGED <<ws, phase>> ELSE Opened
  /\ UNCHANGED <<app, access, screens, timers, frames>>

Disconnect ==
  /\ ws' = NoSocket
  /\ phase' = IF HasSocket THEN [phase EXCEPT ![ws] = "closed"] ELSE phase
  /\ timer' = FALSE

-----------------------------------------------------------------------------
(* Screens: useJobsSocket and sendJobsEvent. *)

\* Only a signed-in user has screens.
Subscribe ==
  /\ access # "none"
  /\ screens < MaxScreens
  /\ screens' = screens + 1
  /\ idle' = FALSE
  /\ Connect
  /\ UNCHANGED <<app, access, timer, strays, awaiting, frames>>

Unsubscribe ==
  /\ screens > 0
  /\ screens' = screens - 1
  /\ idle' = (idle \/ screens' = 0)
  /\ UNCHANGED <<app, access, ws, phase, connecting, timer, strays, awaiting, frames>>

IdleFires ==
  /\ idle
  /\ idle' = FALSE
  /\ Disconnect
  /\ UNCHANGED <<app, access, screens, connecting, strays, awaiting, frames>>

Write ==
  LET n == written + 1
  IN  /\ written < MaxFrames
      /\ written' = n
      /\ IF HasSocket /\ phase[ws] = "open"
           THEN handed' = Append(handed, n) /\ UNCHANGED <<outbox, ws, phase, connecting>>
           ELSE outbox' = Append(outbox, n) /\ Connect /\ UNCHANGED handed
      /\ UNCHANGED <<app, access, screens, timers>>

-----------------------------------------------------------------------------
(* The socket. *)

\* A mutant: the outbox is cleared before it is sent.
FlushedNever == handed

\* What the sockets have been given once the outbox is emptied.
Flushed == handed \o outbox

Opens(s) ==
  /\ phase[s] = "opening"
  /\ phase' = [phase EXCEPT ![s] = "open"]
  /\ handed' = Flushed
  /\ outbox' = <<>>
  /\ UNCHANGED <<app, access, screens, ws, connecting, timers, written>>

\* setTimeout overwrites the handle of a timer that is still pending.
SetTimer ==
  /\ timer' = TRUE
  /\ IF timer THEN strays < MaxTimers /\ strays' = strays + 1 ELSE UNCHANGED strays

\* A mutant: only a socket that was open is replaced.
RetriesOpened(s) == phase[s] = "open"

Retries(s) == screens > 0

\* The back end turned the token away.
Refused(s) == phase[s] = "doomed" \/ (phase[s] = "opening" /\ access = "expired")

\* onclose.  A refused token may be told apart by the code 4401 or, behind a server
\* that answers the handshake with a 403, may not; only then the token is looked after.
Closes(s) ==
  /\ phase[s] # "closed"
  /\ phase' = [phase EXCEPT ![s] = "closed"]
  /\ ws' = NoSocket
  /\ \/ Retries(s) /\ SetTimer /\ UNCHANGED awaiting
     \/ /\ Retries(s) /\ Refused(s) /\ awaiting < MaxCloses
        /\ awaiting' = awaiting + 1
        /\ UNCHANGED <<timer, strays>>
     \/ ~Retries(s) /\ UNCHANGED <<timer, strays, awaiting>>
  /\ UNCHANGED <<app, access, screens, connecting, idle, frames>>

\* The API call after a 4401 is over, however it ended: the timer is set.
Resumes ==
  /\ awaiting > 0
  /\ awaiting' = awaiting - 1
  /\ SetTimer
  /\ UNCHANGED <<app, access, screens, ws, phase, connecting, idle, frames>>

TimerFires ==
  /\ timer
  /\ timer' = FALSE
  /\ Connect
  /\ UNCHANGED <<app, access, screens, strays, idle, awaiting, frames>>

StrayFires ==
  /\ strays > 0
  /\ strays' = strays - 1
  /\ Connect
  /\ UNCHANGED <<app, access, screens, timer, idle, awaiting, frames>>

\* visibilitychange, and AppState in the app.
Visible ==
  /\ screens > 0
  /\ ~HasSocket
  /\ timer' = FALSE
  /\ Connect
  /\ UNCHANGED <<app, access, screens, strays, idle, awaiting, frames>>

Online ==
  /\ app = "web"
  /\ screens > 0
  /\ ~HasSocket
  /\ Connect
  /\ UNCHANGED <<app, access, screens, timers, frames>>

-----------------------------------------------------------------------------
(* The session, as the socket meets it (ClientSession has the whole of it). *)

SignsIn ==
  /\ access = "none"
  /\ screens = 0
  /\ access' = "valid"
  /\ UNCHANGED <<app, screens, ws, phase, connecting, timers, frames>>

AccessAges ==
  /\ access = "valid"
  /\ access' = "expired"
  /\ UNCHANGED <<app, screens, ws, phase, connecting, timers, frames>>

\* Any call refreshes an expired token: the socket's own, or the bell's.
AccessRenewed ==
  /\ access = "expired"
  /\ access' = "valid"
  /\ UNCHANGED <<app, screens, ws, phase, connecting, timers, frames>>

\* The user signs out: the screens go, and the socket is left to its idle timer.
SignsOut ==
  /\ access # "none"
  /\ access' = "none"
  /\ screens' = 0
  /\ idle' = (idle \/ screens > 0)
  /\ UNCHANGED <<app, ws, phase, connecting, timer, strays, awaiting, frames>>

\* oam:logout, which only the web client's socket listens to.
SessionExpires ==
  /\ app = "web"
  /\ access = "expired"
  /\ access' = "none"
  /\ screens' = 0
  /\ idle' = (idle \/ screens > 0)
  /\ Disconnect
  /\ UNCHANGED <<app, connecting, strays, awaiting, frames>>

SocketNext ==
  \/ Subscribe
  \/ Unsubscribe
  \/ IdleFires
  \/ Write
  \/ TokenRead
  \/ \E s \in Sockets : Opens(s) \/ Closes(s)
  \/ Resumes
  \/ TimerFires
  \/ StrayFires
  \/ Visible
  \/ Online
  \/ SignsIn
  \/ AccessAges
  \/ AccessRenewed
  \/ SignsOut
  \/ SessionExpires

SocketSpec == SocketInit /\ [][SocketNext]_socketVars

\* Timers fire and awaited calls end; a handshake ends, and does not fail for ever.
SocketFairness ==
  /\ WF_socketVars(TokenRead)
  /\ WF_socketVars(Resumes)
  /\ WF_socketVars(TimerFires)
  /\ WF_socketVars(IdleFires)
  /\ WF_socketVars(\E s \in Sockets : phase[s] = "doomed" /\ Closes(s))
  /\ SF_socketVars(\E s \in Sockets : Opens(s))

-----------------------------------------------------------------------------
(* Properties. *)

\* Every variable keeps its type.
SocketTypeOK ==
  /\ app \in Apps
  /\ access \in {"valid", "expired", "none"}
  /\ screens \in 0 .. MaxScreens
  /\ ws \in Sockets \cup {NoSocket}
  /\ phase \in [Sockets -> {"closed", "opening", "doomed", "open"}]
  /\ connecting \in BOOLEAN /\ timer \in BOOLEAN /\ idle \in BOOLEAN
  /\ strays \in 0 .. MaxTimers
  /\ awaiting \in 0 .. MaxCloses
  /\ outbox \in Seq(Nat) /\ handed \in Seq(Nat)
  /\ written \in 0 .. MaxFrames

\* "One shared WebSocket for the whole tab" (jobsSocket.ts:6): screens, timers,
\* close handlers and a token that is being read may all call connect, and still
\* no socket is open, or opening, but the one the module points to.
OneSocket == \A s \in Sockets : phase[s] # "closed" => ws = s

\* Frames reach a socket in the order they were written, each once, across drops,
\* reconnects and the outbox (sendJobsEvent, onopen).
FramesInOrder == handed \o outbox = [n \in 1 .. written |-> n]

\* While a screen listens and the session is good, a socket that dropped comes
\* back, with the outbox sent (jobsSocket.ts:15 "Reconnects with backoff").
Reconnects ==
  (screens > 0 /\ access = "valid")
    ~> (screens = 0 \/ access # "valid" \/ (HasSocket /\ phase[ws] = "open" /\ outbox = <<>>))

\* The app's socket does not outlive the screens (socket.ts:6 "closes shortly after
\* the last leaves").  The web client's may: a pending timer, a close handler or a
\* late frame opens it again with nobody listening.
IdleSocketCloses ==
  (app = "mobile" /\ screens = 0 /\ HasSocket) ~> (screens > 0 \/ ~HasSocket)

=============================================================================
