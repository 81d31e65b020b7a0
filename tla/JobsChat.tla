------------------------------ MODULE JobsChat ------------------------------
(***************************************************************************)
(* One user's side of a conversation of the jobs board: JobsChat.tsx (the  *)
(* app's jobs-chat.tsx runs the same code) with ChatService.send, which    *)
(* the WebSocket and the REST endpoint both call.  A message is shown at   *)
(* once as a pending bubble and swapped for the stored one when either way *)
(* confirms it; client_id ties the two together.                           *)
(***************************************************************************)
EXTENDS Naturals, Sequences, FiniteSets

CONSTANTS
  Messages,   \* the messages the user writes, named by their client_id
  MaxTries,   \* bound: times a message is sent (once, then retries)
  MaxSends    \* bound: sends that are on their way at a time

ASSUME ChatParameters == MaxTries \in Nat /\ MaxSends \in Nat

VARIABLES
  line,       \* the page's WebSocket is open
  tries,      \* sends of each message so far
  calls,      \* sends that are on their way, or being served
  rows,       \* back end: the messages of the thread; the n-th row has id n
  heard,      \* chat.message events on their way to the page
  bubbles,    \* `msgs' of the page
  load,       \* the GET that fills the page, and how many rows it brings
  overlapped, \* history: messages two calls were about to store at a time
  reported    \* history: messages of which a send was reported as failed

chatVars == <<line, tries, calls, rows, heard, bubbles, load, overlapped, reported>>

Local == 0    \* the id of a bubble that is not stored yet
Routes == {"rest", "socket", "unheard"}   \* unheard: a REST call the page gave up
RowsOf(m) == {n \in DOMAIN rows : rows[n] = m}
Real(n) == [msg |-> rows[n], id |-> n, look |-> "sent"]

ChatInit ==
  /\ line \in BOOLEAN
  /\ tries = [m \in Messages |-> 0]
  /\ calls = {}
  /\ rows = <<>>
  /\ heard = {}
  /\ bubbles = {}
  /\ load = [step |-> "asked", upto |-> 0]
  /\ overlapped = {}
  /\ reported = {}

-----------------------------------------------------------------------------
(* Bubbles. *)

\* merge: a row that is shown stays as it is, one that is expected takes the place of
\* a pending bubble, and any other is added.
Merged(n) ==
  LET waiting == {b \in bubbles : b.msg = rows[n] /\ b.look = "pending"}
  IN  IF \E b \in bubbles : b.id = n THEN {bubbles}
      ELSE IF waiting # {} THEN {(bubbles \ {b}) \cup {Real(n)} : b \in waiting}
      ELSE {bubbles \cup {Real(n)}}

\* Every bubble of the message, the stored one too.
Looking(m, look) ==
  {IF b.msg = m THEN [b EXCEPT !.look = look] ELSE b : b \in bubbles}

\* A mutant: the initial messages are added one by one.
LoadedOver(n) == bubbles \cup {Real(i) : i \in 1 .. n}

\* setMsgs(r.results)
Loaded(n) == {Real(i) : i \in 1 .. n}

-----------------------------------------------------------------------------
(* Sending. *)

\* deliver: over the socket; by REST when it is closed; or both, when the socket is
\* closing and the frame waits in its outbox.
DeliverMessage(m) ==
  LET call(via) == [msg |-> m, try |-> tries[m] + 1, via |-> via, at |-> "out", id |-> Local]
  IN  /\ tries[m] < MaxTries
      /\ tries' = [tries EXCEPT ![m] = @ + 1]
      /\ \/ line /\ calls' = calls \cup {call("socket")}
         \/ ~line /\ calls' = calls \cup {call("rest")}
         \/ line /\ calls' = calls \cup {call("rest"), call("socket")}
      /\ Cardinality(calls') <= MaxSends

SendMessage(m) ==
  /\ tries[m] = 0
  /\ DeliverMessage(m)
  /\ bubbles' = bubbles \cup {[msg |-> m, id |-> Local, look |-> "pending"]}
  /\ UNCHANGED <<line, rows, heard, load, overlapped, reported>>

\* The button of a failed bubble.
Retry(m) ==
  /\ \E b \in bubbles : b.msg = m /\ b.look = "failed"
  /\ DeliverMessage(m)
  /\ bubbles' = Looking(m, "pending")
  /\ UNCHANGED <<line, rows, heard, load, overlapped, reported>>

\* A call goes on; what the back end answers matters only to who listens: REST, and
\* the error event of a socket (the page ignores its ack).
Moved(c, at, id) ==
  (calls \ {c}) \cup
    {d \in {[c EXCEPT !.at = at, !.id = id]} :
       at = "checked" \/ c.via = "rest" \/ (at = "refused" /\ c.via = "socket")}

\* A mutant: the back end does not look for the client_id.
AlreadyStoredIgnored(m) == {}

\* messages.filter(client_id=...).first()
AlreadyStored(m) == RowsOf(m)

\* ChatService.send up to the lookup; it may refuse the message (closed, blocked).
Looks(c) ==
  /\ c.at = "out"
  /\ LET found == AlreadyStored(c.msg)
     IN  \/ \E n \in found : (\A i \in found : n <= i) /\ calls' = Moved(c, "stored", n)
         \/ found = {} /\ calls' = Moved(c, "checked", Local)
         \/ calls' = Moved(c, "refused", Local)
  /\ overlapped' = IF Cardinality({d \in calls' : d.msg = c.msg /\ d.at = "checked"}) > 1
                     THEN overlapped \cup {c.msg} ELSE overlapped
  /\ UNCHANGED <<line, tries, rows, heard, bubbles, load, reported>>

\* The message is stored and broadcast, to this page if its socket is open.
Stores(c) ==
  LET n == Len(rows) + 1
  IN  /\ c.at = "checked"
      /\ rows' = Append(rows, c.msg)
      /\ heard' = IF line THEN heard \cup {n} ELSE heard
      /\ calls' = Moved(c, "stored", n)
      /\ UNCHANGED <<line, tries, bubbles, load, overlapped, reported>>

SendAnswered(c) ==
  /\ c.at = "stored"
  /\ calls' = calls \ {c}
  /\ bubbles' \in Merged(c.id)
  /\ UNCHANGED <<line, tries, rows, heard, load, overlapped, reported>>

\* A REST call fails, also when only its answer is lost: the call may go on unheard.
SendFails(c) ==
  /\ c.via = "rest"
  /\ bubbles' = Looking(c.msg, "failed")
  /\ reported' = reported \cup {c.msg}
  /\ \/ calls' = calls \ {c}
     \/ /\ c.at \in {"out", "checked"}
        /\ calls' = (calls \ {c}) \cup {[c EXCEPT !.via = "unheard"]}
  /\ UNCHANGED <<line, tries, rows, heard, load, overlapped>>

\* The error event of a socket reaches the pending bubbles only.
ErrorHeard(c) ==
  /\ c.via = "socket"
  /\ c.at = "refused"
  /\ calls' = calls \ {c}
  /\ bubbles' = {IF b.msg = c.msg /\ b.look = "pending" THEN [b EXCEPT !.look = "failed"]
                 ELSE b : b \in bubbles}
  /\ reported' = reported \cup {c.msg}
  /\ UNCHANGED <<line, tries, rows, heard, load, overlapped>>

\* A frame is lost with its socket, or nobody is left to hear of a call.
CallLost(c) ==
  /\ c.via # "rest"
  /\ calls' = calls \ {c}
  /\ UNCHANGED <<line, tries, rows, heard, bubbles, load, overlapped, reported>>

-----------------------------------------------------------------------------
(* The page. *)

Hear(n) ==
  /\ n \in heard
  /\ heard' = heard \ {n}
  /\ bubbles' \in Merged(n)
  /\ UNCHANGED <<line, tries, calls, rows, load, overlapped, reported>>

LineDrops ==
  /\ line
  /\ line' = FALSE
  /\ heard' = {}
  /\ UNCHANGED <<tries, calls, rows, bubbles, load, overlapped, reported>>

LineOpens ==
  /\ ~line
  /\ line' = TRUE
  /\ UNCHANGED <<tries, calls, rows, heard, bubbles, load, overlapped, reported>>

LoadServed ==
  /\ load.step = "asked"
  /\ load' = [step |-> "served", upto |-> Len(rows)]
  /\ UNCHANGED <<line, tries, calls, rows, heard, bubbles, overlapped, reported>>

LoadAnswered ==
  /\ load.step = "served"
  /\ load' = [load EXCEPT !.step = "done"]
  /\ bubbles' = Loaded(load.upto)
  /\ UNCHANGED <<line, tries, calls, rows, heard, overlapped, reported>>

ChatNext ==
  \/ \E m \in Messages : SendMessage(m) \/ Retry(m)
  \/ \E c \in calls :
       Looks(c) \/ Stores(c) \/ SendAnswered(c) \/ SendFails(c) \/ ErrorHeard(c) \/ CallLost(c)
  \/ \E n \in heard : Hear(n)
  \/ LineDrops
  \/ LineOpens
  \/ LoadServed
  \/ LoadAnswered

ChatSpec == ChatInit /\ [][ChatNext]_chatVars

-----------------------------------------------------------------------------
(* Properties. *)

\* Every variable keeps its type, and what is shown as stored is.
ChatTypeOK ==
  /\ line \in BOOLEAN
  /\ tries \in [Messages -> 0 .. MaxTries]
  /\ rows \in Seq(Messages)
  /\ calls \subseteq [msg : Messages, try : 1 .. MaxTries, via : Routes,
                      at : {"out", "checked", "stored", "refused"}, id : 0 .. Len(rows)]
  /\ heard \subseteq DOMAIN rows
  /\ bubbles \subseteq [msg : Messages, id : 0 .. Len(rows), look : {"pending", "failed", "sent"}]
  /\ \A b \in bubbles : b.id # Local => rows[b.id] = b.msg
  /\ \A c \in calls : c.id # Local => rows[c.id] = c.msg
  /\ load \in [step : {"asked", "served", "done"}, upto : 0 .. Len(rows)]
  /\ overlapped \subseteq Messages
  /\ reported \subseteq Messages

\* "A retry never double-sends" (JobsChat.tsx:25), nor does a frame that waits in the
\* outbox while REST sends it too: the back end stores a message once, unless two
\* calls looked for its client_id before either stored it - nothing locks the
\* thread and no constraint makes the pair unique.
StoredOnce == \A m \in Messages : Cardinality(RowsOf(m)) > 1 => m \in overlapped

\* "The optimistic bubble is swapped for the real one exactly once, whichever way the
\* confirmation arrives" (JobsChat.tsx:24), in any order of answer, event and initial
\* load - unless a send was reported as failed that did reach the back end, or the
\* message was stored twice.
ShownOnce ==
  \A m \in Messages \ (reported \cup overlapped) : Cardinality({b \in bubbles : b.msg = m}) <= 1

=============================================================================
