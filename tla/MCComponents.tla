--------------------------- MODULE MCComponents ---------------------------
(***************************************************************************)
(* An instance for TLC of the components that share no state with one      *)
(* another: `part' says which one moves, and the others stay in their      *)
(* initial states.  The session of the web client is checked twice, with   *)
(* one tab and more token pairs and with two tabs and fewer.               *)
(***************************************************************************)
EXTENDS ClientSession, TransferScreen, JobsSocket, JobsChat, Deliveries, TLC

CONSTANTS t1, t2, a, ann, d1, d2

Parts == {"one_tab", "two_tabs", "screen", "socket", "chat", "deliveries"}
MCTabOf == a :> t1
MCMethods == (d1 :> {"paid", "cash", "due", "unpaid"}) @@ (d2 :> {"cash"})

VARIABLE part

others(p) ==
  /\ UNCHANGED part
  /\ p # "session" => UNCHANGED sessionVars
  /\ p # "screen" => UNCHANGED screenVars
  /\ p # "socket" => UNCHANGED socketVars
  /\ p # "chat" => UNCHANGED chatVars
  /\ p # "deliveries" => UNCHANGED deliveryVars

MCInit ==
  /\ part \in Parts
  /\ SessionInit /\ ScreenInit /\ SocketInit /\ ChatInit /\ DeliveryInit
  /\ part # "socket" => app = "web"
  /\ part # "chat" => ~line

\* Bounds of the two instances of the session.  That ann is the first to sign in loses
\* nothing: users are alike.
SessionBound ==
  /\ pairs = <<>> => \A t \in Tabs : form'[t].user \in {Nobody, ann}
  /\ part = "one_tab" => form'[t2] = NoForm
  /\ part = "two_tabs" => Len(pairs') <= 2

SessionPart == part \in {"one_tab", "two_tabs"} /\ SessionNext /\ SessionBound /\ others("session")
ScreenPart == part = "screen" /\ ScreenNext /\ others("screen")
SocketPart == part = "socket" /\ SocketNext /\ others("socket")
ChatPart == part = "chat" /\ ChatNext /\ others("chat")

\* Bound: nothing is claimed of a delivery once cash was saved over its payment.
DeliveryPart ==
  /\ part = "deliveries"
  /\ overwritten = {}
  /\ DeliveryNext
  /\ others("deliveries")

MCNext == SessionPart \/ ScreenPart \/ SocketPart \/ ChatPart \/ DeliveryPart

\* In its initial state none of a module's fair actions is enabled, so the fairness
\* of the parts that stay there asks for nothing.
MCFairness == SessionFairness /\ ScreenFairness /\ SocketFairness

mcVars == <<part, sessionVars, screenVars, socketVars, chatVars, deliveryVars>>

MCSpec == MCInit /\ [][MCNext]_mcVars /\ MCFairness

\* The type invariants of the modules: every variable keeps its type, and what one
\* variable says of another agrees.
TypesOK == SessionTypeOK /\ ScreenTypeOK /\ SocketTypeOK /\ ChatTypeOK /\ DeliveryTypeOK

=============================================================================
