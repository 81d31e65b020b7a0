-------------------------- MODULE ComponentsProofs --------------------------
(***************************************************************************)
(* The components that share no state, side by side: every step of their   *)
(* composition is, for each of them, a step of its own or none.            *)
(***************************************************************************)
EXTENDS MCComponents, ClientSessionProofs, PagesProofs, DeliveriesProofs

LEMMA EachStarts ==
  MCInit => SessionInit /\ ScreenInit /\ SocketInit /\ ChatInit /\ DeliveryInit
  BY DEF MCInit

LEMMA EachMoves ==
  ASSUME [MCNext]_mcVars
  PROVE  /\ [SessionNext]_sessionVars
         /\ [ScreenNext]_screenVars
         /\ [SocketNext]_socketVars
         /\ [ChatNext]_chatVars
         /\ [DeliveryNext]_deliveryVars
<1>1. CASE SessionPart
  BY <1>1 DEF SessionPart, others
<1>2. CASE ScreenPart
  BY <1>2 DEF ScreenPart, others
<1>3. CASE SocketPart
  BY <1>3 DEF SocketPart, others
<1>4. CASE ChatPart
  BY <1>4 DEF ChatPart, others
<1>5. CASE DeliveryPart
  BY <1>5 DEF DeliveryPart, others
<1>6. CASE UNCHANGED mcVars
  BY <1>6 DEF mcVars
<1>7. QED BY <1>1, <1>2, <1>3, <1>4, <1>5, <1>6 DEF MCNext

\* Every variable of the five components keeps its type, and what one variable says of
\* another agrees, in the instance that TLC runs and for any values of its constants.
THEOREM ComponentsTypeCorrect == MCSpec => []TypesOK
<1>1. MCSpec => SessionSpec /\ ScreenSpec /\ SocketSpec /\ ChatSpec /\ DeliverySpec
  BY EachStarts, EachMoves, PTL
  DEF MCSpec, SessionSpec, ScreenSpec, SocketSpec, ChatSpec, DeliverySpec
<1>2. SessionTypeOK /\ ScreenTypeOK /\ SocketTypeOK /\ ChatTypeOK /\ DeliveryTypeOK => TypesOK
  BY DEF TypesOK
<1>3. QED
  BY <1>1, <1>2, SessionTypeCorrect, ScreenTypeCorrect, SocketTypeCorrect, ChatTypeCorrect,
     DeliveryTypeCorrect, PTL

=============================================================================
