------------------------------ MODULE MCGateway ------------------------------
(***************************************************************************)
(* Values for TLC: two answers to the cards of a session, three chat       *)
(* handlers, two runs whose status is kept, three title calls, three tool  *)
(* tasks and five events.                                                  *)
(***************************************************************************)
EXTENDS Gateway

CONSTANTS q, p,        \* request ids of cards
          h1, h2, h3,  \* chat handlers
          ra, rb, sa   \* their requests and session

\* One question and one permission request.
OneOfEach == [id \in Ids |-> IF id = q THEN "question" ELSE "permission"]

\* The Portal submits request ra twice, and rb once.
TwiceAndOnce == [h \in Handlers |-> IF h = h3 THEN rb ELSE ra]
OneSession == [h \in Handlers |-> sa]

\* The scene of chat runs alone.
ChatInit == GatewayInit /\ scene = "chat"
ChatSpec == ChatInit /\ [][GatewayNext]_gatewayVars
=============================================================================
