----------------------------- MODULE CopilotTokens -----------------------------
(***************************************************************************)
(* The exchanged token of GitHubCopilotHTTPTransport                       *)
(* (src/src/efp_runtime/llm/provider.py): requests in threads of their own *)
(* refresh it when it is due and, once each, when the server answers that  *)
(* it expired.  An exchange runs under a lock and stores token, expiry and *)
(* endpoint one after the other; requests read them without the lock.      *)
(*                                                                         *)
(* The n-th exchange yields token n, which names the host to send to.      *)
(***************************************************************************)
EXTENDS Naturals, Sequences

CONSTANTS Requests, \* requests of runs that share the transport
          Life,     \* ticks a token lives
          Margin,   \* ticks before its end at which it is due
          MaxClock, \* last tick (a bound)
          None

VARIABLES clock,
          issued, \* ticks at which tokens were issued
          token,  \* _token
          expiry, \* token_expires_at
          host,   \* endpoint: the token that named it
          lock,   \* _refresh_lock: the request that holds it, or None
          req     \* a request: where it is, the writes of its exchange it has done, the tick at
                  \* which it found the token good or was issued one, what it sends, and the
                  \* token it was refused, which forces its exchange

vars == <<clock, issued, token, expiry, host, lock, req>>

NewRequest == [pc |-> "idle", stored |-> 0, since |-> 0, host |-> 0, token |-> 0, refused |-> 0]

\* _token_refresh_due
Due == expiry < clock + Margin

Goes(r, pc) == req' = [req EXCEPT ![r].pc = pc]

\* The request goes on to send with what it found now.
Reads(r) == req' = [req EXCEPT ![r].pc = "endpoint", ![r].since = clock]

\* Ticks, a margin a new token does not fall short of, and a request is not None.
CopilotTokensAssumption ==
    /\ {Life, Margin, MaxClock} \subseteq Nat /\ Margin <= Life
    /\ None \notin Requests

-----------------------------------------------------------------------------
\* _refresh_source_token looks before it takes the lock ...
Look(r) ==
    /\ req[r].pc = "idle"
    /\ IF Due THEN Goes(r, "lock") ELSE Reads(r)
    /\ UNCHANGED <<clock, issued, token, expiry, host, lock>>

\* ... and again when it has it.
Lock(r) ==
    /\ req[r].pc = "lock" /\ lock = None
    /\ IF req[r].refused # 0 \/ Due THEN lock' = r /\ Goes(r, "exchange")
       ELSE Reads(r) /\ UNCHANGED lock
    /\ UNCHANGED <<clock, issued, token, expiry, host>>

\* The server issues a token, or does not and the request raises.
Exchange(r) ==
    /\ req[r].pc = "exchange"
    /\ \/ /\ issued' = Append(issued, clock)
          /\ req' = [req EXCEPT ![r].pc = "store", ![r].stored = 0, ![r].since = clock]
          /\ UNCHANGED lock
       \/ Goes(r, "failed") /\ lock' = None /\ UNCHANGED issued
    /\ UNCHANGED <<clock, token, expiry, host>>

\* Variant: the expiry is stored before the token it is of.
ExpiryFirst == <<"expiry", "token", "host">>

\* The writes of _apply_token_exchange.
Writes == <<"token", "expiry", "host">>

Store(r) ==
    /\ req[r].pc = "store"
    /\ LET what == Writes[req[r].stored + 1] IN
       /\ token' = IF what = "token" THEN Len(issued) ELSE token
       /\ expiry' = IF what = "expiry" THEN issued[Len(issued)] + Life ELSE expiry
       /\ host' = IF what = "host" THEN Len(issued) ELSE host
    /\ req' = [req EXCEPT ![r].stored = @ + 1,
                          ![r].pc = IF req[r].stored + 1 = Len(Writes) THEN "endpoint" ELSE "store"]
    /\ lock' = IF req[r].stored + 1 = Len(Writes) THEN None ELSE lock
    /\ UNCHANGED <<clock, issued>>

\* urllib Request(self.endpoint, headers=self._headers()): the endpoint is read first.
ReadHost(r) ==
    /\ req[r].pc = "endpoint"
    /\ req' = [req EXCEPT ![r].pc = "headers", ![r].host = host]
    /\ UNCHANGED <<clock, issued, token, expiry, host, lock>>

ReadToken(r) ==
    /\ req[r].pc = "headers"
    /\ req' = [req EXCEPT ![r].pc = "sent", ![r].token = token]
    /\ UNCHANGED <<clock, issued, token, expiry, host, lock>>

\* The server answers; or it refuses the token, which forces one exchange.
Answer(r) ==
    /\ req[r].pc = "sent"
    /\ \/ Goes(r, "done")
       \/ req' = IF req[r].refused = 0
                 THEN [req EXCEPT ![r].pc = "lock", ![r].refused = req[r].token]
                 ELSE [req EXCEPT ![r].pc = "failed"]
    /\ UNCHANGED <<clock, issued, token, expiry, host, lock>>

Tick == clock < MaxClock /\ clock' = clock + 1 /\ UNCHANGED <<issued, token, expiry, host, lock, req>>

\* The transport is built with an exchange.
Init ==
    /\ clock = 0 /\ issued = <<0>> /\ token = 1 /\ expiry = Life /\ host = 1
    /\ lock = None /\ req = [r \in Requests |-> NewRequest]

Next ==
    \/ \E r \in Requests :
         \/ Look(r) \/ Lock(r) \/ Exchange(r) \/ Store(r) \/ ReadHost(r) \/ ReadToken(r)
         \/ Answer(r)
    \/ Tick

-----------------------------------------------------------------------------
(* Properties                                                              *)

\* Every variable keeps its type.
TypeOK ==
    /\ clock \in 0..MaxClock /\ issued \in Seq(0..MaxClock)
    /\ token \in 1..Len(issued) /\ host \in 1..Len(issued)
    /\ expiry \in 0..(MaxClock + Life)
    /\ lock \in Requests \cup {None}
    /\ req \in [Requests -> [pc: {"idle", "lock", "exchange", "store", "endpoint", "headers", "sent",
                                  "done", "failed"},
                             stored: 0..Len(Writes), since: 0..MaxClock, host: 0..Len(issued),
                             token: 0..Len(issued), refused: 0..Len(issued)]]

\* What a request sends goes together, while others exchange the token: the token is not
\* older than the host, it outlives by the margin the moment it was found good, and after
\* a refusal it is another one.
SendsFreshToken ==
    \A r \in Requests : req[r].pc = "sent" =>
        /\ req[r].token >= req[r].host
        /\ issued[req[r].token] + Life >= req[r].since + Margin
        /\ req[r].token > req[r].refused
=============================================================================
