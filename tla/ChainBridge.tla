------------------------------ MODULE ChainBridge ------------------------------
(***************************************************************************)
(* ChainBridgeLedger: the LedgerPort over NATS.  A write is a signed       *)
(* message published to a JetStream stream, from which the Chain Bridge    *)
(* pulls it, submits a transaction and answers on a core-NATS subject of   *)
(* the call's own.                                                         *)
(*                                                                         *)
(* A call is identified by its correlation id, and every wait of `request' *)
(* separates two of its actions.  The bridge and the chain are external:   *)
(* their actions say what the adapter's code relies on -- the stream is    *)
(* at-least-once, an unsigned or an old envelope is rejected, a key that   *)
(* has a recorded outcome is answered from the record, the reply has no    *)
(* replay -- and leave open what it does not.                              *)
(***************************************************************************)
EXTENDS Naturals

CONSTANTS
  Calls,           \* correlation ids: one fresh UUID per call
  Mints,           \* bank_ref hashes `issue' is called for
  Burns,           \* (user, seq) pairs `confirm_redemption' is called for
  Figures,         \* reserves `update_attestation' is called with
  Nothing,         \* the intent of a call that has not been made
  Signed,          \* the adapter has an EnvelopeSigner
  EnvelopeAge,     \* the bridge rejects an envelope older than this
  ConfirmTimeout,  \* CONFIRM_TIMEOUT_SECS
  MaxSubmits,      \* bound on the transactions one message is taken for
  MaxTime          \* bound on the clock

ASSUME BridgeAssumption ==
  /\ Signed \in BOOLEAN
  /\ EnvelopeAge \in Nat
  /\ ConfirmTimeout \in Nat
  /\ EnvelopeAge < ConfirmTimeout
  /\ MaxSubmits \in Nat
  /\ MaxTime \in Nat

\* The effects that happen once, and all that can be asked for.
Once == ({"issue"} \X Mints) \cup ({"confirmredeem"} \X Burns)
Attests == {"attest"} \X Figures
\* escrow_redemption and reclaim_redemption: the adapter has no route for them.
UserSigned == {"escrow", "reclaim"} \X Burns
Intents == Once \cup Attests

ASSUME NothingAssumption == Nothing \notin Intents \cup UserSigned

VARIABLES
  now,
  stage,     \* where each call is suspended, or how it ended
  intent,    \* what it asks for
  created,   \* created_at_ms of its envelope
  deadline,  \* when its wait for the reply ends
  told,      \* the ConfirmOutcome or PortError it returned
  captured,  \* messages the stream has stored
  gone,      \* messages the bridge has acknowledged to the stream
  inbox,     \* the first reply queued on the call's subscription
  routed,    \* open calls the broker has routed a reply for
  tx,        \* the transaction last submitted for the call's message
  sent,      \* how many were submitted for it
  landed,    \* calls whose transaction has landed
  attested   \* the treasury's attestation: [reserve, ts]

callVars == <<stage, intent, created, deadline, told>>
streamVars == <<captured, gone>>
replyVars == <<inbox, routed>>
chainVars == <<tx, sent, landed, attested>>
bridgeVars == <<now, callVars, streamVars, replyVars, chainVars>>

Open == {"subscribed", "acking", "waiting"}
Ended == {"answered", "timedOut", "broken", "dropped"}
Replies == {"confirmed", "pending", "failed"}

BridgeTypeOK ==
  /\ now \in Nat
  /\ stage \in [Calls -> {"new"} \cup Open \cup Ended]
  /\ intent \in [Calls -> Intents \cup UserSigned \cup {Nothing}]
  /\ created \in [Calls -> Nat]
  /\ deadline \in [Calls -> Nat]
  /\ told \in [Calls -> {"nothing", "Confirmed", "Submitted", "Failed", "Transient", "Unsupported"}]
  /\ captured \subseteq Calls
  /\ gone \subseteq captured
  /\ inbox \in [Calls -> {"none"} \cup Replies]
  /\ routed \subseteq captured
  /\ tx \in [Calls -> {"none", "flying", "landed", "failed"}]
  /\ sent \in [Calls -> Nat]
  /\ landed \subseteq Calls
  /\ attested \in [reserve: Figures \cup {0}, ts: Nat]

BridgeInit ==
  /\ now = 0
  /\ stage = [c \in Calls |-> "new"]
  /\ intent = [c \in Calls |-> Nothing]
  /\ created = [c \in Calls |-> 0]
  /\ deadline = [c \in Calls |-> 0]
  /\ told = [c \in Calls |-> "nothing"]
  /\ captured = {}
  /\ gone = {}
  /\ inbox = [c \in Calls |-> "none"]
  /\ routed = {}
  /\ tx = [c \in Calls |-> "none"]
  /\ sent = [c \in Calls |-> 0]
  /\ landed = {}
  /\ attested = [reserve |-> 0, ts |-> 0]

-----------------------------------------------------------------------------
\* The call ends, and its subscription with it.
End(c, how, outcome) ==
  /\ stage' = [stage EXCEPT ![c] = how]
  /\ told' = [told EXCEPT ![c] = outcome]
  /\ deadline' = [deadline EXCEPT ![c] = 0]
  /\ inbox' = [inbox EXCEPT ![c] = "none"]
  /\ routed' = routed \ {c}
  /\ UNCHANGED <<intent, created>>

\* Mutant: the bridge's silence is taken for a failure.
MutMapReplySilenceFails(reply) ==
  CASE reply = "confirmed" -> "Confirmed"
    [] reply = "pending" -> "Submitted"
    [] OTHER -> "Failed"

\* Mutant: accept-on-send, what F4 exists to refuse.
MutMapReplyAccepted(reply) == IF reply = "failed" THEN "Failed" ELSE "Confirmed"

\* map_issue_reply, map_confirm_redeem_reply and map_attest_reply are one table.
\* Neither Pending nor silence is a failure: the transaction may still land.
MapReply(reply) ==
  CASE reply = "confirmed" -> "Confirmed"
    [] reply = "failed" -> "Failed"
    [] OTHER -> "Submitted"

-----------------------------------------------------------------------------
\* request, up to the wait for the reply.

\* The envelope is built and stamped, and its reply subject subscribed to.  (Here
\* and in Acked the clock's bound leaves room for the deadline.)
Subscribe(c, i) ==
  /\ stage[c] = "new"
  /\ now + ConfirmTimeout <= MaxTime
  /\ stage' = [stage EXCEPT ![c] = "subscribed"]
  /\ intent' = [intent EXCEPT ![c] = i]
  /\ created' = [created EXCEPT ![c] = now]
  /\ UNCHANGED <<now, deadline, told, streamVars, replyVars, chainVars>>

\* escrow_redemption, reclaim_redemption: nothing is published.
Unsupported(c, i) ==
  /\ stage[c] = "new"
  /\ stage' = [stage EXCEPT ![c] = "answered"]
  /\ told' = [told EXCEPT ![c] = "Unsupported"]
  /\ intent' = [intent EXCEPT ![c] = i]
  /\ UNCHANGED <<now, created, deadline, streamVars, replyVars, chainVars>>

\* jetstream.publish: the stream stores the message, or it is lost on the way.
Publish(c) ==
  /\ stage[c] = "subscribed"
  /\ stage' = [stage EXCEPT ![c] = "acking"]
  /\ captured' \in {captured, captured \cup {c}}
  /\ UNCHANGED <<now, intent, created, deadline, told, gone, replyVars, chainVars>>

\* Mutant: the timeout is given in the wrong unit.
MutAckedAtOnce(c) ==
  /\ stage[c] = "acking"
  /\ c \in captured
  /\ stage' = [stage EXCEPT ![c] = "waiting"]
  /\ deadline' = [deadline EXCEPT ![c] = now]
  /\ UNCHANGED <<now, intent, created, told, streamVars, replyVars, chainVars>>

\* The PubAck arrives, and the wait for the reply begins.
Acked(c) ==
  /\ stage[c] = "acking"
  /\ c \in captured
  /\ now + ConfirmTimeout <= MaxTime
  /\ stage' = [stage EXCEPT ![c] = "waiting"]
  /\ deadline' = [deadline EXCEPT ![c] = now + ConfirmTimeout]
  /\ UNCHANGED <<now, intent, created, told, streamVars, replyVars, chainVars>>

\* subscribe, publish or its ack fails.  An ack that is lost is not a message
\* that is lost: the stream may have stored it.
TransportError(c) ==
  /\ stage[c] \in {"subscribed", "acking"}
  /\ End(c, "broken", "Transient")
  /\ UNCHANGED <<now, streamVars, chainVars>>

-----------------------------------------------------------------------------
\* The wait: a reply is decoded, or there is none before the deadline, or the
\* subscription is closed under it.

Hear(c) ==
  /\ stage[c] = "waiting"
  /\ inbox[c] # "none"
  /\ End(c, "answered", MapReply(inbox[c]))
  /\ UNCHANGED <<now, streamVars, chainVars>>

DecodeError(c) ==
  /\ stage[c] = "waiting"
  /\ inbox[c] # "none"
  /\ End(c, "broken", "Transient")
  /\ UNCHANGED <<now, streamVars, chainVars>>

\* Mutant: the wait for a reply has no deadline.
MutTimeOutWaits(c) ==
  /\ stage[c] = "waiting"
  /\ inbox[c] # "none"
  /\ End(c, "answered", MapReply(inbox[c]))
  /\ UNCHANGED <<now, streamVars, chainVars>>

TimeOut(c) ==
  /\ stage[c] = "waiting"
  /\ inbox[c] = "none"
  /\ now >= deadline[c]
  /\ End(c, "timedOut", MapReply("silence"))
  /\ UNCHANGED <<now, streamVars, chainVars>>

SubscriptionClosed(c) ==
  /\ stage[c] = "waiting"
  /\ inbox[c] = "none"
  /\ End(c, "broken", MapReply("silence"))
  /\ UNCHANGED <<now, streamVars, chainVars>>

\* The caller's future is dropped, or the service restarts.
DropCall(c) ==
  /\ stage[c] \in Open
  /\ End(c, "dropped", "nothing")
  /\ UNCHANGED <<now, streamVars, chainVars>>

-----------------------------------------------------------------------------
\* The bridge.

InStream(c) == c \in captured \ gone

\* Mutant: the key is the call's, so a re-send is a new issuance.
MutIdempotencyKeyPerCall(c) == IF intent[c] \in Attests THEN Nothing ELSE <<"issue", c>>

\* `issue:<hash>' and `confirmredeem:<user>:<seq>'; an attestation has none.
IdempotencyKey(c) == IF intent[c] \in Attests THEN Nothing ELSE intent[c]

\* The call whose transaction stands recorded for c's key.
Recorded(c, d) == sent[d] > 0 /\ IdempotencyKey(c) # Nothing /\ IdempotencyKey(d) = IdempotencyKey(c)

Valid(c) == Signed /\ now <= created[c] + EnvelopeAge

\* Mutant: the adapter subscribes once its publish is acknowledged.
MutListeningLate(c) == stage[c] = "waiting"

\* The reply subject has a subscriber from before the publish.
Listening(c) == stage[c] \in Open

\* The broker routes a reply to whoever listens on the call's subject at that
\* moment, or loses it; after the call has ended, nobody does.
Reply(c, reply) ==
  \/ /\ stage[c] \in Open
     /\ routed' = routed \cup {c}
     /\ inbox' = IF Listening(c) /\ inbox[c] = "none"
                 THEN [inbox EXCEPT ![c] = reply] ELSE inbox
  \/ UNCHANGED replyVars

Outcome(d) ==
  CASE tx[d] = "landed" -> "confirmed"
    [] tx[d] = "failed" -> "failed"
    [] OTHER -> "pending"

\* Taken from the stream: the key has no record, or there is no key.
BridgeSubmit(c) ==
  /\ InStream(c)
  /\ Valid(c)
  /\ \A d \in Calls : ~Recorded(c, d)
  /\ tx[c] # "flying"
  /\ sent[c] < MaxSubmits
  /\ tx' = [tx EXCEPT ![c] = "flying"]
  /\ sent' = [sent EXCEPT ![c] = @ + 1]
  /\ UNCHANGED <<now, callVars, streamVars, replyVars, landed, attested>>

\* The outcome of its polling window; the message is acknowledged, or stays and
\* is delivered again.
BridgeAnswer(c) ==
  /\ InStream(c)
  /\ sent[c] > 0
  /\ Reply(c, Outcome(c))
  /\ gone' \in {gone, gone \cup {c}}
  /\ UNCHANGED <<now, callVars, captured, chainVars>>

\* A re-send replays the outcome recorded for its key.
BridgeReplay(c, d) ==
  /\ InStream(c)
  /\ Valid(c)
  /\ d # c
  /\ Recorded(c, d)
  /\ Reply(c, Outcome(d))
  /\ gone' \in {gone, gone \cup {c}}
  /\ UNCHANGED <<now, callVars, captured, chainVars>>

\* An unsigned or an old envelope; whether that is answered is not ours to say.
BridgeReject(c) ==
  /\ InStream(c)
  /\ ~Valid(c)
  /\ sent[c] = 0
  /\ gone' = gone \cup {c}
  /\ Reply(c, "failed")
  /\ UNCHANGED <<now, callVars, captured, chainVars>>

\* The transaction lands or fails.  The deposit nullifier and the redemption
\* record let an effect happen once; an attestation is overwritten.
Settle(c) ==
  /\ tx[c] = "flying"
  /\ \/ /\ tx' = [tx EXCEPT ![c] = "landed"]
        /\ intent[c] \in Attests \/ \A d \in landed : intent[d] # intent[c]
        /\ landed' = landed \cup {c}
        /\ attested' = IF intent[c] \in Attests
                       THEN [reserve |-> intent[c][2], ts |-> now] ELSE attested
     \/ /\ tx' = [tx EXCEPT ![c] = "failed"]
        /\ UNCHANGED <<landed, attested>>
  /\ UNCHANGED <<now, callVars, streamVars, replyVars, sent>>

Elapse ==
  /\ now < MaxTime
  /\ now' = now + 1
  /\ UNCHANGED <<callVars, streamVars, replyVars, chainVars>>

-----------------------------------------------------------------------------
\* The steps of a call that is open.
Request(c) ==
  \/ Publish(c) \/ Acked(c) \/ TransportError(c)
  \/ Hear(c) \/ DecodeError(c) \/ TimeOut(c) \/ SubscriptionClosed(c)

Bridge(c) ==
  \/ BridgeSubmit(c) \/ BridgeAnswer(c) \/ BridgeReject(c) \/ Settle(c)
  \/ \E d \in Calls : BridgeReplay(c, d)

BridgeNext ==
  \/ \E c \in Calls :
       \/ \E i \in Intents : Subscribe(c, i)
       \/ \E i \in UserSigned : Unsupported(c, i)
       \/ Request(c) \/ DropCall(c) \/ Bridge(c)
  \/ Elapse

BridgeSpec == BridgeInit /\ [][BridgeNext]_bridgeVars

\* tokio resumes a call whose wait is over, except that nothing obliges a
\* subscription to close; time passes.  The bridge owes nothing.
BridgeFairness ==
  /\ \A c \in Calls :
       /\ WF_bridgeVars(Publish(c))
       /\ WF_bridgeVars(Acked(c) \/ TransportError(c))
       /\ WF_bridgeVars(Hear(c) \/ DecodeError(c))
       /\ WF_bridgeVars(TimeOut(c))
  /\ WF_bridgeVars(Elapse)

FairBridgeSpec == BridgeSpec /\ BridgeFairness

-----------------------------------------------------------------------------
\* What is asked for once: the calls of `issue' and `confirm_redemption'.
IsOnce(c) == intent[c] \in Once

\* "A re-send replays the bridge's recorded outcome instead of attempting a
\* second on-chain issuance" (issue): however often the service asks for the same
\* deposit or redemption, with whatever became of the earlier calls, one
\* transaction is submitted for it.
OneTransaction ==
  \A c, d \in Calls :
    IsOnce(c) /\ intent[d] = intent[c] /\ sent[c] > 0 /\ sent[d] > 0 => c = d /\ sent[c] = 1

\* F4, at the wire: Confirmed is returned only for what has landed on the chain,
\* by this call's transaction or by the one that stood recorded for its key.
ConfirmedIsLanded ==
  \A c \in Calls : told[c] = "Confirmed" => \E d \in landed : intent[d] = intent[c]

\* Failed is a settled claim (map_issue_reply): a mint or a burn the caller was
\* told had failed is not landed by its request, then or later.
FailedIsSettled ==
  \A c \in Calls :
    IsOnce(c) /\ told[c] = "Failed" => c \notin landed /\ tx[c] # "flying"

\* "Subscribe before publishing" (request): a call is never left to time out when
\* the broker has routed a reply for it -- there is no replay to fall back on.
AnsweredIsHeard ==
  [][\A c \in Calls :
       stage[c] = "waiting" /\ stage'[c] = "timedOut" => c \notin routed]_bridgeVars

\* Silence settles in one direction: a request that was never taken by the time
\* its caller gave up waiting for it is never taken later, because its envelope is
\* by then too old.  What the records call Submitted is a transaction under way.
LateNeverStarts ==
  [][\A c \in Calls :
       stage[c] = "timedOut" /\ sent[c] = 0 => sent'[c] = 0]_bridgeVars

\* Every write returns to its caller, whatever the bridge does or leaves undone.
CallsReturn == \A c \in Calls : stage[c] \in Open ~> stage[c] \in Ended

\* The adapter is a ledger as the services assume one: the abstract effect of a
\* call is the landing of a transaction for the same intent.
Asked == [c \in Calls |-> IF IsOnce(c) THEN intent[c] ELSE Nothing]
ToldOnce == [c \in Calls |-> IF IsOnce(c) THEN told[c] ELSE "nothing"]
Done == {intent[d] : d \in {e \in landed : IsOnce(e)}}

Promise == INSTANCE LedgerPromise WITH
  Effects <- Once, Unasked <- Nothing, asked <- Asked, told <- ToldOnce, done <- Done

KeepsPromise == Promise!PromiseSpec

\* Why the above hold: what is so of a call's transaction, replies and deadline,
\* and the inductive strengthening the proofs use.

\* Nothing that is still to come of the call can land a transaction.
Dead(c) ==
  \/ tx[c] = "failed"
  \/ sent[c] = 0 /\ (c \in gone \/ \E d \in Calls : sent[d] > 0 /\ intent[d] = intent[c])

CallAgrees(c) ==
  /\ intent[c] = Nothing <=> stage[c] = "new"
  /\ intent[c] \in UserSigned => stage[c] = "answered" /\ told[c] = "Unsupported" /\ c \notin captured
  /\ stage[c] \in {"new", "subscribed"} => c \notin captured
  /\ stage[c] \in {"new"} \cup Open => told[c] = "nothing"
  /\ created[c] <= now
  /\ stage[c] = "waiting" => created[c] + ConfirmTimeout <= deadline[c]
  /\ stage[c] = "timedOut" => created[c] + ConfirmTimeout <= now

TxAgrees(c) ==
  /\ sent[c] > 0 => c \in captured
  /\ sent[c] = 0 <=> tx[c] = "none"
  /\ c \in landed => sent[c] > 0
  /\ tx[c] = "landed" => c \in landed
  /\ IsOnce(c) /\ c \in landed => tx[c] = "landed"

ReplyAgrees(c) ==
  /\ c \in routed <=> inbox[c] # "none"
  /\ c \in routed => stage[c] \in Open
  /\ inbox[c] = "confirmed" => \E d \in landed : intent[d] = intent[c]
  /\ IsOnce(c) /\ inbox[c] = "failed" => Dead(c)
  /\ IsOnce(c) /\ told[c] = "Failed" => Dead(c)

BridgeInv ==
  /\ BridgeTypeOK
  /\ OneTransaction
  /\ ConfirmedIsLanded
  /\ \A c \in Calls : CallAgrees(c) /\ TxAgrees(c) /\ ReplyAgrees(c)

-----------------------------------------------------------------------------
\* What the documentation says and the code does not do.

\* "A replay only re-stamps `attestation_ts'" (update_attestation): an
\* attestation that lands a second time writes the figure that is already there.
ReplayOnlyRestamps ==
  [][\A c \in Calls :
       c \in landed /\ tx[c] = "flying" /\ tx'[c] = "landed"
         => attested'.reserve = attested.reserve]_bridgeVars
=============================================================================
