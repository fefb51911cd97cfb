--------------------------- MODULE ChainBridgeProofs ---------------------------
(***************************************************************************)
(* Theorems about ChainBridge, for any sets of calls, deposits and         *)
(* redemptions, any clock bound and any two ages with EnvelopeAge <        *)
(* ConfirmTimeout.  The argument: the first transaction for a key blocks   *)
(* every later one (OneTransaction), so a recorded failure is final (Dead),*)
(* and a reply, queued or heard, is never truer than the chain.            *)
(***************************************************************************)
EXTENDS ChainBridge, TLAPS

\* The three kinds of intent are told apart by their first component, and none of
\* them is the intent of a call that has not been made.
LEMMA KindsDisjoint ==
  ASSUME NEW i
  PROVE  /\ i \in Once => i \notin Attests /\ i \notin UserSigned
         /\ i \in Attests => i \notin UserSigned
         /\ i \in Once \cup Attests \cup UserSigned => i # Nothing
<1>1. i \in Once => i[1] \in {"issue", "confirmredeem"}
  BY DEF Once
<1>2. i \in Attests => i[1] = "attest"
  BY DEF Attests
<1>3. i \in UserSigned => i[1] \in {"escrow", "reclaim"}
  BY DEF UserSigned
<1> QED
  BY <1>1, <1>2, <1>3, NothingAssumption DEF Intents

\* A call for an effect that happens once is keyed by that effect.
LEMMA KeyIsIntent ==
  ASSUME BridgeTypeOK, NEW c \in Calls, NEW d \in Calls, IsOnce(c)
  PROVE  Recorded(c, d) <=> sent[d] > 0 /\ intent[d] = intent[c]
<1>1. IdempotencyKey(c) = intent[c] /\ intent[c] # Nothing
  BY KindsDisjoint DEF IdempotencyKey, IsOnce
<1>2. IdempotencyKey(d) = intent[c] <=> intent[d] = intent[c]
  BY <1>1, KindsDisjoint DEF IdempotencyKey, IsOnce
<1> QED
  BY <1>1, <1>2 DEF Recorded

\* With nothing sent and nothing stored, the invariant holds.
LEMMA BridgeInitInv == BridgeInit => BridgeInv
<1> SUFFICES ASSUME BridgeInit PROVE BridgeInv
  OBVIOUS
<1> USE DEF BridgeInit
<1>1. BridgeTypeOK
  BY BridgeAssumption DEF BridgeTypeOK
<1>2. ASSUME NEW c \in Calls
      PROVE  ~IsOnce(c) /\ CallAgrees(c) /\ TxAgrees(c) /\ ReplyAgrees(c)
  BY KindsDisjoint, NothingAssumption, BridgeAssumption
     DEF IsOnce, CallAgrees, TxAgrees, ReplyAgrees, Dead, Intents, Open
<1> QED
  BY <1>1, <1>2 DEF BridgeInv, OneTransaction, ConfirmedIsLanded

-----------------------------------------------------------------------------
\* The service's half.  None of its steps touches the chain, so what depends on
\* transactions alone carries over.

LEMMA ChainKept ==
  ASSUME BridgeInv, UNCHANGED chainVars, captured \subseteq captured', gone \subseteq gone',
         \A c \in Calls : stage[c] # "new" => intent'[c] = intent[c]
  PROVE  /\ OneTransaction'
         /\ \A c \in Calls : TxAgrees(c)'
         /\ \A c \in Calls : stage[c] # "new" /\ Dead(c) => Dead(c)'
         /\ \A c, d \in Calls :
              d \in landed /\ intent[d] = intent[c] => stage[c] # "new" /\ intent'[d] = intent'[c]
<1>1. \A c \in Calls : sent[c] > 0 => stage[c] # "new"
  BY DEF BridgeInv, CallAgrees, TxAgrees
<1>2. \A c \in landed : c \in Calls /\ sent[c] > 0
  BY DEF BridgeInv, TxAgrees, BridgeTypeOK
<1>3. \A c \in Calls : intent[c] = Nothing <=> stage[c] = "new"
  BY DEF BridgeInv, CallAgrees
<1>4. OneTransaction'
  BY <1>1, KindsDisjoint DEF BridgeInv, OneTransaction, IsOnce, chainVars
<1>5. \A c \in Calls : TxAgrees(c)'
  BY <1>1, <1>2 DEF BridgeInv, TxAgrees, IsOnce, chainVars
<1>6. ASSUME NEW c \in Calls, stage[c] # "new", Dead(c)
      PROVE  Dead(c)'
  BY <1>1, <1>6 DEF Dead, chainVars
<1>7. ASSUME NEW c \in Calls, NEW d \in Calls, d \in landed, intent[d] = intent[c]
      PROVE  stage[c] # "new" /\ intent'[d] = intent'[c]
  BY <1>1, <1>2, <1>3, <1>7
<1> QED
  BY <1>4, <1>5, <1>6, <1>7

\* A call begins: Subscribe, or a refusal on the spot.
LEMMA BeginInv ==
  ASSUME BridgeInv, NEW c \in Calls, NEW i \in Intents \cup UserSigned,
         Subscribe(c, i) \/ Unsupported(c, i),
         i \in Intents <=> Subscribe(c, i)
  PROVE  BridgeInv'
<1> DEFINE begun == stage[c] = "new" /\ intent' = [intent EXCEPT ![c] = i]
<1>1. /\ begun
      /\ UNCHANGED <<now, deadline, streamVars, replyVars, chainVars>>
      /\ stage' = [stage EXCEPT ![c] = stage'[c]]
      /\ told' = [told EXCEPT ![c] = told'[c]]
      /\ created' = [created EXCEPT ![c] = created'[c]]
  BY DEF Subscribe, Unsupported, streamVars, replyVars, chainVars, BridgeInv, BridgeTypeOK
<1>2. BridgeTypeOK'
  BY DEF Subscribe, Unsupported, streamVars, replyVars, chainVars, BridgeInv, BridgeTypeOK, Open, Ended
<1>3. /\ OneTransaction'
      /\ \A d \in Calls : TxAgrees(d)'
      /\ \A d \in Calls : stage[d] # "new" /\ Dead(d) => Dead(d)'
      /\ \A d, e \in Calls :
           e \in landed /\ intent[e] = intent[d] => stage[d] # "new" /\ intent'[e] = intent'[d]
  <2>1. \A d \in Calls : stage[d] # "new" => intent'[d] = intent[d]
    BY <1>1 DEF BridgeInv, BridgeTypeOK
  <2> QED
    BY <1>1, <2>1, ChainKept DEF streamVars, chainVars
<1>4. told[c] = "nothing" /\ inbox[c] = "none" /\ c \notin routed /\ c \notin captured
  BY <1>1 DEF BridgeInv, CallAgrees, ReplyAgrees, Open
<1>5. ConfirmedIsLanded'
  BY <1>1, <1>3, <1>4 DEF BridgeInv, BridgeTypeOK, ConfirmedIsLanded, Subscribe, Unsupported, chainVars
<1>6. ASSUME NEW d \in Calls
      PROVE  CallAgrees(d)' /\ ReplyAgrees(d)'
  <2>1. CASE d = c
    BY <1>1, <1>4, <2>1, KindsDisjoint
       DEF BridgeInv, BridgeTypeOK, CallAgrees, ReplyAgrees, Subscribe, Unsupported, Open,
           streamVars, replyVars, Intents, IsOnce
  <2>2. CASE d # c
    <3>1. CallAgrees(d)'
      BY <1>1, <2>2 DEF BridgeInv, BridgeTypeOK, CallAgrees, streamVars
    <3>2. ReplyAgrees(d)'
      BY <1>1, <1>3, <2>2, KindsDisjoint
         DEF BridgeInv, BridgeTypeOK, CallAgrees, ReplyAgrees, replyVars, chainVars, IsOnce, Intents
    <3> QED
      BY <3>1, <3>2
  <2> QED
    BY <2>1, <2>2
<1> QED
  BY <1>2, <1>3, <1>5, <1>6 DEF BridgeInv

\* Sending a message keeps the invariant.
LEMMA PublishInv ==
  ASSUME BridgeInv, NEW c \in Calls, Publish(c)
  PROVE  BridgeInv'
<1> USE DEF Publish
<1>1. BridgeTypeOK'
  BY DEF BridgeInv, BridgeTypeOK, Open, replyVars, chainVars
<1>2. /\ OneTransaction'
      /\ \A d \in Calls : TxAgrees(d)'
      /\ \A d \in Calls : stage[d] # "new" /\ Dead(d) => Dead(d)'
  BY ChainKept
<1>3. ConfirmedIsLanded'
  BY DEF BridgeInv, ConfirmedIsLanded, chainVars
<1>4. ASSUME NEW d \in Calls
      PROVE  CallAgrees(d)' /\ ReplyAgrees(d)'
  <2>1. CallAgrees(d)'
    BY KindsDisjoint DEF BridgeInv, BridgeTypeOK, CallAgrees, Open
  <2>2. stage[d] = "new" => ~IsOnce(d)
    BY KindsDisjoint DEF BridgeInv, CallAgrees, IsOnce
  <2>3. ReplyAgrees(d)'
    BY <1>2, <2>2 DEF BridgeInv, BridgeTypeOK, ReplyAgrees, IsOnce, Open, replyVars, chainVars
  <2> QED
    BY <2>1, <2>3
<1> QED
  BY <1>1, <1>2, <1>3, <1>4 DEF BridgeInv

\* An acknowledged store keeps the invariant.
LEMMA AckedInv ==
  ASSUME BridgeInv, NEW c \in Calls, Acked(c)
  PROVE  BridgeInv'
<1> USE DEF Acked
<1>1. BridgeTypeOK'
  BY BridgeAssumption DEF BridgeInv, BridgeTypeOK, Open, streamVars, replyVars, chainVars
<1>2. /\ OneTransaction'
      /\ \A d \in Calls : TxAgrees(d)'
      /\ \A d \in Calls : stage[d] # "new" /\ Dead(d) => Dead(d)'
  BY ChainKept DEF streamVars
<1>3. ConfirmedIsLanded'
  BY DEF BridgeInv, ConfirmedIsLanded, chainVars
<1>4. ASSUME NEW d \in Calls
      PROVE  CallAgrees(d)' /\ ReplyAgrees(d)'
  <2>1. CallAgrees(d)'
    BY BridgeAssumption DEF BridgeInv, BridgeTypeOK, CallAgrees, Open, streamVars
  <2>2. stage[d] = "new" => ~IsOnce(d)
    BY KindsDisjoint DEF BridgeInv, CallAgrees, IsOnce
  <2>3. ReplyAgrees(d)'
    BY <1>2, <2>2 DEF BridgeInv, BridgeTypeOK, ReplyAgrees, IsOnce, Open, replyVars, chainVars
  <2> QED
    BY <2>1, <2>3
<1> QED
  BY <1>1, <1>2, <1>3, <1>4 DEF BridgeInv

\* However a call ends: what it is told must be so, and the rest is given up.
LEMMA EndInv ==
  ASSUME BridgeInv, NEW c \in Calls, NEW how \in Ended,
         NEW o \in {"nothing", "Confirmed", "Submitted", "Failed", "Transient"},
         stage[c] \in Open, End(c, how, o), UNCHANGED <<now, streamVars, chainVars>>,
         o = "Confirmed" => \E d \in landed : intent[d] = intent[c],
         o = "Failed" /\ IsOnce(c) => Dead(c),
         how = "timedOut" => stage[c] = "waiting" /\ now >= deadline[c]
  PROVE  BridgeInv'
<1> USE DEF End
<1>1. BridgeTypeOK'
  BY DEF BridgeInv, BridgeTypeOK, streamVars, chainVars
<1>2. /\ OneTransaction'
      /\ \A d \in Calls : TxAgrees(d)'
      /\ \A d \in Calls : stage[d] # "new" /\ Dead(d) => Dead(d)'
  BY ChainKept DEF streamVars
<1>3. ConfirmedIsLanded'
  BY DEF BridgeInv, BridgeTypeOK, ConfirmedIsLanded, chainVars
<1>4. ASSUME NEW d \in Calls
      PROVE  CallAgrees(d)' /\ ReplyAgrees(d)'
  <2>1. CASE d = c
    <3>1. CallAgrees(d)'
      BY <2>1, BridgeAssumption
         DEF BridgeInv, BridgeTypeOK, CallAgrees, Open, Ended, streamVars
    <3>2. ReplyAgrees(d)'
      BY <1>2, <2>1 DEF BridgeInv, BridgeTypeOK, ReplyAgrees, IsOnce, Open, chainVars
    <3> QED
      BY <3>1, <3>2
  <2>2. CASE d # c
    <3>1. CallAgrees(d)'
      BY <2>2 DEF BridgeInv, BridgeTypeOK, CallAgrees, streamVars
    <3>2. stage[d] = "new" => ~IsOnce(d)
      BY KindsDisjoint DEF BridgeInv, CallAgrees, IsOnce
    <3>3. ReplyAgrees(d)'
      BY <1>2, <2>2, <3>2 DEF BridgeInv, BridgeTypeOK, ReplyAgrees, IsOnce, chainVars
    <3> QED
      BY <3>1, <3>3
  <2> QED
    BY <2>1, <2>2
<1> QED
  BY <1>1, <1>2, <1>3, <1>4 DEF BridgeInv

\* The ways `request' and its caller's future end.
LEMMA EndingsInv ==
  ASSUME BridgeInv, NEW c \in Calls,
         TransportError(c) \/ Hear(c) \/ DecodeError(c) \/ TimeOut(c) \/ SubscriptionClosed(c)
           \/ DropCall(c)
  PROVE  BridgeInv'
<1>1. CASE TransportError(c) \/ DecodeError(c)
  BY <1>1, EndInv DEF TransportError, DecodeError, Open, Ended
<1>2. CASE Hear(c)
  <2>1. inbox[c] \in Replies
    BY <1>2 DEF Hear, BridgeInv, BridgeTypeOK
  <2>2. /\ MapReply(inbox[c]) \in {"Confirmed", "Submitted", "Failed"}
        /\ MapReply(inbox[c]) = "Confirmed" => inbox[c] = "confirmed"
        /\ MapReply(inbox[c]) = "Failed" => inbox[c] = "failed"
    BY <2>1 DEF MapReply, Replies
  <2>3. ReplyAgrees(c)
    BY DEF BridgeInv
  <2> QED
    BY <1>2, <2>2, <2>3, EndInv DEF Hear, Open, Ended, ReplyAgrees
<1>3. CASE TimeOut(c) \/ SubscriptionClosed(c)
  <2>1. MapReply("silence") = "Submitted"
    BY DEF MapReply
  <2> QED
    BY <1>3, <2>1, EndInv DEF TimeOut, SubscriptionClosed, Open, Ended
<1>4. CASE DropCall(c)
  BY <1>4, EndInv DEF DropCall, Ended
<1> QED
  BY <1>1, <1>2, <1>3, <1>4

\* The passage of time keeps the invariant.
LEMMA ElapseInv ==
  ASSUME BridgeInv, Elapse
  PROVE  BridgeInv'
<1> USE DEF Elapse
<1>1. BridgeTypeOK'
  BY DEF BridgeInv, BridgeTypeOK, callVars, streamVars, replyVars, chainVars
<1>2. /\ OneTransaction'
      /\ \A d \in Calls : TxAgrees(d)'
      /\ \A d \in Calls : stage[d] # "new" /\ Dead(d) => Dead(d)'
  BY ChainKept DEF callVars, streamVars
<1>3. ConfirmedIsLanded'
  BY DEF BridgeInv, ConfirmedIsLanded, callVars, chainVars
<1>4. ASSUME NEW d \in Calls
      PROVE  CallAgrees(d)' /\ ReplyAgrees(d)'
  <2>1. CallAgrees(d)'
    BY BridgeAssumption DEF BridgeInv, BridgeTypeOK, CallAgrees, callVars, streamVars
  <2>2. stage[d] = "new" => ~IsOnce(d)
    BY KindsDisjoint DEF BridgeInv, CallAgrees, IsOnce
  <2>3. ReplyAgrees(d)'
    BY <1>2, <2>2 DEF BridgeInv, ReplyAgrees, IsOnce, callVars, replyVars, chainVars
  <2> QED
    BY <2>1, <2>3
<1> QED
  BY <1>1, <1>2, <1>3, <1>4 DEF BridgeInv

-----------------------------------------------------------------------------
\* The bridge's half.

\* A reply may be queued if it is no truer than the chain.
LEMMA ReplyInv ==
  ASSUME BridgeInv, NEW c \in captured, NEW reply \in Replies, Reply(c, reply),
         UNCHANGED <<now, callVars, captured, chainVars>>,
         gone' = gone \/ gone' = gone \cup {c},
         reply = "confirmed" => \E d \in landed : intent[d] = intent[c],
         reply = "failed" /\ IsOnce(c) => Dead(c)'
  PROVE  BridgeInv'
<1> USE DEF callVars
<1>1. BridgeTypeOK' /\ c \in Calls
  BY DEF BridgeInv, BridgeTypeOK, Reply, chainVars, replyVars
<1>2. /\ OneTransaction'
      /\ \A d \in Calls : TxAgrees(d)'
      /\ \A d \in Calls : stage[d] # "new" /\ Dead(d) => Dead(d)'
  BY ChainKept
<1>3. ConfirmedIsLanded'
  BY DEF BridgeInv, ConfirmedIsLanded, chainVars
<1>4. ASSUME NEW d \in Calls
      PROVE  CallAgrees(d)' /\ ReplyAgrees(d)'
  <2>1. CallAgrees(d)'
    BY DEF BridgeInv, CallAgrees
  <2>2. stage[d] = "new" => ~IsOnce(d)
    BY KindsDisjoint DEF BridgeInv, CallAgrees, IsOnce
  <2>3. CASE d = c
    <3>1. ReplyAgrees(d) /\ (told' = told) /\ (intent' = intent) /\ (stage' = stage) /\ (landed' = landed)
      BY DEF BridgeInv, chainVars
    <3>2. CASE inbox' = [inbox EXCEPT ![c] = reply] /\ routed' = routed \cup {c} /\ stage[c] \in Open
      <4>1. inbox'[d] = reply /\ reply # "none" /\ d \in routed'
        BY <1>1, <2>3, <3>2 DEF BridgeInv, BridgeTypeOK, Replies
      <4>2. IsOnce(d) /\ told[d] = "Failed" => Dead(d)'
        BY <1>2, <2>2, <3>1 DEF ReplyAgrees
      <4> QED
        BY <2>1, <2>3, <3>1, <3>2, <4>1, <4>2 DEF ReplyAgrees, IsOnce
    <3>3. CASE inbox' = inbox /\ (routed' = routed \/ (routed' = routed \cup {c} /\ inbox[c] # "none"))
      BY <1>2, <2>1, <2>2, <2>3, <3>1, <3>3 DEF ReplyAgrees, IsOnce
    <3>4. stage[c] \in Open => Listening(c)
      BY DEF Listening
    <3> QED
      BY <3>2, <3>3, <3>4 DEF Reply, replyVars
  <2>4. CASE d # c
    <3>1. inbox'[d] = inbox[d] /\ (d \in routed' <=> d \in routed)
      BY <1>1, <2>4 DEF BridgeInv, BridgeTypeOK, Reply, replyVars
    <3> QED
      BY <1>2, <2>1, <2>2, <3>1 DEF BridgeInv, ReplyAgrees, IsOnce, chainVars
  <2> QED
    BY <2>1, <2>3, <2>4
<1> QED
  BY <1>1, <1>2, <1>3, <1>4 DEF BridgeInv

\* What is recorded for a transaction is true of every call for the same effect.
LEMMA OutcomeHolds ==
  ASSUME BridgeInv, NEW c \in Calls, NEW d \in Calls, sent[d] > 0, intent[d] = intent[c]
  PROVE  /\ Outcome(d) \in Replies
         /\ Outcome(d) = "confirmed" => \E e \in landed : intent[e] = intent[c]
         /\ Outcome(d) = "failed" /\ IsOnce(c) => Dead(c)
<1>1. /\ Outcome(d) \in Replies
      /\ Outcome(d) = "confirmed" => tx[d] = "landed"
      /\ Outcome(d) = "failed" => tx[d] = "failed"
  BY DEF Outcome, Replies
<1>2. tx[d] = "landed" => d \in landed
  BY DEF BridgeInv, TxAgrees
<1>3. ASSUME IsOnce(c), tx[d] = "failed"
      PROVE  Dead(c)
  <2>1. CASE sent[c] = 0
    BY <2>1 DEF Dead
  <2>2. CASE sent[c] # 0
    <3>1. c = d
      BY <1>3, <2>2 DEF BridgeInv, BridgeTypeOK, OneTransaction
    <3> QED
      BY <1>3, <3>1 DEF Dead
  <2> QED
    BY <2>1, <2>2
<1> QED
  BY <1>1, <1>2, <1>3

\* The bridge's answer, rejection or replay of a stored answer keeps the invariant.
LEMMA AnswersInv ==
  ASSUME BridgeInv, NEW c \in Calls,
         BridgeAnswer(c) \/ BridgeReject(c) \/ \E d \in Calls : BridgeReplay(c, d)
  PROVE  BridgeInv'
<1>1. \A d \in Calls : sent[d] > 0 => stage[d] # "new"
  BY DEF BridgeInv, CallAgrees, TxAgrees
<1>2. ASSUME UNCHANGED <<now, callVars, captured, chainVars>>, Dead(c),
             gone' = gone \/ gone' = gone \cup {c}
      PROVE  Dead(c)'
  BY <1>2 DEF Dead, callVars, chainVars
<1>3. CASE BridgeAnswer(c)
  <2>1. /\ Outcome(c) \in Replies
        /\ Outcome(c) = "confirmed" => \E e \in landed : intent[e] = intent[c]
        /\ Outcome(c) = "failed" /\ IsOnce(c) => Dead(c)
    BY <1>3, OutcomeHolds DEF BridgeAnswer
  <2> QED
    BY <1>2, <1>3, <2>1, ReplyInv DEF BridgeAnswer, InStream
<1>4. CASE BridgeReject(c)
  <2>1. Dead(c)'
    BY <1>4 DEF BridgeReject, Dead, chainVars
  <2> QED
    BY <1>4, <2>1, ReplyInv DEF BridgeReject, InStream, Replies
<1>5. ASSUME NEW d \in Calls, BridgeReplay(c, d)
      PROVE  BridgeInv'
  <2>1. sent[d] > 0 /\ intent[d] = intent[c]
    <3>1. /\ sent[d] > 0
          /\ IdempotencyKey(c) # Nothing
          /\ IdempotencyKey(d) = IdempotencyKey(c)
      BY <1>5 DEF BridgeReplay, Recorded
    <3> QED
      BY <3>1 DEF IdempotencyKey
  <2>2. /\ Outcome(d) \in Replies
        /\ Outcome(d) = "confirmed" => \E e \in landed : intent[e] = intent[c]
        /\ Outcome(d) = "failed" /\ IsOnce(c) => Dead(c)
    BY <2>1, OutcomeHolds
  <2> QED
    BY <1>2, <1>5, <2>2, ReplyInv DEF BridgeReplay, InStream
<1> QED
  BY <1>3, <1>4, <1>5

\* A message is taken only where nothing is recorded for its key.
LEMMA SubmitInv ==
  ASSUME BridgeInv, NEW c \in Calls, BridgeSubmit(c)
  PROVE  BridgeInv'
<1> USE DEF BridgeSubmit, callVars
<1>1. BridgeTypeOK'
  BY DEF BridgeInv, BridgeTypeOK, streamVars, replyVars
<1>2. IsOnce(c) => \A d \in Calls : intent[d] = intent[c] => sent[d] = 0
  BY KeyIsIntent DEF BridgeInv, BridgeTypeOK
<1>3. IsOnce(c) => ~Dead(c)
  <2>1. IsOnce(c) => sent[c] = 0 /\ tx[c] = "none"
    BY <1>2 DEF BridgeInv, TxAgrees
  <2> QED
    BY <1>2, <2>1 DEF Dead, InStream, BridgeInv, BridgeTypeOK
<1>4. OneTransaction'
  <2> SUFFICES ASSUME NEW d \in Calls, NEW e \in Calls, IsOnce(d)', intent'[e] = intent'[d],
                      sent'[d] > 0, sent'[e] > 0
               PROVE  d = e /\ sent'[d] = 1
    BY DEF OneTransaction
  <2>1. CASE d # c /\ e # c
    BY <2>1 DEF BridgeInv, BridgeTypeOK, OneTransaction, IsOnce
  <2>2. CASE d = c \/ e = c
    BY <1>2, <2>2 DEF BridgeInv, BridgeTypeOK, IsOnce
  <2> QED
    BY <2>1, <2>2
<1>5. ConfirmedIsLanded'
  BY DEF BridgeInv, ConfirmedIsLanded
<1>6. ASSUME NEW d \in Calls
      PROVE  CallAgrees(d)' /\ TxAgrees(d)' /\ ReplyAgrees(d)'
  <2>1. CallAgrees(d)'
    BY DEF BridgeInv, CallAgrees, streamVars
  <2>2. TxAgrees(d)'
    BY <1>2 DEF BridgeInv, BridgeTypeOK, TxAgrees, IsOnce, streamVars, InStream
  <2>3. IsOnce(d) /\ Dead(d) => Dead(d)'
    <3>1. CASE d = c
      BY <1>3, <3>1
    <3>2. CASE d # c
      BY <3>2 DEF BridgeInv, BridgeTypeOK, Dead, streamVars
    <3> QED
      BY <3>1, <3>2
  <2>4. ReplyAgrees(d)'
    BY <2>3 DEF BridgeInv, ReplyAgrees, IsOnce, replyVars
  <2> QED
    BY <2>1, <2>2, <2>4
<1> QED
  BY <1>1, <1>4, <1>5, <1>6 DEF BridgeInv

\* The settlement of a call on the chain keeps the invariant.
LEMMA SettleInv ==
  ASSUME BridgeInv, NEW c \in Calls, Settle(c)
  PROVE  BridgeInv'
<1> USE DEF Settle, callVars
<1>1. BridgeTypeOK'
  <2>1. intent[c] \in Attests => intent[c][2] \in Figures
    BY DEF Attests
  <2>2. attested' \in [reserve: Figures \cup {0}, ts: Nat]
    BY <2>1 DEF BridgeInv, BridgeTypeOK
  <2>3. tx' \in [Calls -> {"none", "flying", "landed", "failed"}] /\ landed' \subseteq Calls
    BY DEF BridgeInv, BridgeTypeOK
  <2> QED
    BY <2>2, <2>3 DEF BridgeInv, BridgeTypeOK, streamVars, replyVars
<1>2. sent[c] > 0 /\ landed \subseteq landed' /\ landed' \subseteq landed \cup {c}
  BY DEF BridgeInv, BridgeTypeOK, TxAgrees
<1>3. OneTransaction'
  BY DEF BridgeInv, OneTransaction, IsOnce
<1>4. ConfirmedIsLanded'
  BY <1>2 DEF BridgeInv, ConfirmedIsLanded
<1>5. ASSUME NEW d \in Calls
      PROVE  CallAgrees(d)' /\ TxAgrees(d)' /\ ReplyAgrees(d)'
  <2>1. CallAgrees(d)'
    BY DEF BridgeInv, CallAgrees, streamVars
  <2>2. TxAgrees(d)'
    BY <1>2 DEF BridgeInv, BridgeTypeOK, TxAgrees, IsOnce, streamVars
  <2>3. Dead(d) => Dead(d)'
    BY <1>2 DEF BridgeInv, BridgeTypeOK, Dead, streamVars
  <2>4. ReplyAgrees(d)'
    BY <1>2, <2>3 DEF BridgeInv, ReplyAgrees, IsOnce, replyVars
  <2> QED
    BY <2>1, <2>2, <2>4
<1> QED
  BY <1>1, <1>3, <1>4, <1>5 DEF BridgeInv

-----------------------------------------------------------------------------
\* Every step keeps the invariant.
LEMMA BridgeStepInv ==
  ASSUME BridgeInv, [BridgeNext]_bridgeVars
  PROVE  BridgeInv'
<1>1. ASSUME NEW c \in Calls, NEW i \in Intents, Subscribe(c, i)
      PROVE  BridgeInv'
  BY <1>1, BeginInv
<1>2. ASSUME NEW c \in Calls, NEW i \in UserSigned, Unsupported(c, i)
      PROVE  BridgeInv'
  <2>1. i \notin Intents
    BY KindsDisjoint DEF Intents
  <2>2. ~Subscribe(c, i)
    BY <1>2 DEF Unsupported, Subscribe, BridgeInv, BridgeTypeOK
  <2> QED
    BY <1>2, <2>1, <2>2, BeginInv
<1>3. ASSUME NEW c \in Calls, Request(c) \/ DropCall(c)
      PROVE  BridgeInv'
  BY <1>3, PublishInv, AckedInv, EndingsInv DEF Request
<1>4. ASSUME NEW c \in Calls, Bridge(c)
      PROVE  BridgeInv'
  BY <1>4, SubmitInv, SettleInv, AnswersInv DEF Bridge
<1>5. CASE Elapse
  BY <1>5, ElapseInv
<1>6. CASE UNCHANGED bridgeVars
  <2>1. BridgeTypeOK' /\ OneTransaction' /\ ConfirmedIsLanded'
    BY <1>6 DEF BridgeInv, BridgeTypeOK, OneTransaction, ConfirmedIsLanded, IsOnce,
                bridgeVars, callVars, streamVars, replyVars, chainVars
  <2>2. \A d \in Calls : CallAgrees(d)' /\ TxAgrees(d)' /\ ReplyAgrees(d)'
    BY <1>6 DEF BridgeInv, CallAgrees, TxAgrees, ReplyAgrees, Dead, IsOnce,
                bridgeVars, callVars, streamVars, replyVars, chainVars
  <2> QED
    BY <2>1, <2>2 DEF BridgeInv
<1> QED
  BY <1>1, <1>2, <1>3, <1>4, <1>5, <1>6 DEF BridgeNext

\* BridgeInv is an invariant: types, and what ties a call to its transaction and
\* its replies (chain_bridge.rs, request and the three write operations).
THEOREM BridgeInvariance == BridgeSpec => []BridgeInv
<1>1. BridgeInit => BridgeInv
  BY BridgeInitInv
<1>2. BridgeInv /\ [BridgeNext]_bridgeVars => BridgeInv'
  BY BridgeStepInv
<1> QED
  BY <1>1, <1>2, PTL DEF BridgeSpec

\* One transaction for a deposit or a redemption, however often the service asks
\* for it and whatever it was told (the idempotency keys of issue and
\* confirm_redemption).
THEOREM OneTransactionAlways == BridgeSpec => []OneTransaction
<1>1. BridgeInv => OneTransaction
  BY DEF BridgeInv
<1> QED
  BY <1>1, BridgeInvariance, PTL

\* Confirmed is said of what has landed (map_issue_reply).
THEOREM ConfirmedIsLandedAlways == BridgeSpec => []ConfirmedIsLanded
<1>1. BridgeInv => ConfirmedIsLanded
  BY DEF BridgeInv
<1> QED
  BY <1>1, BridgeInvariance, PTL

\* The invariant gives FailedIsSettled.
LEMMA DeadIsSettled == BridgeInv => FailedIsSettled
<1> SUFFICES ASSUME BridgeInv, NEW c \in Calls, IsOnce(c), told[c] = "Failed"
             PROVE  c \notin landed /\ tx[c] # "flying"
  BY DEF FailedIsSettled
<1>1. Dead(c) /\ TxAgrees(c)
  BY DEF BridgeInv, ReplyAgrees
<1> QED
  BY <1>1 DEF Dead, TxAgrees

\* Failed is never said of what has landed or may land (map_issue_reply).
THEOREM FailedIsSettledAlways == BridgeSpec => []FailedIsSettled
BY DeadIsSettled, BridgeInvariance, PTL

\* No call times out over a reply that was routed to it (request subscribes
\* before it publishes).
THEOREM AnsweredIsHeardAlways == BridgeSpec => AnsweredIsHeard
<1> DEFINE Heard == \A c \in Calls : stage[c] = "waiting" /\ stage'[c] = "timedOut" => c \notin routed
<1>1. ASSUME BridgeInv, [BridgeNext]_bridgeVars, NEW c \in Calls, stage[c] = "waiting",
             stage'[c] = "timedOut"
      PROVE  c \notin routed
  <2>1. stage \in [Calls -> {"new"} \cup Open \cup Ended]
    BY <1>1 DEF BridgeInv, BridgeTypeOK
  <2>2. \A d \in Calls, how \in {"answered", "broken", "dropped"} :
          \A o : ~End(d, how, o)
    BY <1>1, <2>1 DEF End
  <2>3. ASSUME NEW d \in Calls
        PROVE  /\ \A i : ~Subscribe(d, i) /\ ~Unsupported(d, i)
               /\ ~Publish(d) /\ ~Acked(d)
    BY <1>1, <2>1 DEF Subscribe, Unsupported, Publish, Acked
  <2>4. ASSUME NEW d \in Calls
        PROVE  ~Hear(d) /\ ~DecodeError(d) /\ ~SubscriptionClosed(d) /\ ~DropCall(d) /\ ~TransportError(d)
    BY <2>2 DEF Hear, DecodeError, SubscriptionClosed, DropCall, TransportError
  <2>5. ASSUME NEW d \in Calls
        PROVE  ~Bridge(d)
    BY <1>1, <2>1 DEF Bridge, BridgeSubmit, BridgeAnswer, BridgeReject, Settle, BridgeReplay, callVars
  <2>6. ~Elapse /\ ~UNCHANGED bridgeVars
    BY <1>1, <2>1 DEF Elapse, bridgeVars, callVars
  <2>7. PICK d \in Calls : TimeOut(d)
    BY <1>1, <2>3, <2>4, <2>5, <2>6 DEF BridgeNext, Request
  <2>8. d = c
    BY <1>1, <2>1, <2>7 DEF TimeOut, End
  <2> QED
    BY <1>1, <2>7, <2>8 DEF TimeOut, BridgeInv, ReplyAgrees
<1>2. BridgeInv /\ [BridgeNext]_bridgeVars => [Heard]_bridgeVars
  BY <1>1
<1> QED
  BY <1>2, BridgeInvariance, PTL DEF BridgeSpec, AnsweredIsHeard

\* What the bridge had not taken when its caller gave up is never taken: the
\* envelope is too old by then (CONFIRM_TIMEOUT_SECS exceeds the envelope's age).
THEOREM LateNeverStartsAlways == BridgeSpec => LateNeverStarts
<1> DEFINE Late == \A c \in Calls : stage[c] = "timedOut" /\ sent[c] = 0 => sent'[c] = 0
<1>1. ASSUME BridgeInv, [BridgeNext]_bridgeVars, NEW c \in Calls, stage[c] = "timedOut",
             sent[c] = 0, sent'[c] # 0
      PROVE  FALSE
  <2>1. created[c] + ConfirmTimeout <= now /\ created[c] \in Nat /\ now \in Nat
    BY <1>1 DEF BridgeInv, BridgeTypeOK, CallAgrees
  <2>2. ~Valid(c)
    BY <2>1, BridgeAssumption DEF Valid
  <2>3. PICK d \in Calls : BridgeSubmit(d)
    BY <1>1 DEF BridgeNext, Request, Bridge, Subscribe, Unsupported, Publish, Acked, TransportError,
                Hear, DecodeError, TimeOut, SubscriptionClosed, DropCall, BridgeAnswer, BridgeReject,
                BridgeReplay, Settle, Elapse, bridgeVars, chainVars
  <2>4. d = c
    BY <1>1, <2>3 DEF BridgeSubmit, BridgeInv, BridgeTypeOK
  <2> QED
    BY <2>2, <2>3, <2>4 DEF BridgeSubmit
<1>2. BridgeInv /\ [BridgeNext]_bridgeVars => [Late]_bridgeVars
  BY <1>1
<1> QED
  BY <1>2, BridgeInvariance, PTL DEF BridgeSpec, LateNeverStarts

-----------------------------------------------------------------------------
\* The adapter implements the promise.

LEMMA AsksOrStutters ==
  ASSUME BridgeInv, NEW c \in Calls, NEW i \in Intents \cup UserSigned,
         Subscribe(c, i) \/ Unsupported(c, i),
         i \in Intents <=> Subscribe(c, i)
  PROVE  (\E e \in Once : Promise!Ask(c, e)) \/ UNCHANGED <<Asked, ToldOnce, Done>>
<1>1. /\ stage[c] = "new" /\ intent[c] = Nothing /\ told[c] = "nothing"
      /\ intent' = [intent EXCEPT ![c] = i] /\ landed' = landed
  BY DEF Subscribe, Unsupported, chainVars, BridgeInv, CallAgrees
<1>2. \A d \in Calls : d # c => intent'[d] = intent[d] /\ told'[d] = told[d]
  BY <1>1 DEF Subscribe, Unsupported, BridgeInv, BridgeTypeOK
<1>3. c \notin landed /\ landed \subseteq Calls
  BY <1>1 DEF BridgeInv, CallAgrees, TxAgrees, BridgeTypeOK
<1>4. ~IsOnce(c) /\ intent'[c] = i
  BY <1>1, KindsDisjoint DEF IsOnce, BridgeInv, BridgeTypeOK
<1>5. Done' = Done
  BY <1>1, <1>2, <1>3 DEF Done, IsOnce
<1>6. CASE i \in Once
  <2>1. told' = told
    BY <1>6, KindsDisjoint DEF Subscribe, Unsupported, Intents
  <2>2. Asked' = [Asked EXCEPT ![c] = i]
    BY <1>2, <1>4, <1>6 DEF Asked, IsOnce
  <2>3. ToldOnce' = ToldOnce
    BY <1>1, <1>2, <1>4, <2>1 DEF ToldOnce, IsOnce
  <2>4. Asked[c] = Nothing
    BY <1>4 DEF Asked
  <2> QED
    BY <1>5, <1>6, <2>2, <2>3, <2>4 DEF Promise!Ask
<1>7. CASE i \notin Once
  <2>1. Asked' = Asked /\ ToldOnce' = ToldOnce
    BY <1>2, <1>4, <1>7 DEF Asked, ToldOnce, IsOnce
  <2> QED
    BY <1>5, <2>1
<1> QED
  BY <1>6, <1>7

\* Ending a call tells its caller what the promise allows, or nothing.
LEMMA TellsOrStutters ==
  ASSUME BridgeInv, BridgeInv', NEW c \in Calls, NEW how,
         NEW o \in {"nothing", "Confirmed", "Submitted", "Failed", "Transient"},
         stage[c] \in Open, End(c, how, o), UNCHANGED chainVars
  PROVE  (\E p \in Promise!Outcomes : Promise!Tell(c, p)) \/ UNCHANGED <<Asked, ToldOnce, Done>>
<1>1. told[c] = "nothing" /\ told' = [told EXCEPT ![c] = o] /\ intent' = intent /\ landed' = landed
  BY DEF End, chainVars, BridgeInv, CallAgrees
<1>2. Asked' = Asked /\ Done' = Done
  BY <1>1 DEF Asked, Done, IsOnce
<1>3. CASE IsOnce(c) /\ o # "nothing"
  <2>1. ToldOnce' = [ToldOnce EXCEPT ![c] = o]
    BY <1>1, <1>3 DEF ToldOnce, IsOnce, BridgeInv, BridgeTypeOK
  <2>2. Asked[c] = intent[c] /\ Asked[c] \in Once /\ ToldOnce[c] = "nothing"
    BY <1>1, <1>3 DEF Asked, ToldOnce, IsOnce
  <2>3. o = "Confirmed" => Asked[c] \in Done
    <3>1. o = "Confirmed" => told'[c] = "Confirmed"
      BY <1>1 DEF BridgeInv, BridgeTypeOK
    <3>2. o = "Confirmed" => \E d \in landed : intent[d] = intent[c]
      BY <1>1, <3>1 DEF BridgeInv, ConfirmedIsLanded
    <3> QED
      BY <1>3, <2>2, <3>2 DEF Done, IsOnce
  <2> QED
    BY <1>2, <1>3, <2>1, <2>2, <2>3 DEF Promise!Tell, Promise!Outcomes
<1>4. CASE ~(IsOnce(c) /\ o # "nothing")
  <2>1. ToldOnce' = ToldOnce
    BY <1>1, <1>4 DEF ToldOnce, IsOnce, BridgeInv, BridgeTypeOK
  <2> QED
    BY <1>2, <2>1
<1> QED
  BY <1>3, <1>4

\* A settlement is what the promise lets happen, or a stutter.
LEMMA HappensOrStutters ==
  ASSUME BridgeInv, NEW c \in Calls, Settle(c)
  PROVE  Promise!Happen(c) \/ UNCHANGED <<Asked, ToldOnce, Done>>
<1>1. intent' = intent /\ told' = told /\ Asked' = Asked /\ ToldOnce' = ToldOnce
  BY DEF Settle, callVars, Asked, ToldOnce, IsOnce
<1>2. CASE IsOnce(c) /\ landed' = landed \cup {c} /\ c \notin landed
  <2>1. \A d \in landed : intent[d] # intent[c]
    BY <1>2, KindsDisjoint DEF Settle, IsOnce
  <2>2. Done' = Done \cup {intent[c]}
    BY <1>1, <1>2 DEF Done, IsOnce
  <2>3. Asked[c] = intent[c] /\ Asked[c] \in Once \ Done /\ ToldOnce[c] = told[c]
    BY <1>2, <2>1 DEF Asked, ToldOnce, Done, IsOnce
  <2>4. told[c] # "Confirmed"
    BY <2>1 DEF BridgeInv, ConfirmedIsLanded
  <2>5. told[c] # "Failed"
    BY <1>2, DeadIsSettled DEF FailedIsSettled, Settle
  <2> QED
    BY <1>1, <2>2, <2>3, <2>4, <2>5 DEF Promise!Happen
<1>3. CASE ~(IsOnce(c) /\ landed' = landed \cup {c} /\ c \notin landed)
  <2>1. Done' = Done
    BY <1>1, <1>3 DEF Settle, Done, IsOnce
  <2> QED
    BY <1>1, <2>1
<1> QED
  BY <1>2, <1>3

\* A step of the bridge is a step of the promise or a stutter.
LEMMA BridgeKeepsStep ==
  ASSUME BridgeInv, BridgeInv', [BridgeNext]_bridgeVars
  PROVE  [Promise!PromiseNext]_<<Asked, ToldOnce, Done>>
<1> DEFINE Stutters == UNCHANGED <<Asked, ToldOnce, Done>>
<1>1. ASSUME NEW c \in Calls, NEW i \in Intents, Subscribe(c, i)
      PROVE  Promise!PromiseNext \/ Stutters
  BY <1>1, AsksOrStutters DEF Promise!PromiseNext
<1>2. ASSUME NEW c \in Calls, NEW i \in UserSigned, Unsupported(c, i)
      PROVE  Promise!PromiseNext \/ Stutters
  <2>1. i \notin Intents /\ ~Subscribe(c, i)
    BY <1>2, KindsDisjoint DEF Intents, Unsupported, Subscribe, BridgeInv, BridgeTypeOK
  <2> QED
    BY <1>2, <2>1, AsksOrStutters DEF Promise!PromiseNext
<1>3. ASSUME NEW c \in Calls,
             TransportError(c) \/ Hear(c) \/ DecodeError(c) \/ TimeOut(c) \/ SubscriptionClosed(c)
               \/ DropCall(c)
      PROVE  Promise!PromiseNext \/ Stutters
  <2>1. \A r \in Replies \cup {"silence"} : MapReply(r) \in {"Confirmed", "Submitted", "Failed"}
    BY DEF MapReply, Replies
  <2>2. inbox[c] # "none" => inbox[c] \in Replies
    BY DEF BridgeInv, BridgeTypeOK
  <2>3. stage[c] \in Open /\ UNCHANGED chainVars
    BY <1>3 DEF TransportError, Hear, DecodeError, TimeOut, SubscriptionClosed, DropCall, Open
  <2>4. CASE TransportError(c) \/ DecodeError(c)
    BY <2>3, <2>4, TellsOrStutters DEF TransportError, DecodeError, Promise!PromiseNext
  <2>5. CASE Hear(c)
    BY <2>1, <2>2, <2>3, <2>5, TellsOrStutters DEF Hear, Promise!PromiseNext
  <2>6. CASE TimeOut(c) \/ SubscriptionClosed(c)
    BY <2>1, <2>3, <2>6, TellsOrStutters DEF TimeOut, SubscriptionClosed, Promise!PromiseNext
  <2>7. CASE DropCall(c)
    BY <2>3, <2>7, TellsOrStutters DEF DropCall, Promise!PromiseNext
  <2> QED
    BY <1>3, <2>4, <2>5, <2>6, <2>7
<1>4. ASSUME NEW c \in Calls, Settle(c)
      PROVE  Promise!PromiseNext \/ Stutters
  BY <1>4, HappensOrStutters DEF Promise!PromiseNext
<1>5. ASSUME NEW c \in Calls,
             Publish(c) \/ Acked(c) \/ BridgeSubmit(c) \/ BridgeAnswer(c) \/ BridgeReject(c)
               \/ \E d \in Calls : BridgeReplay(c, d)
      PROVE  Stutters
  <2>1. UNCHANGED <<intent, told, landed>>
    BY <1>5 DEF Publish, Acked, BridgeSubmit, BridgeAnswer, BridgeReject, BridgeReplay, callVars, chainVars
  <2> QED
    BY <2>1 DEF Asked, ToldOnce, Done, IsOnce
<1>6. CASE Elapse \/ UNCHANGED bridgeVars
  BY <1>6 DEF Elapse, bridgeVars, callVars, chainVars, Asked, ToldOnce, Done, IsOnce
<1> QED
  BY <1>1, <1>2, <1>3, <1>4, <1>5, <1>6 DEF BridgeNext, Request, Bridge

\* The Chain Bridge adapter implements the ledger a service relies on: each effect
\* at most once, Confirmed after it, none after Failed.
THEOREM BridgeKeepsPromise == BridgeSpec => KeepsPromise
<1>1. BridgeInit => Promise!PromiseInit
  <2> SUFFICES ASSUME BridgeInit PROVE Promise!PromiseInit
    OBVIOUS
  <2>1. \A c \in Calls : ~IsOnce(c)
    BY KindsDisjoint DEF BridgeInit, IsOnce
  <2> QED
    BY <2>1 DEF BridgeInit, Promise!PromiseInit, Asked, ToldOnce, Done
<1>2. BridgeInv /\ BridgeInv' /\ [BridgeNext]_bridgeVars => [Promise!PromiseNext]_Promise!promiseVars
  BY BridgeKeepsStep DEF Promise!promiseVars
<1> QED
  BY <1>1, <1>2, BridgeInvariance, PTL DEF BridgeSpec, KeepsPromise, Promise!PromiseSpec
=============================================================================
