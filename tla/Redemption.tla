----------------------------- MODULE Redemption -----------------------------
(***************************************************************************)
(* The off-ramp: RedemptionService over a RedemptionRepository, a ledger   *)
(* and a payout queue.                                                     *)
(*                                                                         *)
(* request, process_payout, confirm and reclaim each read one row, decide  *)
(* on a copy of it, call the ledger or the queue and write the copy back.  *)
(* They suspend at every port call and nothing serialises them, so each    *)
(* action is one port call's effect with the code around it, `job' is the  *)
(* copy a process carries across, and the write-back (Repository::update)  *)
(* overwrites the row whatever it has become.                              *)
(*                                                                         *)
(* A call that is refused before it changes anything is no step: its guard *)
(* is the guard of the action that starts the call.                        *)
(***************************************************************************)
EXTENDS Treasury

CONSTANTS
  Requesters,   \* concurrent POST /v1/redemptions calls
  Operators,    \* concurrent admin calls: payout and confirm
  Holders,      \* concurrent reclaim calls
  Delta,        \* RedemptionService.delta_secs
  Lossy,        \* TRUE: the ports may answer Submitted, Failed or a transport error
  MaxDrops      \* bound on calls dropped at a suspension

Procs == Requesters \cup Operators \cup Holders

ASSUME RedemptionAssumption ==
  /\ Requesters \cap Operators = {}
  /\ Requesters \cap Holders = {}
  /\ Operators \cap Holders = {}
  /\ Delta \in Nat \ {0}
  /\ Lossy \in BOOLEAN
  /\ MaxDrops \in Nat

VARIABLES
  redemptions,  \* RedemptionRepository: a row per Key, "none" where there is no row
  pc,           \* where each process is suspended
  job,          \* its copy of the Redemption: [key, state, amount, at]
  payouts,      \* RecordingPayoutQueue.sent, as pairs of key and amount
  late,         \* ledger calls accepted but not answered: [op, key]
  drops

redemptionVars == <<treasuryVars, redemptions, pc, job, payouts, late, drops>>

RedemptionStates ==
  {"none", "requested", "escrowed", "payout_queued", "confirmed", "reclaimed", "failed"}
Pending == {"escrowed", "payout_queued"}
Places == {"idle", "insert", "escrow", "saveEscrow", "savePayout", "enqueue",
           "burn", "saveConfirm", "reclaim", "saveReclaim"}

RedemptionRows == [state: RedemptionStates, amount: Nat, at: Nat]
NoRedemption == [state |-> "none", amount |-> 0, at |-> 0]
Copies == [key: Key, state: RedemptionStates, amount: Nat, at: Nat]
NoCopy == [state |-> "none"]

RedemptionTypeOK ==
  /\ TreasuryTypeOK
  /\ redemptions \in [Key -> RedemptionRows]
  /\ pc \in [Procs -> Places]
  /\ job \in [Procs -> Copies \cup {NoCopy}]
  /\ \A p \in Procs : pc[p] # "idle" => job[p] \in Copies
  /\ payouts \subseteq Key \X Nat
  /\ late \subseteq [op: {"escrow", "burn", "reclaim"}, key: Key]
  /\ drops \in Nat

RedemptionInit ==
  /\ TreasuryInit
  /\ redemptions = [k \in Key |-> NoRedemption]
  /\ pc = [p \in Procs |-> "idle"]
  /\ job = [p \in Procs |-> NoCopy]
  /\ payouts = {}
  /\ late = {}
  /\ drops = 0

-----------------------------------------------------------------------------
Row(k) == redemptions[k].state

\* A process takes a copy of row k, moved to `state', to its next port call.
Take(p, k, state, place) ==
  /\ pc[p] = "idle"
  /\ job' = [job EXCEPT ![p] = [key |-> k, state |-> state, amount |-> redemptions[k].amount,
                                at |-> redemptions[k].at]]
  /\ pc' = [pc EXCEPT ![p] = place]

Advance(p, state, place) ==
  /\ job' = [job EXCEPT ![p].state = state]
  /\ pc' = [pc EXCEPT ![p] = place]

Done(p) ==
  /\ pc' = [pc EXCEPT ![p] = "idle"]
  /\ job' = [job EXCEPT ![p] = NoCopy]

\* Repository::update: the row takes the copy's state and escrowed_at.
WriteBack(p) ==
  redemptions' = [redemptions EXCEPT ![job[p].key] =
                    [state |-> job[p].state, amount |-> job[p].amount, at |-> job[p].at]]

-----------------------------------------------------------------------------
\* request: next_seq, insert, escrow_redemption, update.

\* next_seq is MAX(seq) + 1 over the user's rows, 1 when there are none.
NextSeq(u) ==
  LET used == {s \in Seq : Row(<<u, s>>) # "none"}
  IN IF used = {} THEN 1 ELSE Max(used) + 1

ReadSeq(q, u, a) ==
  /\ pc[q] = "idle"
  /\ NextSeq(u) \in Seq
  /\ job' = [job EXCEPT ![q] = [key |-> <<u, NextSeq(u)>>, state |-> "requested",
                                amount |-> a, at |-> 0]]
  /\ pc' = [pc EXCEPT ![q] = "insert"]
  /\ UNCHANGED <<treasuryVars, redemptions, payouts, late, drops>>

\* Mutant: the insert is an upsert.
MutInsertRowUpserts(q) ==
  /\ pc[q] = "insert"
  /\ WriteBack(q)
  /\ pc' = [pc EXCEPT ![q] = "escrow"]
  /\ UNCHANGED <<treasuryVars, job, payouts, late, drops>>

InsertRow(q) ==
  /\ pc[q] = "insert"
  /\ Row(job[q].key) = "none"
  /\ WriteBack(q)
  /\ pc' = [pc EXCEPT ![q] = "escrow"]
  /\ UNCHANGED <<treasuryVars, job, payouts, late, drops>>

\* A concurrent request took the same seq: the unique index refuses the insert.
InsertConflict(q) ==
  /\ pc[q] = "insert"
  /\ Row(job[q].key) # "none"
  /\ Done(q)
  /\ UNCHANGED <<treasuryVars, redemptions, payouts, late, drops>>

EscrowConfirmed(q) ==
  /\ pc[q] = "escrow"
  /\ LedgerEscrow(job[q].key, job[q].amount)
  /\ job' = [job EXCEPT ![q].state = "escrowed", ![q].at = now]
  /\ pc' = [pc EXCEPT ![q] = "saveEscrow"]
  /\ UNCHANGED <<redemptions, payouts, late, drops>>

\* escrow_redemption(..).await? : the row stays Requested.
EscrowRefused(q) ==
  /\ pc[q] = "escrow"
  /\ LedgerEscrowRefused(job[q].key, job[q].amount)
  /\ Done(q)
  /\ UNCHANGED <<redemptions, payouts, late, drops>>

\* Mutant: accept-on-send.
MutEscrowSubmittedCounts(q) ==
  /\ Lossy
  /\ pc[q] = "escrow"
  /\ late' = late \cup {[op |-> "escrow", key |-> job[q].key]}
  /\ Advance(q, "escrowed", "saveEscrow")
  /\ UNCHANGED <<treasuryVars, redemptions, payouts, drops>>

\* Submitted grants nothing: the copy stays Requested and is written back.
EscrowSubmitted(q) ==
  /\ Lossy
  /\ pc[q] = "escrow"
  /\ late' = late \cup {[op |-> "escrow", key |-> job[q].key]}
  /\ Advance(q, "requested", "saveEscrow")
  /\ UNCHANGED <<treasuryVars, redemptions, payouts, drops>>

EscrowFailed(q) ==
  /\ Lossy
  /\ pc[q] = "escrow"
  /\ \/ Advance(q, "failed", "saveEscrow")
     \/ Done(q)
  /\ UNCHANGED <<treasuryVars, redemptions, payouts, late, drops>>

\* escrowed_at is the service's clock, read at some time since the ledger answered.
SaveEscrow(q) ==
  /\ pc[q] = "saveEscrow"
  /\ \E t \in job[q].at .. now :
       /\ job[q].state # "escrowed" => t = job[q].at
       /\ redemptions' = [redemptions EXCEPT ![job[q].key] =
                            [state |-> job[q].state, amount |-> job[q].amount, at |-> t]]
  /\ Done(q)
  /\ UNCHANGED <<treasuryVars, payouts, late, drops>>

-----------------------------------------------------------------------------
\* process_payout: find, Redemption::enqueue_payout, update, enqueue.

\* Mutant: the F4 barrier opens on a request.
MutStartPayoutEarly(o, k) ==
  /\ Row(k) \in {"requested", "escrowed"}
  /\ Take(o, k, "payout_queued", "savePayout")
  /\ UNCHANGED <<treasuryVars, redemptions, payouts, late, drops>>

StartPayout(o, k) ==
  /\ Row(k) = "escrowed"
  /\ Take(o, k, "payout_queued", "savePayout")
  /\ UNCHANGED <<treasuryVars, redemptions, payouts, late, drops>>

SavePayout(o) ==
  /\ pc[o] = "savePayout"
  /\ WriteBack(o)
  /\ pc' = [pc EXCEPT ![o] = "enqueue"]
  /\ UNCHANGED <<treasuryVars, job, payouts, late, drops>>

\* Idempotent on (user, seq).
Enqueue(o) ==
  /\ pc[o] = "enqueue"
  /\ payouts' = IF \E w \in payouts : w[1] = job[o].key
                THEN payouts ELSE payouts \cup {<<job[o].key, job[o].amount>>}
  /\ Done(o)
  /\ UNCHANGED <<treasuryVars, redemptions, late, drops>>

\* UnavailablePayoutQueue refuses every call; the row stays PayoutQueued.
EnqueueRefused(o) ==
  /\ Lossy
  /\ pc[o] = "enqueue"
  /\ Done(o)
  /\ UNCHANGED <<treasuryVars, redemptions, payouts, late, drops>>

-----------------------------------------------------------------------------
\* confirm: find, confirm_redemption (the burn), Redemption::confirm, update.

StartConfirm(o, k) ==
  /\ Row(k) # "none"
  /\ Take(o, k, Row(k), "burn")
  /\ UNCHANGED <<treasuryVars, redemptions, payouts, late, drops>>

\* The copy's state is checked only after the burn: a copy that was not Pending
\* is an error by then, and the row is not written.
BurnConfirmed(o) ==
  /\ pc[o] = "burn"
  /\ LedgerBurn(job[o].key)
  /\ IF job[o].state \in Pending THEN Advance(o, "confirmed", "saveConfirm") ELSE Done(o)
  /\ UNCHANGED <<redemptions, payouts, late, drops>>

BurnRefused(o) ==
  /\ pc[o] = "burn"
  /\ LedgerBurnRefused(job[o].key)
  /\ Done(o)
  /\ UNCHANGED <<redemptions, payouts, late, drops>>

\* Mutant: Submitted is taken for a burn.
MutBurnUnansweredCounts(o) ==
  /\ Lossy
  /\ pc[o] = "burn"
  /\ late' = late \cup {[op |-> "burn", key |-> job[o].key]}
  /\ Advance(o, "confirmed", "saveConfirm")
  /\ UNCHANGED <<treasuryVars, redemptions, payouts, drops>>

\* Anything but Confirmed is an error, and the burn may still land.
BurnUnanswered(o) ==
  /\ Lossy
  /\ pc[o] = "burn"
  /\ late' \in {late, late \cup {[op |-> "burn", key |-> job[o].key]}}
  /\ Done(o)
  /\ UNCHANGED <<treasuryVars, redemptions, payouts, drops>>

SaveConfirm(o) ==
  /\ pc[o] = "saveConfirm"
  /\ WriteBack(o)
  /\ Done(o)
  /\ UNCHANGED <<treasuryVars, payouts, late, drops>>

-----------------------------------------------------------------------------
\* reclaim: find, Redemption::reclaim, reclaim_redemption, update.

\* Mutant: the timelock is one second short.
MutIsReclaimableEarly(k) == Row(k) \in Pending /\ now - redemptions[k].at >= Delta - 1

IsReclaimable(k) == Row(k) \in Pending /\ now - redemptions[k].at >= Delta

\* Mutant: queueing a payout ends the holder's right to reclaim.
MutStartReclaimEscrowedOnly(h, k) ==
  /\ IsReclaimable(k)
  /\ Row(k) = "escrowed"
  /\ Take(h, k, "reclaimed", "reclaim")
  /\ UNCHANGED <<treasuryVars, redemptions, payouts, late, drops>>

StartReclaim(h, k) ==
  /\ IsReclaimable(k)
  /\ Take(h, k, "reclaimed", "reclaim")
  /\ UNCHANGED <<treasuryVars, redemptions, payouts, late, drops>>

ReclaimConfirmed(h) ==
  /\ pc[h] = "reclaim"
  /\ LedgerReclaim(job[h].key)
  /\ Advance(h, "reclaimed", "saveReclaim")
  /\ UNCHANGED <<redemptions, payouts, late, drops>>

ReclaimRefused(h) ==
  /\ pc[h] = "reclaim"
  /\ LedgerReclaimRefused(job[h].key)
  /\ Done(h)
  /\ UNCHANGED <<redemptions, payouts, late, drops>>

ReclaimUnanswered(h) ==
  /\ Lossy
  /\ pc[h] = "reclaim"
  /\ late' \in {late, late \cup {[op |-> "reclaim", key |-> job[h].key]}}
  /\ Done(h)
  /\ UNCHANGED <<treasuryVars, redemptions, payouts, drops>>

SaveReclaim(h) ==
  /\ pc[h] = "saveReclaim"
  /\ WriteBack(h)
  /\ Done(h)
  /\ UNCHANGED <<treasuryVars, payouts, late, drops>>

-----------------------------------------------------------------------------
\* A ledger call nobody waits for any more lands, or is lost.
Land(l) ==
  /\ l \in late
  /\ late' = late \ {l}
  /\ \/ l.op = "escrow" /\ LedgerEscrow(l.key, redemptions[l.key].amount)
     \/ l.op = "burn" /\ LedgerBurn(l.key)
     \/ l.op = "reclaim" /\ LedgerReclaim(l.key)
     \/ UNCHANGED treasuryVars
  /\ UNCHANGED <<redemptions, pc, job, payouts, drops>>

\* The client disconnects, or the process dies: the call ends where it stands.
DropCall(p) ==
  /\ drops < MaxDrops
  /\ pc[p] # "idle"
  /\ drops' = drops + 1
  /\ Done(p)
  /\ UNCHANGED <<treasuryVars, redemptions, payouts, late>>

\* The on-ramp credits holders (Issuance).
OnRamp ==
  /\ \E w \in Account, a \in Amounts, r \in Ref : LedgerIssue(w, a, r)
  /\ UNCHANGED <<redemptions, pc, job, payouts, late, drops>>

Elapse == Tick /\ UNCHANGED <<redemptions, pc, job, payouts, late, drops>>

-----------------------------------------------------------------------------
\* The steps of a call once it has started.
Request(q) ==
  \/ InsertRow(q) \/ InsertConflict(q) \/ EscrowConfirmed(q) \/ EscrowRefused(q)
  \/ EscrowSubmitted(q) \/ EscrowFailed(q) \/ SaveEscrow(q)

Operate(o) ==
  \/ SavePayout(o) \/ Enqueue(o) \/ EnqueueRefused(o)
  \/ BurnConfirmed(o) \/ BurnRefused(o) \/ BurnUnanswered(o) \/ SaveConfirm(o)

Reclaim(h) ==
  \/ ReclaimConfirmed(h) \/ ReclaimRefused(h) \/ ReclaimUnanswered(h) \/ SaveReclaim(h)

\* The service's own steps; the on-ramp and the clock are its environment's.
OffRampNext ==
  \/ \E q \in Requesters : Request(q) \/ \E u \in Account, a \in Amounts : ReadSeq(q, u, a)
  \/ \E o \in Operators : Operate(o) \/ \E k \in Key : StartPayout(o, k) \/ StartConfirm(o, k)
  \/ \E h \in Holders : Reclaim(h) \/ \E k \in Key : StartReclaim(h, k)
  \/ \E l \in late : Land(l)
  \/ \E p \in Procs : DropCall(p)

RedemptionNext == OffRampNext \/ OnRamp \/ Elapse

RedemptionSpec == RedemptionInit /\ [][RedemptionNext]_redemptionVars

\* tokio resumes a call whose port call has completed; an honest holder whose
\* redemption is reclaimable asks for it, and the operator asks for the payout of
\* an Escrowed one.  The issuer owes no confirm: F7 is about the one who does not.
Fairness ==
  /\ \A q \in Requesters : WF_redemptionVars(Request(q))
  /\ \A o \in Operators :
       /\ WF_redemptionVars(Operate(o))
       /\ \A k \in Key : WF_redemptionVars(StartPayout(o, k))
  /\ \A h \in Holders :
       /\ WF_redemptionVars(Reclaim(h))
       /\ \A k \in Key : WF_redemptionVars(StartReclaim(h, k))

FairRedemptionSpec == RedemptionSpec /\ Fairness

-----------------------------------------------------------------------------
\* F2 and F7, the half the records can promise whatever overwrites them: a row
\* says Confirmed only when its tokens are burned, so total_redeemed never counts
\* what supply still holds; it says Reclaimed or Failed only when the ledger
\* holds nothing for it; and the ledger escrows the recorded amount or nothing.
RowsMatchEscrows ==
  \A k \in Key :
    /\ Row(k) = "confirmed" => escrows[k].status = "burned"
    /\ Row(k) \in {"none", "failed", "reclaimed"} => escrows[k].status = "none"
    /\ escrows[k].status # "none" => escrows[k].amount = redemptions[k].amount

\* F4 as the state machine states it: a wire exists only for a redemption whose
\* escrow the ledger confirmed, for the recorded amount, and at most once.
WireFollowsEscrow ==
  \A w \in payouts :
    /\ Row(w[1]) \notin {"none", "requested", "failed"}
    /\ w[2] = redemptions[w[1]].amount
    /\ \A v \in payouts : v[1] = w[1] => v = w

\* Submitted grants nothing: a row leaves Requested, unless the escrow failed, only
\* for tokens the ledger does hold (or has already burned), and with an escrowed_at
\* no earlier than the ledger's -- for every path that writes a row.
EscrowedIsHeld ==
  [][\A k \in Key :
       Row(k) = "requested" /\ Row(k)' \notin {"requested", "failed"} =>
         /\ escrows[k].status \in {"held", "burned"}
         /\ redemptions'[k].at >= escrows[k].at]_redemptionVars

\* "The delta clock starts here, not at requested_at" (Redemption.escrowed_at):
\* tokens leave escrow for their holder only when the ledger has held them for
\* the service's whole delta, even where the ledger's own timelock is shorter.
ReclaimHonoursDelta ==
  [][\A k \in Key :
       escrows[k].status = "held" /\ escrows'[k].status = "none"
         => now - escrows[k].at >= Delta]_redemptionVars

\* Only the process that inserted a row writes its escrow outcome, so a row that
\* has left Requested or Failed never returns there: concurrent next_seq readers
\* do not share a redemption, and no copy reopens one.
RequestedOnce ==
  [][\A k \in Key :
       /\ Row(k) # "none" => redemptions'[k].amount = redemptions[k].amount
       /\ Row(k) \notin {"none", "requested"} /\ Row(k)' # Row(k)
            => Row(k)' \in {"payout_queued", "confirmed", "reclaimed"}]_redemptionVars

\* F7, the token side, where the row records the escrow: once it is reclaimable,
\* its tokens do not stay in escrow whatever the issuer does or leaves undone.
ReclaimableIsRecovered ==
  \A k \in Key : IsReclaimable(k) ~> escrows[k].status # "held"

\* The states of a row whose escrow the ledger has confirmed.
PostEscrow == {"escrowed", "payout_queued", "confirmed", "reclaimed"}

\* What a row and the ledger's record say of a redemption, seen from outside.
EscrowStage(k) ==
  CASE escrows[k].status # "none" -> escrows[k].status
    [] escrows[k].status = "none" /\ Row(k) \in PostEscrow -> "returned"
    [] OTHER -> "open"

Vault == [k \in Key |->
            [stage |-> EscrowStage(k),
             amount |-> IF EscrowStage(k) = "open" THEN 0 ELSE redemptions[k].amount]]

Promise == INSTANCE EscrowPromise WITH vault <- Vault, wires <- payouts

\* F4 and F7 as one promise (invariant.rs): whichever of the calls, their retries and
\* their late landings meet, a redemption's tokens are held once, then burned or
\* returned once, and wired at most once, for the amount that was held.
KeepsEscrowPromise == Promise!EscrowSpec

-----------------------------------------------------------------------------
\* Why the above hold: what a suspended process, or a call nobody waits for, may
\* rely on about its row and the ledger's record, and the inductive strengthening
\* the proofs use.

LateCall(op, k) == [op |-> op, key |-> k] \in late

\* A process that carries a copy made after the escrow was recorded.
Carries(p) ==
  \/ pc[p] \in {"savePayout", "enqueue", "saveConfirm", "reclaim", "saveReclaim"}
  \/ pc[p] = "burn" /\ job[p].state \in Pending

AtEscrow(p) == pc[p] \in {"escrow", "saveEscrow"}

HoldsRedemption(p) ==
  LET k == job[p].key IN
  /\ pc[p] = "insert" => job[p].state = "requested"
  /\ pc[p] \notin {"idle", "insert"} => Row(k) # "none" /\ redemptions[k].amount = job[p].amount
  /\ AtEscrow(p) => Row(k) = "requested"
  /\ pc[p] = "escrow" => escrows[k].status = "none" /\ ~LateCall("escrow", k)
  /\ pc[p] = "saveEscrow" =>
       /\ job[p].state \in {"requested", "escrowed", "failed"}
       /\ job[p].state # "requested" => ~LateCall("escrow", k)
       /\ job[p].state = "escrowed" => /\ escrows[k].status \in {"held", "burned"}
                                      /\ escrows[k].at <= job[p].at
       /\ job[p].state = "failed" => escrows[k].status = "none"
  /\ Carries(p) => Row(k) \in PostEscrow /\ redemptions[k].at = job[p].at
  /\ pc[p] \in {"savePayout", "enqueue"} => job[p].state = "payout_queued"
  /\ pc[p] = "saveConfirm" => job[p].state = "confirmed" /\ escrows[k].status = "burned"
  /\ pc[p] = "reclaim" => job[p].state = "reclaimed" /\ now - job[p].at >= Delta
  /\ pc[p] = "saveReclaim" => job[p].state = "reclaimed" /\ escrows[k].status = "none"

OneRequester ==
  \A p, q \in Procs : AtEscrow(p) /\ AtEscrow(q) /\ job[p].key = job[q].key => p = q

LateCallsAgree ==
  \A k \in Key :
    /\ LateCall("escrow", k) => Row(k) = "requested"
    /\ LateCall("reclaim", k) => Row(k) \in PostEscrow /\ now - redemptions[k].at >= Delta

\* The service never dates an escrow before the ledger does.
StampsAgree ==
  /\ ledgerNow <= now
  /\ \A k \in Key : Row(k) \in PostEscrow /\ escrows[k].status = "held"
                      => escrows[k].at <= redemptions[k].at

RedemptionInv ==
  /\ RedemptionTypeOK
  /\ RowsMatchEscrows
  /\ WireFollowsEscrow
  /\ LateCallsAgree
  /\ StampsAgree
  /\ OneRequester
  /\ \A p \in Procs : HoldsRedemption(p)

-----------------------------------------------------------------------------
\* What the documentation says and the code does not do.

\* "Terminal." (RedemptionState::Confirmed and ::Reclaimed).
TerminalIsFinal ==
  [][\A k \in Key : Row(k) \in {"confirmed", "reclaimed"} => Row(k)' = Row(k)]_redemptionVars

\* F4: "on-chain burn confirmed strictly before fiat payout is enqueued".
BurnBeforeWire == \A w \in payouts : escrows[w[1]].status = "burned"

\* process_payout "cannot queue a wire against an unconfirmed burn however it is
\* called": no wire is queued for tokens the holder has already taken back.
WireHasTokens ==
  [][\A w \in payouts' \ payouts : escrows[w[1]].status # "none"]_redemptionVars

\* "The caller may retry after a crash" (PayoutPort::enqueue): a payout recorded
\* as queued is eventually in the queue.
QueuedIsWired ==
  \A k \in Key : Row(k) = "payout_queued"
    ~> Row(k) # "payout_queued" \/ <<k, redemptions[k].amount>> \in payouts

\* F7: "an honest holder obtains fiat or recovers THBC within delta": tokens the
\* ledger escrows leave escrow, unless the delta their row records is running.
HolderRecovers ==
  \A k \in Key : escrows[k].status = "held"
    ~> escrows[k].status # "held" \/ (Row(k) \in Pending /\ ~IsReclaimable(k))

\* "A redemption interrupted between its burn and its payout row stays in
\* `escrowed', which is recoverable -- the holder can still reclaim after delta"
\* (main.rs, shutdown).
InterruptedIsRecoverable ==
  \A k \in Key : Row(k) = "escrowed" /\ IsReclaimable(k) ~> Row(k) # "escrowed"
=============================================================================
