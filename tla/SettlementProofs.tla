-------------------------- MODULE SettlementProofs --------------------------
(***************************************************************************)
(* Theorems about both legs and reconciliation over one ledger, for every  *)
(* set of accounts, deposits, redemptions and processes, with lost replies, *)
(* late landings, dropped calls and restarts.                              *)
(*                                                                         *)
(* The argument: neither leg disturbs what the other's invariant speaks of *)
(* (RedemptionInvKept, IssuanceInvKept), so RedemptionInv and     *)
(* On!IssuanceInv hold side by side.  Then only what a step does to the    *)
(* ledger matters (LedgerStep: nothing, a recorded mint, an escrow, a burn *)
(* or a reclaim), and the three sums follow from the five cases.           *)
(*                                                                         *)
(* OnP is IssuanceProofs under the substitution of On: its lemmas are      *)
(* cited through the On... lemmas, which say the two instances agree.      *)
(***************************************************************************)
EXTENDS Settlement, RedemptionProofs, TreasuryProofs

OnP == INSTANCE IssuanceProofs WITH pc <- ipc, job <- ijob, at <- iat

-----------------------------------------------------------------------------
\* The on-ramp's lemmas, under the names Settlement knows them by.

LEMMA OnEncumbered ==
  On!TotalEncumbered = OnP!TotalEncumbered /\ On!RecordedAmount = OnP!RecordedAmount
  BY DEF On!TotalEncumbered, OnP!TotalEncumbered, On!Encumbering, OnP!Encumbering,
         On!RecordedAmount, OnP!RecordedAmount, On!State, OnP!State, On!SumFunctionOnSet,
         OnP!SumFunctionOnSet, On!FoldFunctionOnSet, OnP!FoldFunctionOnSet,
         On!MapThenFoldSet, OnP!MapThenFoldSet

\* The two instances state the same invariant,
LEMMA OnInv == On!IssuanceInv <=> OnP!IssuanceInv
  BY DEF On!Key, OnP!Key, On!EscrowRecords, OnP!EscrowRecords, On!TreasuryTypeOK,
         OnP!TreasuryTypeOK, On!IssuanceTypeOK, OnP!IssuanceTypeOK, On!Procs, OnP!Procs,
         On!DepositStates, OnP!DepositStates, On!Outcomes, OnP!Outcomes, On!Told,
         OnP!Told, On!Suspended, OnP!Suspended, On!Jobs, OnP!Jobs, On!Rows, OnP!Rows,
         On!NoRow, OnP!NoRow, On!NoJob, OnP!NoJob, On!State, OnP!State,
         On!RecordsMatchMints, OnP!RecordsMatchMints, On!Driving, OnP!Driving,
         On!HoldsRow, OnP!HoldsRow, On!InflightIsAttested, OnP!InflightIsAttested,
         On!OneScreener, OnP!OneScreener, On!IssuanceInv, OnP!IssuanceInv

\* start in the same states,
LEMMA OnInit == On!IssuanceInit <=> OnP!IssuanceInit
  BY DEF On!Key, OnP!Key, On!TreasuryInit, OnP!TreasuryInit, On!NoEscrow, OnP!NoEscrow,
         On!NoRow, OnP!NoRow, On!NoJob, OnP!NoJob, On!NoSnap, OnP!NoSnap, On!NoAttest,
         OnP!NoAttest, On!Procs, OnP!Procs, On!IssuanceInit, OnP!IssuanceInit

\* take the same steps,
LEMMA OnNext ==
  /\ On!OnRampNext <=> OnP!OnRampNext
  /\ On!Restart <=> OnP!Restart
  BY OnEncumbered DEF On!treasuryVars, OnP!treasuryVars, On!clockVars, OnP!clockVars, On!ledgerVars,
         OnP!ledgerVars, On!rowVars, OnP!rowVars, On!procVars, OnP!procVars, On!MayIssue,
         OnP!MayIssue, On!FreeBacking, OnP!FreeBacking, On!Fresh, OnP!Fresh,
         On!LedgerIssue, OnP!LedgerIssue, On!LedgerIssueRefused, OnP!LedgerIssueRefused,
         On!LedgerAttest, OnP!LedgerAttest, On!Procs, OnP!Procs, On!Told, OnP!Told,
         On!Suspended, OnP!Suspended, On!NoJob, OnP!NoJob, On!NoSnap, OnP!NoSnap,
         On!NoAttest, OnP!NoAttest, On!State, OnP!State, On!Save, OnP!Save, On!Free,
         OnP!Free, On!Goto, OnP!Goto, On!Return, OnP!Return, On!Deliver, OnP!Deliver,
         On!ReplayPrior, OnP!ReplayPrior, On!ScreenPass, OnP!ScreenPass, On!ScreenFail,
         OnP!ScreenFail, On!ScreenError, OnP!ScreenError, On!ListHeld, OnP!ListHeld,
         On!RetryHeld, OnP!RetryHeld, On!TakeSnapshot, OnP!TakeSnapshot,
         On!ServiceAllows, OnP!ServiceAllows, On!CheckReserve, OnP!CheckReserve,
         On!HoldDeposit, OnP!HoldDeposit, On!SaveAttested, OnP!SaveAttested,
         On!IssueConfirmed, OnP!IssueConfirmed, On!IssueRefused, OnP!IssueRefused,
         On!IssueSubmitted, OnP!IssueSubmitted, On!IssueFailed, OnP!IssueFailed,
         On!SaveIssued, OnP!SaveIssued, On!Land, OnP!Land, On!AttestRead, OnP!AttestRead,
         On!AttestPublish, OnP!AttestPublish, On!AttestAgain, OnP!AttestAgain,
         On!AttestLost, OnP!AttestLost, On!DropHandler, OnP!DropHandler, On!Restart,
         OnP!Restart, On!Process, OnP!Process, On!Handler, OnP!Handler, On!OnRampNext,
         OnP!OnRampNext

\* and type the same state, the ledger being the one ledger here.
LEMMA OnTypes ==
  /\ On!IssuanceTypeOK <=> OnP!IssuanceTypeOK
  /\ On!TreasuryTypeOK <=> TreasuryTypeOK
  /\ On!treasuryVars = treasuryVars
  BY DEF On!Key, OnP!Key, On!EscrowRecords, OnP!EscrowRecords, On!TreasuryTypeOK,
         OnP!TreasuryTypeOK, On!IssuanceTypeOK, OnP!IssuanceTypeOK, On!Procs, OnP!Procs,
         On!DepositStates, OnP!DepositStates, On!Outcomes, OnP!Outcomes, On!Told,
         OnP!Told, On!Suspended, OnP!Suspended, On!Jobs, OnP!Jobs, On!Rows, OnP!Rows,
         On!NoRow, OnP!NoRow, On!NoJob, OnP!NoJob, On!treasuryVars, OnP!treasuryVars,
         On!clockVars, OnP!clockVars, On!ledgerVars, OnP!ledgerVars,
         TreasuryTypeOK, Key, EscrowRecords, treasuryVars, clockVars, ledgerVars

\* What the proofs of the on-ramp assume of the constants holds here.
LEMMA OnAssumptions ==
  /\ Sweep \notin Handlers
  /\ Nobody \notin Ref
  /\ Nobody \notin Account
  /\ Lossy \in BOOLEAN
  /\ MaxCrashes \in Nat
  /\ OnP!IsFiniteSet(Account) /\ OnP!IsFiniteSet(Ref) /\ OnP!IsFiniteSet(Seq)
  BY SettlementAssumption, RedemptionAssumption, FiniteAssumption DEF OnP!IsFiniteSet, IsFiniteSet

\* An on-ramp step, or a restart, keeps the on-ramp's invariant and mints only what is recorded.
LEMMA OnRampStep ==
  ASSUME On!IssuanceInv, On!OnRampNext \/ On!Restart
  PROVE  /\ On!IssuanceInv'
         /\ OnP!RowStep
         /\ ~UNCHANGED <<supply, nullifiers, balances>> =>
              \E r \in Ref \ nullifiers :
                /\ nullifiers' = nullifiers \cup {r}
                /\ On!State(r) \in {"attested", "issued"}
                /\ supply' = supply + deposits[r].amount
                /\ balances' = [balances EXCEPT ![deposits[r].wallet] = @ + deposits[r].amount]
  <1>1. OnP!IssuanceInv /\ OnP!IssuanceNext
    BY OnInv, OnNext DEF OnP!IssuanceNext
  <1>2. OnP!IssuanceInv' /\ OnP!RowStep
    BY <1>1, OnP!StepInvariant, OnAssumptions, TreasuryAssumption
  <1>3. ~UNCHANGED <<supply, nullifiers, balances>> =>
          \E r \in Ref \ nullifiers :
            /\ nullifiers' = nullifiers \cup {r}
            /\ OnP!State(r) \in {"attested", "issued"}
            /\ supply' = supply + deposits[r].amount
            /\ balances' = [balances EXCEPT ![deposits[r].wallet] = @ + deposits[r].amount]
    BY <1>1, OnP!MintIsRecorded, OnAssumptions, TreasuryAssumption
  <1> QED
    BY <1>2, <1>3, OnInv, PTL DEF On!State, OnP!State

-----------------------------------------------------------------------------
\* Each leg's invariant survives the other leg's steps.

\* The on-ramp touches neither the clocks nor an escrow.
LEMMA OnRampFrame ==
  /\ On!OnRampNext => UNCHANGED <<now, ledgerNow, escrows, inventory>>
  /\ On!Restart => UNCHANGED treasuryVars
  <1> USE DEF On!treasuryVars, On!clockVars, On!ledgerVars, treasuryVars, clockVars, ledgerVars
  <1>1. ASSUME NEW h \in Handlers, On!Handler(h)
        PROVE  UNCHANGED <<now, ledgerNow, escrows, inventory>>
    BY <1>1 DEF On!Handler, On!Deliver, On!ReplayPrior, On!ScreenPass, On!ScreenFail,
                On!ScreenError, On!DropHandler
  <1>2. ASSUME NEW p, On!Process(p)
        PROVE  UNCHANGED <<now, ledgerNow, escrows, inventory>>
    BY <1>2 DEF On!Process, On!TakeSnapshot, On!CheckReserve, On!HoldDeposit, On!SaveAttested,
                On!IssueConfirmed, On!IssueRefused, On!LedgerIssue, On!LedgerIssueRefused,
                On!IssueSubmitted, On!IssueFailed, On!SaveIssued
  <1>3. ASSUME NEW r, On!RetryHeld(r) \/ On!Land(r)
        PROVE  UNCHANGED <<now, ledgerNow, escrows, inventory>>
    BY <1>3 DEF On!RetryHeld, On!Land, On!LedgerIssue
  <1>4. ASSUME NEW a, On!AttestPublish(a) \/ On!AttestAgain(a) \/ On!AttestLost(a)
                        \/ \E v \in Reserves : On!AttestRead(a, v)
        PROVE  UNCHANGED <<now, ledgerNow, escrows, inventory>>
    BY <1>4 DEF On!AttestPublish, On!AttestAgain, On!AttestLost, On!AttestRead, On!LedgerAttest
  <1>5. On!ListHeld => UNCHANGED <<now, ledgerNow, escrows, inventory>>
    BY DEF On!ListHeld
  <1> QED
    BY <1>1, <1>2, <1>3, <1>4, <1>5 DEF On!OnRampNext, On!Restart

\* RedemptionInv speaks of the clocks, the escrows, the rows, the queues and the
\* calls; a step that leaves all of them, or ends some of the calls, keeps it.
LEMMA RedemptionInvKept ==
  ASSUME RedemptionInv, TreasuryTypeOK',
         UNCHANGED <<now, ledgerNow, escrows, redemptions, payouts, late, drops>>,
         \/ UNCHANGED <<pc, job>>
         \/ pc' = [p \in Procs |-> "idle"] /\ job' = [p \in Procs |-> NoCopy]
  PROVE  RedemptionInv'
  <1>1. \A p \in Procs : (pc'[p] = pc[p] /\ job'[p] = job[p]) \/ pc'[p] = "idle"
    OBVIOUS
  <1>2. RedemptionTypeOK'
    BY DEF RedemptionInv, RedemptionTypeOK, Places
  <1>3. RowsMatchEscrows' /\ WireFollowsEscrow' /\ LateCallsAgree' /\ StampsAgree'
    BY DEF RedemptionInv, RowsMatchEscrows, WireFollowsEscrow, LateCallsAgree, StampsAgree, Row,
           LateCall
  <1>4. OneRequester'
    BY <1>1 DEF RedemptionInv, OneRequester, AtEscrow
  <1>5. ASSUME NEW p \in Procs PROVE HoldsRedemption(p)'
    <2>1. HoldsRedemption(p)
      BY DEF RedemptionInv
    <2>2. CASE pc'[p] = pc[p] /\ job'[p] = job[p]
      BY <2>1, <2>2 DEF HoldsRedemption, Carries, AtEscrow, Row, LateCall
    <2>3. CASE pc'[p] = "idle"
      BY <2>3 DEF HoldsRedemption, Carries, AtEscrow
    <2> QED
      BY <1>1, <2>2, <2>3
  <1> QED
    BY <1>2, <1>3, <1>4, <1>5 DEF RedemptionInv

\* On!IssuanceInv speaks of the rows, the deliveries and the nullifiers.
LEMMA IssuanceInvKept ==
  ASSUME On!IssuanceInv, TreasuryTypeOK', UNCHANGED onRampVars, UNCHANGED nullifiers
  PROVE  On!IssuanceInv'
  <1> USE DEF onRampVars
  <1>1. On!TreasuryTypeOK'
    BY OnTypes, PTL
  <1>2. On!IssuanceTypeOK'
    BY <1>1 DEF On!IssuanceInv, On!IssuanceTypeOK
  <1>3. On!RecordsMatchMints' /\ On!InflightIsAttested' /\ On!OneScreener'
    BY DEF On!IssuanceInv, On!RecordsMatchMints, On!InflightIsAttested, On!OneScreener, On!State
  <1>4. ASSUME NEW p \in On!Procs PROVE On!HoldsRow(p)'
    <2>1. On!HoldsRow(p)
      BY DEF On!IssuanceInv
    <2> QED
      BY <2>1 DEF On!HoldsRow, On!State
  <1> QED
    BY <1>2, <1>3, <1>4 DEF On!IssuanceInv

\* What the off-ramp asks of the ledger: at most one escrow, burn or reclaim.
LEMMA OffRampEffect ==
  ASSUME RedemptionTypeOK, OffRampNext
  PROVE  \/ UNCHANGED treasuryVars
         \/ \E k \in Key, a \in Nat : LedgerEscrow(k, a)
         \/ \E k \in Key : LedgerBurn(k) \/ LedgerReclaim(k)
  <1>a. \A p \in Procs : pc[p] # "idle" => job[p].key \in Key /\ job[p].amount \in Nat
    BY DEF RedemptionTypeOK, Copies
  <1>b. \A l \in late : l.key \in Key /\ redemptions[l.key].amount \in Nat
    BY DEF RedemptionTypeOK, RedemptionRows
  <1>1. ASSUME NEW q \in Requesters, Request(q)
        PROVE  UNCHANGED treasuryVars \/ \E k \in Key, a \in Nat : LedgerEscrow(k, a)
    BY <1>1, <1>a DEF Request, InsertRow, InsertConflict, EscrowConfirmed, EscrowRefused,
                      LedgerEscrowRefused, EscrowSubmitted, EscrowFailed, SaveEscrow, Procs
  <1>2. ASSUME NEW o \in Operators, Operate(o)
        PROVE  UNCHANGED treasuryVars \/ \E k \in Key : LedgerBurn(k)
    BY <1>2, <1>a DEF Operate, SavePayout, Enqueue, EnqueueRefused, BurnConfirmed, BurnRefused,
                      LedgerBurnRefused, BurnUnanswered, SaveConfirm, Procs
  <1>3. ASSUME NEW h \in Holders, Reclaim(h)
        PROVE  UNCHANGED treasuryVars \/ \E k \in Key : LedgerReclaim(k)
    BY <1>3, <1>a DEF Reclaim, ReclaimConfirmed, ReclaimRefused, LedgerReclaimRefused,
                      ReclaimUnanswered, SaveReclaim, Procs
  <1>4. ASSUME NEW l \in late, Land(l)
        PROVE  \/ UNCHANGED treasuryVars
               \/ \E k \in Key, a \in Nat : LedgerEscrow(k, a)
               \/ \E k \in Key : LedgerBurn(k) \/ LedgerReclaim(k)
    BY <1>4, <1>b DEF Land
  <1>5. ASSUME NEW p, NEW k, NEW u, NEW a,
               \/ ReadSeq(p, u, a) \/ StartPayout(p, k) \/ StartConfirm(p, k)
               \/ StartReclaim(p, k) \/ DropCall(p)
        PROVE  UNCHANGED treasuryVars
    BY <1>5 DEF ReadSeq, StartPayout, StartConfirm, StartReclaim, DropCall
  <1> QED
    BY <1>1, <1>2, <1>3, <1>4, <1>5 DEF OffRampNext

-----------------------------------------------------------------------------
\* What any step of the whole does.

\* To the ledger: nothing the three sums look at, or the mint of a recorded
\* deposit, or one call of the off-ramp.
RecordedMint(r) ==
  /\ On!State(r) # "none"
  /\ nullifiers' = nullifiers \cup {r}
  /\ supply' = supply + deposits[r].amount
  /\ balances' = [balances EXCEPT ![deposits[r].wallet] = @ + deposits[r].amount]
  /\ UNCHANGED escrows

LedgerStep ==
  \/ UNCHANGED <<supply, nullifiers, balances, escrows>>
  \/ \E r \in Ref \ nullifiers : RecordedMint(r)
  \/ \E k \in Key, a \in Nat : LedgerEscrow(k, a)
  \/ \E k \in Key : LedgerBurn(k) \/ LedgerReclaim(k)

\* To a deposit that is recorded: its wallet and amount stay.
RowsKept ==
  \A r \in Ref : On!State(r) # "none" =>
    deposits'[r].wallet = deposits[r].wallet /\ deposits'[r].amount = deposits[r].amount

Legs == RedemptionInv /\ On!IssuanceInv

\* A step of the on-ramp keeps both legs' invariants.
LEMMA OnRampLegs ==
  ASSUME Legs, On!OnRampNext \/ On!Restart, UNCHANGED <<redemptions, payouts, late, drops>>,
         \/ UNCHANGED <<pc, job>>
         \/ pc' = [p \in Procs |-> "idle"] /\ job' = [p \in Procs |-> NoCopy]
  PROVE  Legs' /\ RowsKept /\ LedgerStep
  <1>1. On!IssuanceInv' /\ OnP!RowStep
    BY OnRampStep DEF Legs
  <1>2. TreasuryTypeOK'
    <2>1. On!TreasuryTypeOK'
      BY <1>1 DEF On!IssuanceInv, On!IssuanceTypeOK
    <2> QED
      BY <2>1, OnTypes, PTL
  <1>3. UNCHANGED <<now, ledgerNow, escrows>>
    BY OnRampFrame DEF treasuryVars, clockVars, ledgerVars
  <1>4. RedemptionInv'
    BY <1>2, <1>3, RedemptionInvKept DEF Legs
  <1>5. RowsKept
    <2> SUFFICES ASSUME NEW r \in Ref, On!State(r) # "none"
                 PROVE  /\ deposits'[r].wallet = deposits[r].wallet
                        /\ deposits'[r].amount = deposits[r].amount
      BY DEF RowsKept
    <2>1. deposits[r] \in On!Rows
      BY DEF Legs, On!IssuanceInv, On!IssuanceTypeOK, On!State, On!NoRow
    <2> QED
      BY <1>1, <2>1 DEF OnP!RowStep, OnP!RowAdvances, OnP!State, On!State, On!Rows
  <1>6. LedgerStep
    BY <1>3, OnRampStep DEF Legs, LedgerStep, RecordedMint
  <1> QED
    BY <1>1, <1>4, <1>5, <1>6 DEF Legs

\* So does a step of the off-ramp or the clock.
LEMMA OffRampLegs ==
  ASSUME Legs, OffRampNext \/ Elapse \/ UNCHANGED redemptionVars, UNCHANGED onRampVars
  PROVE  Legs' /\ RowsKept /\ LedgerStep
  <1>1. RedemptionInv'
    BY StepInv DEF Legs, RedemptionNext
  <1>2. LedgerStep
    BY OffRampEffect
       DEF Legs, RedemptionInv, LedgerStep, Elapse, Tick, redemptionVars, treasuryVars, ledgerVars
  <1>3. UNCHANGED nullifiers
    BY OffRampEffect
       DEF Legs, RedemptionInv, LedgerEscrow, LedgerBurn, LedgerReclaim, Elapse, Tick,
           redemptionVars, treasuryVars, ledgerVars
  <1>4. On!IssuanceInv'
    BY <1>1, <1>3, IssuanceInvKept DEF Legs, RedemptionInv, RedemptionTypeOK
  <1>5. RowsKept
    BY DEF RowsKept, onRampVars
  <1> QED
    BY <1>1, <1>2, <1>4, <1>5 DEF Legs

\* So does every step of the whole.
LEMMA StepLegs ==
  ASSUME Legs, [SettlementNext]_settlementVars
  PROVE  Legs' /\ RowsKept /\ LedgerStep
  <1>1. CASE On!OnRampNext /\ UNCHANGED <<offRampVars, run>>
    BY <1>1, OnRampLegs DEF offRampVars
  <1>2. CASE (OffRampNext \/ Elapse) /\ UNCHANGED <<onRampVars, run>>
    BY <1>2, OffRampLegs
  <1>3. CASE Report \/ UNCHANGED settlementVars
    BY <1>3, OffRampLegs
       DEF Report, ReadIssued, ReadRedeemed, ReadSnapshot, Reconcile, ReconcileUnderflow,
           RecordReport, AbandonRun, settlementVars, offRampVars, redemptionVars
  <1>4. CASE ServiceRestart
    BY <1>4, OnRampLegs DEF ServiceRestart
  <1> QED
    BY <1>1, <1>2, <1>3, <1>4 DEF SettlementNext

\* Both legs' invariants hold at the start.
LEMMA InitLegs == SettlementInit => Legs
  BY InitInv, OnInit, OnInv, OnP!InitInvariant, OnAssumptions, TreasuryAssumption
     DEF SettlementInit, Legs

-----------------------------------------------------------------------------
\* The three sums.

\* Every amount that is summed is a natural, over finitely many rows.
AmountsTyped ==
  /\ \A r \in Ref : On!RecordedAmount[r] \in Nat
  /\ \A k \in Key : EscrowedAmount[k] \in Nat /\ RedeemedAmount[k] \in Nat
  /\ On!TotalEncumbered \in Nat

\* Well-typed rows and records hold amounts that can be summed.
LEMMA AmountTyping == RedemptionTypeOK /\ On!IssuanceTypeOK => AmountsTyped
  <1> SUFFICES ASSUME RedemptionTypeOK, On!IssuanceTypeOK PROVE AmountsTyped
    OBVIOUS
  <1>1. /\ \A r \in Ref : On!RecordedAmount[r] \in Nat
        /\ On!TotalEncumbered \in Nat
    BY OnTypes, OnEncumbered, OnP!EncumbranceTyping, OnAssumptions, TreasuryAssumption
  <1>2. \A k \in Key : EscrowedAmount[k] \in Nat /\ RedeemedAmount[k] \in Nat
    BY DEF RedemptionTypeOK, TreasuryTypeOK, EscrowRecords, RedemptionRows, EscrowedAmount,
           RedeemedAmount
  <1> QED
    BY <1>1, <1>2 DEF AmountsTyped

\* The types that follow from the legs' invariants.
LEMMA LegsTyping == Legs => RedemptionTypeOK /\ On!IssuanceTypeOK /\ TreasuryTypeOK /\ AmountsTyped
  BY AmountTyping DEF Legs, RedemptionInv, RedemptionTypeOK, On!IssuanceInv

\* What is minted for is recorded, so its amount and wallet stay.
LEMMA MintedIsKept ==
  ASSUME Legs, RowsKept
  PROVE  \A r \in nullifiers : /\ r \in Ref
                              /\ On!RecordedAmount'[r] = On!RecordedAmount[r]
                              /\ deposits'[r].wallet = deposits[r].wallet
  <1> SUFFICES ASSUME NEW r \in nullifiers
               PROVE  /\ r \in Ref
                      /\ On!RecordedAmount'[r] = On!RecordedAmount[r]
                      /\ deposits'[r].wallet = deposits[r].wallet
    OBVIOUS
  <1>1. r \in Ref
    BY LegsTyping DEF TreasuryTypeOK
  <1>2. On!State(r) # "none"
    BY <1>1 DEF Legs, On!IssuanceInv, On!RecordsMatchMints
  <1> QED
    BY <1>1, <1>2 DEF RowsKept, On!RecordedAmount

\* A mint is for a deposit whose amount and account are recorded.
LEMMA MintedAmount ==
  ASSUME Legs, RowsKept, NEW r \in Ref, RecordedMint(r)
  PROVE  /\ deposits[r].wallet \in Account
         /\ deposits'[r].wallet = deposits[r].wallet
         /\ On!RecordedAmount'[r] = deposits[r].amount
         /\ deposits[r].amount \in Nat
  <1>1. deposits[r] \in On!Rows
    BY LegsTyping DEF RecordedMint, On!IssuanceTypeOK, On!State, On!NoRow
  <1> QED
    BY <1>1 DEF RecordedMint, RowsKept, On!RecordedAmount, On!Rows

\* The indices of each sum are finitely many.
LEMMA IndicesFinite ==
  /\ \A R \in SUBSET Ref : IsFiniteSet(R)
  /\ \A K \in SUBSET Key : IsFiniteSet(K)
  BY FiniteAssumption, KeyFinite, FS_Subset

\* What the off-ramp's calls do to the sum over the burned records.
LEMMA BurnedSum ==
  ASSUME TreasuryTypeOK, AmountsTyped, AmountsTyped', NEW k \in Key
  PROVE  /\ \A a \in Nat : LedgerEscrow(k, a) => SumEscrowed(Burned)' = SumEscrowed(Burned)
         /\ LedgerReclaim(k) => SumEscrowed(Burned)' = SumEscrowed(Burned)
         /\ LedgerBurn(k) =>
              SumEscrowed(Burned)' = escrows[k].amount + SumEscrowed(Burned)
  <1>1. /\ Burned \in SUBSET Key /\ IsFiniteSet(Burned)
        /\ \A j \in Key : EscrowedAmount[j] \in Nat /\ EscrowedAmount'[j] \in Nat
    BY IndicesFinite DEF Burned, AmountsTyped
  <1>2. ASSUME NEW a \in Nat, LedgerEscrow(k, a) \/ LedgerReclaim(k)
        PROVE  SumEscrowed(Burned)' = SumEscrowed(Burned)
    <2>1. Burned' = Burned /\ \A j \in Burned : EscrowedAmount'[j] = EscrowedAmount[j]
      BY <1>2 DEF LedgerEscrow, LedgerReclaim, Burned, EscrowedAmount, NoEscrow, TreasuryTypeOK,
                  EscrowRecords
    <2>2. SumFunctionOnSet(EscrowedAmount', Burned) = SumFunctionOnSet(EscrowedAmount, Burned)
      BY <1>1, <2>1, SumAgree
    <2> QED
      BY <2>1, <2>2 DEF SumEscrowed
  <1>3. ASSUME LedgerBurn(k)
        PROVE  SumEscrowed(Burned)' = escrows[k].amount + SumEscrowed(Burned)
    <2>1. /\ k \notin Burned /\ Burned' = Burned \cup {k}
          /\ \A j \in Key : EscrowedAmount'[j] = EscrowedAmount[j]
          /\ EscrowedAmount'[k] = escrows[k].amount
      BY <1>3 DEF LedgerBurn, Burned, EscrowedAmount, TreasuryTypeOK, EscrowRecords
    <2>2. SumFunctionOnSet(EscrowedAmount', Burned \cup {k})
            = EscrowedAmount'[k] + SumFunctionOnSet(EscrowedAmount, Burned)
      BY <1>1, <2>1, SumInsert
    <2> QED
      BY <2>1, <2>2 DEF SumEscrowed
  <1> QED
    BY <1>2, <1>3

\* The ledger's supply is what it minted less what it burned.
LEMMA StepSupply ==
  ASSUME Legs, Legs', RowsKept, LedgerStep, SupplyIsMintedLessBurned
  PROVE  SupplyIsMintedLessBurned'
  <1>1. TreasuryTypeOK /\ AmountsTyped
    BY LegsTyping
  <1>2. AmountsTyped'
    BY LegsTyping, PTL
  <1>3. /\ nullifiers \in SUBSET Ref /\ Burned \in SUBSET Key
        /\ supply \in Nat
        /\ SumRecorded(nullifiers) \in Nat /\ SumEscrowed(Burned) \in Nat
        /\ \A r \in nullifiers : On!RecordedAmount'[r] = On!RecordedAmount[r]
    <2>1. /\ nullifiers \in SUBSET Ref /\ Burned \in SUBSET Key /\ supply \in Nat
          /\ IsFiniteSet(nullifiers) /\ IsFiniteSet(Burned)
      BY <1>1, IndicesFinite DEF TreasuryTypeOK, Burned
    <2>2. SumFunctionOnSet(On!RecordedAmount, nullifiers) \in Nat
      BY <1>1, <2>1, SumNat DEF AmountsTyped
    <2>3. SumFunctionOnSet(EscrowedAmount, Burned) \in Nat
      BY <1>1, <2>1, SumNat DEF AmountsTyped
    <2> QED
      BY <2>1, <2>2, <2>3, MintedIsKept DEF SumRecorded, SumEscrowed
  <1>4. SumFunctionOnSet(On!RecordedAmount', nullifiers) = SumRecorded(nullifiers)
    BY <1>3, IndicesFinite, SumAgree DEF SumRecorded
  <1>5. UNCHANGED nullifiers => SumRecorded(nullifiers)' = SumRecorded(nullifiers)
    BY <1>4 DEF SumRecorded
  <1>6. CASE UNCHANGED <<supply, nullifiers, balances, escrows>>
    BY <1>5, <1>6 DEF SupplyIsMintedLessBurned, SumEscrowed, EscrowedAmount, Burned
  <1>7. ASSUME NEW r \in Ref \ nullifiers, RecordedMint(r)
        PROVE  SupplyIsMintedLessBurned'
    <2>1. On!RecordedAmount'[r] = deposits[r].amount /\ deposits[r].amount \in Nat
      BY <1>7, MintedAmount
    <2>2. \A q \in nullifiers \cup {r} : On!RecordedAmount'[q] \in Nat
      BY <1>2, <1>3 DEF AmountsTyped
    <2>3. SumFunctionOnSet(On!RecordedAmount', nullifiers \cup {r})
            = On!RecordedAmount'[r] + SumFunctionOnSet(On!RecordedAmount, nullifiers)
      BY <1>3, <2>2, IndicesFinite, SumInsert
    <2>4. SumRecorded(nullifiers)' = deposits[r].amount + SumRecorded(nullifiers)
      BY <1>7, <2>1, <2>3 DEF SumRecorded, RecordedMint
    <2>5. SumEscrowed(Burned)' = SumEscrowed(Burned)
      BY <1>7 DEF RecordedMint, SumEscrowed, EscrowedAmount, Burned
    <2> QED
      BY <1>3, <1>7, <2>1, <2>4, <2>5 DEF RecordedMint, SupplyIsMintedLessBurned
  <1>8. ASSUME NEW k \in Key, NEW a \in Nat, LedgerEscrow(k, a) \/ LedgerReclaim(k)
        PROVE  SupplyIsMintedLessBurned'
    BY <1>1, <1>2, <1>5, <1>8, BurnedSum
       DEF LedgerEscrow, LedgerReclaim, SupplyIsMintedLessBurned
  <1>9. ASSUME NEW k \in Key, LedgerBurn(k)
        PROVE  SupplyIsMintedLessBurned'
    <2>1. /\ supply' = supply - escrows[k].amount /\ escrows[k].amount <= supply
          /\ escrows[k].amount \in Nat
          /\ UNCHANGED nullifiers
      BY <1>1, <1>9 DEF LedgerBurn, TreasuryTypeOK, EscrowRecords
    <2>2. SumEscrowed(Burned)' = escrows[k].amount + SumEscrowed(Burned)
      BY <1>1, <1>2, <1>9, BurnedSum
    <2> QED
      BY <1>3, <1>5, <2>1, <2>2 DEF SupplyIsMintedLessBurned
  <1> QED
    BY <1>6, <1>7, <1>8, <1>9 DEF LedgerStep

\* What the off-ramp's calls do to the sum over one holder's escrow records.
LEMMA EscrowedBySum ==
  ASSUME TreasuryTypeOK, AmountsTyped, AmountsTyped', NEW k \in Key, NEW w
  PROVE  /\ \A a \in Nat : LedgerEscrow(k, a) =>
              SumEscrowed(EscrowedBy(w))' =
                SumEscrowed(EscrowedBy(w)) + (IF k[1] = w THEN a ELSE 0)
         /\ LedgerBurn(k) => SumEscrowed(EscrowedBy(w))' = SumEscrowed(EscrowedBy(w))
         /\ LedgerReclaim(k) =>
              SumEscrowed(EscrowedBy(w)) =
                SumEscrowed(EscrowedBy(w))' + (IF k[1] = w THEN escrows[k].amount ELSE 0)
  <1> DEFINE E == EscrowedBy(w)
  <1>1. /\ E \in SUBSET Key /\ IsFiniteSet(E)
        /\ EscrowedBy(w)' \in SUBSET Key /\ IsFiniteSet(EscrowedBy(w)')
        /\ \A j \in Key : EscrowedAmount[j] \in Nat /\ EscrowedAmount'[j] \in Nat
    BY IndicesFinite DEF EscrowedBy, AmountsTyped
  <1>2. /\ SumEscrowed(E) = SumFunctionOnSet(EscrowedAmount, E)
        /\ SumEscrowed(E)' = SumFunctionOnSet(EscrowedAmount', EscrowedBy(w)')
    BY DEF SumEscrowed
  <1>3. SumEscrowed(E) \in Nat /\ SumEscrowed(E)' \in Nat
    <2>1. SumFunctionOnSet(EscrowedAmount, E) \in Nat
      <3> HIDE DEF E
      <3> QED BY <1>1, SumNat
    <2>2. SumFunctionOnSet(EscrowedAmount', EscrowedBy(w)') \in Nat
      BY <1>1, SumNat
    <2> QED
      BY <1>2, <2>1, <2>2
  <1>4. ASSUME NEW a \in Nat, LedgerEscrow(k, a)
        PROVE  SumEscrowed(E)' = SumEscrowed(E) + (IF k[1] = w THEN a ELSE 0)
    <2>1. /\ k \notin E
          /\ \A j \in Key \ {k} : EscrowedAmount'[j] = EscrowedAmount[j]
          /\ EscrowedAmount'[k] = a
      BY <1>4 DEF LedgerEscrow, EscrowedBy, EscrowedAmount, TreasuryTypeOK
    <2>2. EscrowedBy(w)' = IF k[1] = w THEN E \cup {k} ELSE E
      BY <1>4 DEF LedgerEscrow, EscrowedBy, TreasuryTypeOK
    <2> HIDE DEF E
    <2>3. SumFunctionOnSet(EscrowedAmount', E \cup {k})
            = EscrowedAmount'[k] + SumFunctionOnSet(EscrowedAmount, E)
      BY <1>1, <2>1, SumInsert
    <2>4. SumFunctionOnSet(EscrowedAmount', E) = SumFunctionOnSet(EscrowedAmount, E)
      BY <1>1, <2>1, SumAgree
    <2> QED
      BY <1>2, <1>3, <2>1, <2>2, <2>3, <2>4
  <1>5. ASSUME LedgerBurn(k)
        PROVE  SumEscrowed(E)' = SumEscrowed(E)
    <2>1. EscrowedBy(w)' = E /\ \A j \in Key : EscrowedAmount'[j] = EscrowedAmount[j]
      BY <1>5 DEF LedgerBurn, EscrowedBy, EscrowedAmount, TreasuryTypeOK, EscrowRecords
    <2> HIDE DEF E
    <2>2. SumFunctionOnSet(EscrowedAmount', E) = SumFunctionOnSet(EscrowedAmount, E)
      BY <1>1, <2>1, SumAgree
    <2> QED
      BY <1>2, <2>1, <2>2
  <1>6. ASSUME LedgerReclaim(k)
        PROVE  SumEscrowed(E) = SumEscrowed(E)' + (IF k[1] = w THEN escrows[k].amount ELSE 0)
    <2>1. /\ k[1] = w <=> k \in E
          /\ \A j \in Key \ {k} : EscrowedAmount'[j] = EscrowedAmount[j]
          /\ EscrowedAmount[k] = escrows[k].amount
      BY <1>6 DEF LedgerReclaim, EscrowedBy, EscrowedAmount, TreasuryTypeOK
    <2>2. EscrowedBy(w)' = E \ {k}
      BY <1>6 DEF LedgerReclaim, EscrowedBy, TreasuryTypeOK, NoEscrow
    <2> HIDE DEF E
    <2>3. k \in E => SumFunctionOnSet(EscrowedAmount, E)
            = EscrowedAmount[k] + SumFunctionOnSet(EscrowedAmount', E \ {k})
      BY <1>1, <2>1, SumDelete
    <2>4. k \notin E => /\ E \ {k} = E
                       /\ SumFunctionOnSet(EscrowedAmount, E)
                             = SumFunctionOnSet(EscrowedAmount', E)
      BY <1>1, <2>1, SumAgree
    <2>5. SumEscrowed(E)' = SumFunctionOnSet(EscrowedAmount', E \ {k})
      BY <1>2, <2>2
    <2>6. CASE k[1] = w
      <3>1. escrows[k].amount \in Nat
        BY <1>1, <2>1
      <3>2. SumEscrowed(E) = escrows[k].amount + SumEscrowed(E)'
        BY <1>2, <2>1, <2>3, <2>5, <2>6
      <3> QED
        BY <1>3, <2>6, <3>1, <3>2
    <2>7. CASE k[1] # w
      <3>1. E \ {k} = E
        BY <2>1, <2>4, <2>7
      <3>2. SumEscrowed(E) = SumEscrowed(E)'
        BY <1>2, <2>1, <2>4, <2>5, <2>7, <3>1
      <3> QED
        BY <1>3, <2>7, <3>2
    <2> QED
      BY <2>6, <2>7
  <1> QED
    BY <1>4, <1>5, <1>6

\* What a mint does to the sum over what is minted for one account.
LEMMA MintedForSum ==
  ASSUME Legs, Legs', RowsKept, NEW w
  PROVE  /\ UNCHANGED nullifiers => SumRecorded(MintedFor(w))' = SumRecorded(MintedFor(w))
         /\ \A r \in Ref \ nullifiers : RecordedMint(r) =>
              SumRecorded(MintedFor(w))' =
                SumRecorded(MintedFor(w))
                  + (IF deposits[r].wallet = w THEN deposits[r].amount ELSE 0)
  <1> DEFINE M == MintedFor(w)
  <1>1. AmountsTyped /\ TreasuryTypeOK
    BY LegsTyping
  <1>2. AmountsTyped'
    BY LegsTyping, PTL
  <1>3. /\ M \in SUBSET Ref /\ IsFiniteSet(M)
        /\ \A r \in Ref : On!RecordedAmount[r] \in Nat /\ On!RecordedAmount'[r] \in Nat
        /\ \A r \in M : On!RecordedAmount'[r] = On!RecordedAmount[r]
    BY <1>1, <1>2, IndicesFinite, MintedIsKept DEF MintedFor, AmountsTyped, TreasuryTypeOK
  <1>4. /\ SumRecorded(M) = SumFunctionOnSet(On!RecordedAmount, M)
        /\ SumRecorded(M)' = SumFunctionOnSet(On!RecordedAmount', MintedFor(w)')
    BY DEF SumRecorded
  <1>5. /\ SumFunctionOnSet(On!RecordedAmount, M) \in Nat
        /\ SumFunctionOnSet(On!RecordedAmount', M) = SumFunctionOnSet(On!RecordedAmount, M)
    <2> HIDE DEF M
    <2> QED BY <1>3, SumNat, SumAgree
  <1>6. ASSUME UNCHANGED nullifiers
        PROVE  SumRecorded(M)' = SumRecorded(M)
    <2>1. MintedFor(w)' = M
      BY <1>6, MintedIsKept DEF MintedFor
    <2> QED
      BY <1>4, <1>5, <2>1
  <1>7. ASSUME NEW r \in Ref \ nullifiers, RecordedMint(r)
        PROVE  SumRecorded(M)' =
                 SumRecorded(M) + (IF deposits[r].wallet = w THEN deposits[r].amount ELSE 0)
    <2>1. /\ r \notin M
          /\ On!RecordedAmount'[r] = deposits[r].amount /\ deposits[r].amount \in Nat
          /\ deposits'[r].wallet = deposits[r].wallet
      BY <1>7, MintedAmount DEF MintedFor
    <2>2. MintedFor(w)' = IF deposits[r].wallet = w THEN M \cup {r} ELSE M
      BY <1>7, <2>1, MintedIsKept DEF MintedFor, RecordedMint
    <2> HIDE DEF M
    <2>3. SumFunctionOnSet(On!RecordedAmount', M \cup {r})
            = On!RecordedAmount'[r] + SumFunctionOnSet(On!RecordedAmount, M)
      BY <1>3, <2>1, SumInsert
    <2> QED
      BY <1>4, <1>5, <2>1, <2>2, <2>3
  <1> QED
    BY <1>6, <1>7

\* No step moves an account's tokens but against its own deposits and escrows.
LEMMA StepBalances ==
  ASSUME Legs, Legs', RowsKept, LedgerStep, EveryAccountBalances
  PROVE  EveryAccountBalances'
  <1> SUFFICES ASSUME NEW w \in Account
               PROVE  balances'[w] + SumEscrowed(EscrowedBy(w))' = SumRecorded(MintedFor(w))'
    BY DEF EveryAccountBalances
  <1>1. TreasuryTypeOK /\ AmountsTyped
    BY LegsTyping
  <1>2. AmountsTyped'
    BY LegsTyping, PTL
  <1>3. /\ balances[w] \in Nat
        /\ SumEscrowed(EscrowedBy(w)) \in Nat /\ SumRecorded(MintedFor(w)) \in Nat
        /\ SumEscrowed(EscrowedBy(w))' \in Nat
        /\ balances[w] + SumEscrowed(EscrowedBy(w)) = SumRecorded(MintedFor(w))
    <2>1. /\ IsFiniteSet(EscrowedBy(w)) /\ IsFiniteSet(EscrowedBy(w)')
          /\ IsFiniteSet(MintedFor(w))
      BY <1>1, IndicesFinite DEF EscrowedBy, MintedFor, TreasuryTypeOK
    <2>2. /\ \A k \in EscrowedBy(w) : EscrowedAmount[k] \in Nat
          /\ \A k \in EscrowedBy(w)' : EscrowedAmount'[k] \in Nat
          /\ \A r \in MintedFor(w) : On!RecordedAmount[r] \in Nat
      BY <1>1, <1>2 DEF EscrowedBy, MintedFor, TreasuryTypeOK, AmountsTyped
    <2>3. /\ SumFunctionOnSet(EscrowedAmount, EscrowedBy(w)) \in Nat
          /\ SumFunctionOnSet(EscrowedAmount', EscrowedBy(w)') \in Nat
          /\ SumFunctionOnSet(On!RecordedAmount, MintedFor(w)) \in Nat
      BY <2>1, <2>2, SumNat
    <2> QED
      BY <1>1, <2>3 DEF SumEscrowed, SumRecorded, TreasuryTypeOK, EveryAccountBalances
  <1>4. CASE UNCHANGED <<supply, nullifiers, balances, escrows>>
    BY <1>3, <1>4, MintedForSum DEF SumEscrowed, EscrowedAmount, EscrowedBy
  <1>5. ASSUME NEW r \in Ref \ nullifiers, RecordedMint(r)
        PROVE  balances'[w] + SumEscrowed(EscrowedBy(w))' = SumRecorded(MintedFor(w))'
    <2>1. SumRecorded(MintedFor(w))' =
            SumRecorded(MintedFor(w)) + (IF deposits[r].wallet = w THEN deposits[r].amount ELSE 0)
      BY <1>5, MintedForSum
    <2>2. SumEscrowed(EscrowedBy(w))' = SumEscrowed(EscrowedBy(w))
      BY <1>5 DEF RecordedMint, SumEscrowed, EscrowedAmount, EscrowedBy
    <2>3. /\ deposits[r].wallet \in Account /\ deposits[r].amount \in Nat
          /\ balances'[w] = IF deposits[r].wallet = w THEN balances[w] + deposits[r].amount
                                                     ELSE balances[w]
      BY <1>1, <1>5, MintedAmount DEF RecordedMint, TreasuryTypeOK
    <2> QED
      BY <1>3, <2>1, <2>2, <2>3
  <1>6. ASSUME NEW k \in Key, NEW a \in Nat, LedgerEscrow(k, a)
        PROVE  balances'[w] + SumEscrowed(EscrowedBy(w))' = SumRecorded(MintedFor(w))'
    <2>1. SumEscrowed(EscrowedBy(w))' =
            SumEscrowed(EscrowedBy(w)) + (IF k[1] = w THEN a ELSE 0)
      BY <1>1, <1>2, <1>6, EscrowedBySum
    <2>2. SumRecorded(MintedFor(w))' = SumRecorded(MintedFor(w))
      BY <1>6, MintedForSum DEF LedgerEscrow
    <2>3. /\ balances'[w] = IF k[1] = w THEN balances[w] - a ELSE balances[w]
          /\ k[1] = w => a <= balances[w]
      BY <1>1, <1>6 DEF LedgerEscrow, TreasuryTypeOK
    <2> QED
      BY <1>3, <2>1, <2>2, <2>3
  <1>7. ASSUME NEW k \in Key, LedgerBurn(k)
        PROVE  balances'[w] + SumEscrowed(EscrowedBy(w))' = SumRecorded(MintedFor(w))'
    <2>1. SumEscrowed(EscrowedBy(w))' = SumEscrowed(EscrowedBy(w))
      BY <1>1, <1>2, <1>7, EscrowedBySum
    <2>2. SumRecorded(MintedFor(w))' = SumRecorded(MintedFor(w)) /\ UNCHANGED balances
      BY <1>7, MintedForSum DEF LedgerBurn
    <2> QED
      BY <1>3, <2>1, <2>2
  <1>8. ASSUME NEW k \in Key, LedgerReclaim(k)
        PROVE  balances'[w] + SumEscrowed(EscrowedBy(w))' = SumRecorded(MintedFor(w))'
    <2>1. SumEscrowed(EscrowedBy(w)) =
            SumEscrowed(EscrowedBy(w))' + (IF k[1] = w THEN escrows[k].amount ELSE 0)
      BY <1>1, <1>2, <1>8, EscrowedBySum
    <2>2. SumRecorded(MintedFor(w))' = SumRecorded(MintedFor(w))
      BY <1>8, MintedForSum DEF LedgerReclaim
    <2>3. /\ balances'[w] = IF k[1] = w THEN balances[w] + escrows[k].amount ELSE balances[w]
          /\ escrows[k].amount \in Nat
      BY <1>1, <1>8 DEF LedgerReclaim, TreasuryTypeOK, EscrowRecords
    <2> QED
      BY <1>3, <2>1, <2>2, <2>3
  <1> QED
    BY <1>4, <1>5, <1>6, <1>7, <1>8 DEF LedgerStep

-----------------------------------------------------------------------------
\* The run.

RunTypeOK ==
  /\ run \in [stage: Stages, issued: SUBSET Ref, redeemed: SUBSET Key, supply: Nat,
              reserve: Nat, report: Reports \cup {NoReport}]
  /\ run.stage = "record" => run.report \in Reports

\* The two sums of a run, its drift and its shortfall.
LEMMA RunSums ==
  ASSUME AmountsTyped, RunTypeOK
  PROVE  /\ TotalIssued \in Nat /\ TotalRedeemed \in Nat
         /\ Drift \in Int /\ Shortfall \in Nat
  <1>1. /\ IsFiniteSet(run.issued) /\ run.issued \subseteq Ref
        /\ IsFiniteSet(run.redeemed) /\ run.redeemed \subseteq Key
        /\ run.supply \in Nat /\ run.reserve \in Nat
    BY IndicesFinite DEF RunTypeOK
  <1>2. TotalIssued \in Nat
    BY <1>1, SumNat DEF AmountsTyped, TotalIssued
  <1>3. TotalRedeemed \in Nat
    BY <1>1, SumNat DEF AmountsTyped, TotalRedeemed
  <1>4. FreeBacking(run.reserve, On!TotalEncumbered) \in Nat
    BY <1>1 DEF FreeBacking, AmountsTyped
  <1> QED
    BY <1>1, <1>2, <1>3, <1>4 DEF Drift, Shortfall

\* Every step leaves the run well typed.
LEMMA StepRunTyping ==
  ASSUME Legs, RunTypeOK, [SettlementNext]_settlementVars
  PROVE  RunTypeOK'
  <1> USE DEF RunTypeOK, Stages
  <1>1. AmountsTyped /\ TreasuryTypeOK
    BY LegsTyping
  <1>2. CASE UNCHANGED run
    BY <1>2
  <1>3. CASE run' = NoRun
    BY <1>3 DEF NoRun
  <1>4. CASE ReadIssued
    BY <1>4 DEF ReadIssued
  <1>5. CASE ReadRedeemed
    BY <1>5 DEF ReadRedeemed
  <1>6. CASE ReadSnapshot
    BY <1>1, <1>6 DEF ReadSnapshot, TreasuryTypeOK
  <1>7. CASE Reconcile
    <2>1. [severity |-> Severity, drift |-> Drift, shortfall |-> Shortfall] \in Reports
      BY <1>1, RunSums DEF Reports, Severity
    <2> QED
      BY <1>7, <2>1 DEF Reconcile, NoRun
  <1> QED
    BY <1>2, <1>3, <1>4, <1>5, <1>6, <1>7
       DEF SettlementNext, Report, ReconcileUnderflow, RecordReport, AbandonRun, ServiceRestart,
           settlementVars

\* Mints and burns are not undone.
LEMMA LedgerGrows ==
  ASSUME TreasuryTypeOK, LedgerStep
  PROVE  nullifiers \subseteq nullifiers' /\ Burned \subseteq Burned'
  BY DEF LedgerStep, RecordedMint, LedgerEscrow, LedgerBurn, LedgerReclaim, Burned, TreasuryTypeOK

\* What a sum was taken over is a mint, or a burn, the ledger has.
LEMMA StepRunBehind ==
  ASSUME Legs, LedgerStep, RunTypeOK, RunIsBehind, [SettlementNext]_settlementVars
  PROVE  RunIsBehind'
  <1> USE DEF RunIsBehind
  <1>1. nullifiers \subseteq nullifiers' /\ Burned \subseteq Burned'
    BY LegsTyping, LedgerGrows
  <1>2. CASE run'.issued = run.issued /\ run'.redeemed = run.redeemed
    BY <1>1, <1>2
  <1>3. CASE run' = NoRun
    BY <1>3 DEF NoRun
  <1>4. CASE ReadIssued
    BY <1>1, <1>4 DEF ReadIssued, RunTypeOK, Legs, On!IssuanceInv, On!RecordsMatchMints
  <1>5. CASE ReadRedeemed
    BY <1>1, <1>5 DEF ReadRedeemed, RunTypeOK, Legs, RedemptionInv, RowsMatchEscrows, Burned
  <1>6. CASE ReadSnapshot \/ Reconcile
    BY <1>1, <1>2, <1>6 DEF ReadSnapshot, Reconcile, RunTypeOK, NoRun
  <1> QED
    BY <1>2, <1>3, <1>4, <1>5, <1>6
       DEF SettlementNext, Report, ReconcileUnderflow, RecordReport, AbandonRun, ServiceRestart,
           settlementVars

-----------------------------------------------------------------------------
\* The theorems.

LEMMA SettlementInvParts ==
  /\ SettlementInv <=> Legs /\ RunTypeOK /\ SupplyIsMintedLessBurned /\ RunIsBehind
  BY DEF SettlementInv, SettlementTypeOK, Legs, RunTypeOK, RedemptionInv, On!IssuanceInv

\* Nothing is minted, held or summed at the start.
LEMMA SettlementInvInit == SettlementInit => SettlementInv /\ EveryAccountBalances
  <1> SUFFICES ASSUME SettlementInit PROVE SettlementInv /\ EveryAccountBalances
    OBVIOUS
  <1>1. Legs
    BY InitLegs
  <1>2. /\ supply = 0 /\ nullifiers = {} /\ balances = [u \in Account |-> 0]
        /\ escrows = [k \in Key |-> NoEscrow]
        /\ run = NoRun
    BY DEF SettlementInit, RedemptionInit, TreasuryInit
  <1>3. Burned = {} /\ \A w \in Account : EscrowedBy(w) = {} /\ MintedFor(w) = {}
    BY <1>2 DEF Burned, EscrowedBy, MintedFor, NoEscrow
  <1>4. SupplyIsMintedLessBurned
    BY <1>2, <1>3, SumEmpty DEF SupplyIsMintedLessBurned, SumEscrowed, SumRecorded
  <1>5. EveryAccountBalances
    BY <1>2, <1>3, SumEmpty DEF EveryAccountBalances, SumEscrowed, SumRecorded
  <1>6. RunTypeOK /\ RunIsBehind
    BY <1>2 DEF RunTypeOK, RunIsBehind, NoRun, Stages
  <1> QED
    BY <1>1, <1>4, <1>5, <1>6, SettlementInvParts

\* Every step keeps the invariant.
LEMMA SettlementInvStep ==
  SettlementInv /\ [SettlementNext]_settlementVars => SettlementInv'
  <1> SUFFICES ASSUME SettlementInv, [SettlementNext]_settlementVars
               PROVE  SettlementInv'
    OBVIOUS
  <1>1. Legs /\ RunTypeOK /\ SupplyIsMintedLessBurned /\ RunIsBehind
    BY SettlementInvParts
  <1>2. Legs' /\ RowsKept /\ LedgerStep
    BY <1>1, StepLegs
  <1>3. SupplyIsMintedLessBurned'
    BY <1>1, <1>2, StepSupply
  <1>4. RunTypeOK' /\ RunIsBehind'
    BY <1>1, <1>2, StepRunTyping, StepRunBehind
  <1> QED
    BY <1>2, <1>3, <1>4, SettlementInvParts, PTL

\* Both legs' invariants survive each other's steps, restarts and the clock; the
\* ledger's supply is what the on-ramp minted less what the off-ramp burned; and a
\* reconciliation counts nothing that has not happened.
THEOREM SettlementInvariance == SettlementSpec => []SettlementInv
  BY SettlementInvInit, SettlementInvStep, PTL DEF SettlementSpec

\* Every account's tokens, held or put in escrow, are exactly what the deposits
\* recorded for it minted, whatever the two legs do to it at once.
THEOREM EveryAccountBalancesAlways == SettlementSpec => []EveryAccountBalances
  <1>1. SettlementInv /\ EveryAccountBalances /\ [SettlementNext]_settlementVars
          => EveryAccountBalances'
    BY SettlementInvParts, StepLegs, StepBalances
  <1> QED
    BY <1>1, SettlementInvInit, SettlementInvariance, PTL DEF SettlementSpec

\* What a run has summed, and what it missed, make up what the ledger did.
LEMMA RunAccounts ==
  ASSUME SettlementInv
  PROVE  /\ TotalIssued \in Nat /\ TotalRedeemed \in Nat /\ supply \in Nat
         /\ SumRecorded(MissedMints) \in Nat /\ SumEscrowed(MissedBurns) \in Nat
         /\ supply + (TotalRedeemed + SumEscrowed(MissedBurns))
               = TotalIssued + SumRecorded(MissedMints)
  <1>1. /\ Legs /\ RunTypeOK /\ SupplyIsMintedLessBurned /\ RunIsBehind
        /\ AmountsTyped /\ supply \in Nat
    BY SettlementInvParts, LegsTyping DEF TreasuryTypeOK
  <1>2. TotalIssued \in Nat /\ TotalRedeemed \in Nat
    BY <1>1, RunSums
  <1>3. /\ IsFiniteSet(nullifiers) /\ run.issued \in SUBSET nullifiers
        /\ IsFiniteSet(MissedMints)
        /\ \A r \in nullifiers : On!RecordedAmount[r] \in Nat
    BY <1>1, LegsTyping, IndicesFinite DEF RunIsBehind, TreasuryTypeOK, MissedMints, AmountsTyped
  <1>4. /\ IsFiniteSet(Burned) /\ run.redeemed \in SUBSET Burned
        /\ IsFiniteSet(run.redeemed) /\ IsFiniteSet(MissedBurns)
        /\ \A k \in Burned : EscrowedAmount[k] \in Nat
    BY <1>1, IndicesFinite, FS_Subset DEF RunIsBehind, Burned, MissedBurns, AmountsTyped
  <1>5. SumFunctionOnSet(On!RecordedAmount, nullifiers) = TotalIssued + SumRecorded(MissedMints)
    BY <1>3, SumSplit DEF TotalIssued, SumRecorded, MissedMints
  <1>6. SumFunctionOnSet(On!RecordedAmount, MissedMints) \in Nat
    BY <1>3, SumNat DEF MissedMints
  <1>7. SumFunctionOnSet(EscrowedAmount, Burned)
          = SumFunctionOnSet(EscrowedAmount, run.redeemed) + SumEscrowed(MissedBurns)
    BY <1>4, SumSplit DEF SumEscrowed, MissedBurns
  <1>8. SumFunctionOnSet(EscrowedAmount, MissedBurns) \in Nat
    BY <1>4, SumNat DEF MissedBurns
  <1>9. SumFunctionOnSet(EscrowedAmount, run.redeemed) = TotalRedeemed
    <2>1. \A k \in run.redeemed : EscrowedAmount[k] = RedeemedAmount[k]
      BY <1>1, <1>4
         DEF Burned, EscrowedAmount, RedeemedAmount, Legs, RedemptionInv, RowsMatchEscrows
    <2> QED
      BY <1>4, <2>1, SumAgree DEF TotalRedeemed
  <1> QED
    BY <1>1, <1>2, <1>5, <1>6, <1>7, <1>8, <1>9
       DEF SupplyIsMintedLessBurned, SumRecorded, SumEscrowed

\* LedgerTally::expected_supply underflows only by mints on their way to their row.
THEOREM UnderflowIsMissedMintAlways == SettlementSpec => []UnderflowIsMissedMint
  <1>1. SettlementInv => UnderflowIsMissedMint
    <2> SUFFICES ASSUME SettlementInv PROVE UnderflowIsMissedMint
      OBVIOUS
    <2> QED
      BY RunAccounts DEF UnderflowIsMissedMint
  <1> QED
    BY <1>1, SettlementInvariance, PTL

\* The drift a report carries is the mints its first sum missed less the burns its
\* second missed, at the moment the ledger was read.
THEOREM DriftIsExplainedAlways == SettlementSpec => DriftIsExplained
  <1>1. ASSUME SettlementInv, [SettlementNext]_settlementVars,
               run.stage = "snapshot", run'.stage = "encumbered"
        PROVE  Drift' = SumRecorded(MissedMints) - SumEscrowed(MissedBurns)
    <2>1. ReadSnapshot
      BY <1>1 DEF SettlementNext, Report, ReadIssued, ReadRedeemed, Reconcile, ReconcileUnderflow,
                  RecordReport, AbandonRun, ServiceRestart, NoRun, settlementVars
    <2>2. /\ run'.supply = supply /\ run'.issued = run.issued /\ run'.redeemed = run.redeemed
      BY <1>1, <2>1, SettlementInvParts DEF ReadSnapshot, RunTypeOK
    <2>3. TotalIssued' = TotalIssued /\ TotalRedeemed' = TotalRedeemed
      BY <2>1, <2>2
         DEF ReadSnapshot, TotalIssued, TotalRedeemed, On!RecordedAmount, RedeemedAmount,
             onRampVars, offRampVars
    <2>4. Drift' = supply - (TotalIssued - TotalRedeemed)
      BY <2>2, <2>3 DEF Drift
    <2> QED
      BY <1>1, <2>4, RunAccounts
  <1>2. SettlementInv /\ [SettlementNext]_settlementVars =>
          (run.stage = "snapshot" /\ run'.stage = "encumbered" =>
             Drift' = SumRecorded(MissedMints) - SumEscrowed(MissedBurns))
    BY <1>1
  <1> QED
    BY <1>2, SettlementInvariance, PTL DEF SettlementSpec, DriftIsExplained

-----------------------------------------------------------------------------
\* The ledger as the service drives it, and what each leg promises in the whole.

\* What the on-ramp asks of the ledger: at most one mint or one attestation.
LEMMA OnRampEffect ==
  ASSUME On!IssuanceInv, On!OnRampNext
  PROVE  \/ UNCHANGED treasuryVars
         \/ \E w \in Account, a \in Nat, r \in Ref : LedgerIssue(w, a, r)
         \/ \E r \in Nat, e \in Nat : LedgerAttest(r, e)
  <1> USE DEF On!treasuryVars, On!clockVars, On!ledgerVars, treasuryVars, clockVars, ledgerVars
  <1>a. \A w, a, r : On!LedgerIssue(w, a, r) <=> LedgerIssue(w, a, r)
    BY DEF On!LedgerIssue, LedgerIssue, On!MayIssue, MayIssue, On!Fresh, Fresh,
           On!FreeBacking, FreeBacking
  <1>b. \A r, e : On!LedgerAttest(r, e) <=> LedgerAttest(r, e)
    BY DEF On!LedgerAttest, LedgerAttest
  <1>1. ASSUME NEW h \in Handlers, On!Handler(h)
        PROVE  UNCHANGED treasuryVars
    BY <1>1 DEF On!Handler, On!Deliver, On!ReplayPrior, On!ScreenPass, On!ScreenFail,
                On!ScreenError, On!DropHandler
  <1>2. ASSUME NEW p \in On!Procs, On!Process(p)
        PROVE  \/ UNCHANGED treasuryVars
               \/ \E w \in Account, a \in Nat, r \in Ref : LedgerIssue(w, a, r)
    <2>1. CASE On!IssueConfirmed(p)
      <3>1. ijob[p] \in On!Jobs
        BY <2>1 DEF On!IssueConfirmed, On!IssuanceInv, On!IssuanceTypeOK, On!Suspended
      <3> QED
        BY <2>1, <3>1, <1>a DEF On!IssueConfirmed, On!Jobs
    <2> QED
      BY <1>2, <2>1 DEF On!Process, On!TakeSnapshot, On!CheckReserve, On!HoldDeposit,
                        On!SaveAttested, On!IssueRefused, On!LedgerIssueRefused,
                        On!IssueSubmitted, On!IssueFailed, On!SaveIssued
  <1>3. ASSUME NEW r \in Ref, On!RetryHeld(r) \/ On!Land(r)
        PROVE  \/ UNCHANGED treasuryVars
               \/ \E w \in Account, a \in Nat, s \in Ref : LedgerIssue(w, a, s)
    <2>1. CASE On!Land(r)
      <3>1. deposits[r] \in On!Rows
        BY <2>1 DEF On!Land, On!IssuanceInv, On!IssuanceTypeOK, On!InflightIsAttested, On!State,
                    On!NoRow
      <3> QED
        BY <2>1, <3>1, <1>a DEF On!Land, On!Rows
    <2> QED
      BY <1>3, <2>1 DEF On!RetryHeld
  <1>4. ASSUME NEW a \in Attestors,
               \/ On!AttestPublish(a) \/ On!AttestAgain(a) \/ On!AttestLost(a)
               \/ \E v \in Reserves : On!AttestRead(a, v)
        PROVE  UNCHANGED treasuryVars \/ \E r \in Nat, e \in Nat : LedgerAttest(r, e)
    <2>1. pending[a].reserve \in Nat /\ pending[a].enc \in Nat
      BY DEF On!IssuanceInv, On!IssuanceTypeOK
    <2> QED
      BY <1>4, <1>b, <2>1
         DEF On!AttestPublish, On!AttestAgain, On!AttestLost, On!AttestRead
  <1>5. On!ListHeld => UNCHANGED treasuryVars
    BY DEF On!ListHeld
  <1> QED
    BY <1>1, <1>2, <1>3, <1>4, <1>5 DEF On!OnRampNext

\* Every step of the service is one call of the ledger's port, or none.
LEMMA StepDrives ==
  ASSUME Legs, [SettlementNext]_settlementVars
  PROVE  [AnyCall]_treasuryVars
  <1>1. CASE On!OnRampNext
    BY <1>1, OnRampEffect DEF Legs, AnyCall
  <1>2. CASE OffRampNext
    BY <1>2, OffRampEffect DEF Legs, RedemptionInv, AnyCall
  <1>3. CASE Elapse
    BY <1>3 DEF Elapse, AnyCall
  <1>4. CASE Report \/ ServiceRestart \/ UNCHANGED settlementVars
    BY <1>4, OnRampFrame
       DEF Report, ReadIssued, ReadRedeemed, ReadSnapshot, Reconcile, ReconcileUnderflow,
           RecordReport, AbandonRun, ServiceRestart, settlementVars
  <1> QED
    BY <1>1, <1>2, <1>3, <1>4 DEF SettlementNext

\* The service uses the ledger as LedgerSpec says a caller may, so everything proved
\* of the ledger under arbitrary callers holds while both legs run over it.
THEOREM SettlementDrivesLedger == SettlementSpec => LedgerSpec
  <1>1. SettlementInit => TreasuryInit
    BY DEF SettlementInit, RedemptionInit
  <1>2. SettlementInv /\ [SettlementNext]_settlementVars => [AnyCall]_treasuryVars
    BY SettlementInvParts, StepDrives
  <1> QED
    BY <1>1, <1>2, SettlementInvariance, PTL DEF SettlementSpec, LedgerSpec

\* F1, F3, F5, F6 and F7 at the ledger, with both legs, their retries, lost replies
\* and late landings driving it: tokens are conserved, a mint stays within a fresh
\* attestation's ceiling and consumes a new nullifier, supply moves only with its
\* record, and what was burned stays burned.
THEOREM LedgerPromisesInSettlement ==
  SettlementSpec => []Conservation /\ MintWithinCeiling /\ SupplyMovesWithRecord /\ BurnIsFinal
  BY SettlementDrivesLedger, LedgerConserves, LedgerCapped, LedgerMovesWithRecord,
     LedgerKeepsBurned

\* What an answer told a partner follows from the on-ramp's invariant.
LEMMA OnHonest == On!IssuanceInv => On!HonestOutcome
  <1> SUFFICES ASSUME On!IssuanceInv, NEW p \in On!Procs
               PROVE  /\ ipc[p] \in {"Issued", "AlreadyIssued"} => ijob[p].ref \in nullifiers
                      /\ ipc[p] = "Encumbered" =>
                           /\ On!State(ijob[p].ref) = "encumbered"
                           /\ ijob[p].ref \notin nullifiers
                           /\ ijob[p].ref \notin inflight
    BY DEF On!HonestOutcome
  <1>1. On!HoldsRow(p)
    BY DEF On!IssuanceInv
  <1>2. ipc[p] = "Encumbered" => ijob[p].ref \in Ref
    BY DEF On!IssuanceInv, On!IssuanceTypeOK, On!Told, On!Jobs
  <1>3. ASSUME NEW r \in Ref, On!State(r) = "encumbered"
        PROVE  r \notin nullifiers /\ r \notin inflight
    BY <1>3 DEF On!IssuanceInv, On!RecordsMatchMints, On!InflightIsAttested
  <1> QED
    BY <1>1, <1>2, <1>3 DEF On!HoldsRow

\* The rows of both legs stay true of the one ledger they share: deposits say Issued
\* only over a mint, redemptions Confirmed only over a burn, a wire stands only for a
\* confirmed escrow, and every answer a partner was given stays true.
THEOREM LegPromisesInSettlement ==
  SettlementSpec => [](On!RecordsMatchMints /\ On!HonestOutcome
                         /\ RowsMatchEscrows /\ WireFollowsEscrow)
  <1>1. SettlementInv => On!RecordsMatchMints /\ On!HonestOutcome
                           /\ RowsMatchEscrows /\ WireFollowsEscrow
    BY OnHonest DEF SettlementInv, RedemptionInv, On!IssuanceInv
  <1> QED
    BY <1>1, SettlementInvariance, PTL

\* A step of the whole is a step of the off-ramp, or leaves its rows and its escrows.
LEMMA OffRampOrQuiet ==
  ASSUME [SettlementNext]_settlementVars
  PROVE  [RedemptionNext]_redemptionVars \/ UNCHANGED <<redemptions, escrows>>
  <1>1. CASE On!OnRampNext /\ UNCHANGED <<offRampVars, run>>
    BY <1>1, OnRampFrame DEF offRampVars
  <1>2. CASE OffRampNext \/ Elapse
    BY <1>2 DEF RedemptionNext
  <1>3. CASE Report \/ ServiceRestart \/ UNCHANGED settlementVars
    BY <1>3, OnRampFrame
       DEF Report, ReadIssued, ReadRedeemed, ReadSnapshot, Reconcile, ReconcileUnderflow,
           RecordReport, AbandonRun, ServiceRestart, settlementVars, offRampVars, treasuryVars,
           ledgerVars
  <1> QED
    BY <1>1, <1>2, <1>3 DEF SettlementNext

\* What a redemption's row and escrow may do survives the on-ramp's steps and
\* restarts: a row leaves Requested only over tokens in escrow, no copy reopens it,
\* and tokens go back to their holder only after the whole delta.
THEOREM OffRampStepsInSettlement ==
  SettlementSpec => EscrowedIsHeld /\ RequestedOnce /\ ReclaimHonoursDelta
  <1>1. RedemptionInv /\ [SettlementNext]_settlementVars =>
          [\A k \in Key :
             Row(k) = "requested" /\ Row(k)' \notin {"requested", "failed"} =>
               /\ escrows[k].status \in {"held", "burned"}
               /\ redemptions'[k].at >= escrows[k].at]_redemptionVars
    BY OffRampOrQuiet, StepHeld DEF Row
  <1>2. RedemptionInv /\ [SettlementNext]_settlementVars =>
          [\A k \in Key :
             /\ Row(k) # "none" => redemptions'[k].amount = redemptions[k].amount
             /\ Row(k) \notin {"none", "requested"} /\ Row(k)' # Row(k)
                  => Row(k)' \in {"payout_queued", "confirmed", "reclaimed"}]_redemptionVars
    BY OffRampOrQuiet, StepOnce DEF Row
  <1>3. RedemptionInv /\ [SettlementNext]_settlementVars =>
          [\A k \in Key :
             escrows[k].status = "held" /\ escrows'[k].status = "none"
               => now - escrows[k].at >= Delta]_redemptionVars
    BY OffRampOrQuiet, StepDelta
  <1>4. SettlementInv => RedemptionInv
    BY DEF SettlementInv
  <1> QED
    BY <1>1, <1>2, <1>3, <1>4, SettlementInvariance, PTL
       DEF SettlementSpec, EscrowedIsHeld, RequestedOnce, ReclaimHonoursDelta

\* The mint of a deposit whose attestation check is recorded, as it is recorded.
MintsRecord ==
  \E r \in Ref \ nullifiers :
    /\ nullifiers' = nullifiers \cup {r}
    /\ On!State(r) \in {"attested", "issued"}
    /\ supply' = supply + deposits[r].amount
    /\ balances' = [balances EXCEPT ![deposits[r].wallet] = @ + deposits[r].amount]

\* What a step of the whole does to the deposits' rows and to the nullifiers.
LEMMA StepDeposits ==
  ASSUME Legs, [SettlementNext]_settlementVars
  PROVE  /\ \A r \in Ref : On!RowAdvances(r)
         /\ nullifiers' # nullifiers => MintsRecord
  <1>1. CASE On!OnRampNext \/ On!Restart
    <2>1. OnP!RowStep /\ (~UNCHANGED <<supply, nullifiers, balances>> => MintsRecord)
      BY <1>1, OnRampStep DEF Legs, MintsRecord
    <2> QED
      BY <2>1 DEF OnP!RowStep, OnP!RowAdvances, OnP!State, On!RowAdvances, On!State
  <1>2. CASE (OffRampNext \/ Elapse) /\ UNCHANGED <<onRampVars, run>>
    <2>1. UNCHANGED nullifiers
      BY <1>2, OffRampEffect
         DEF Legs, RedemptionInv, LedgerEscrow, LedgerBurn, LedgerReclaim, Elapse, Tick,
             treasuryVars, ledgerVars
    <2> QED
      BY <1>2, <2>1 DEF On!RowAdvances, onRampVars
  <1>3. CASE Report \/ UNCHANGED settlementVars
    BY <1>3
       DEF Report, ReadIssued, ReadRedeemed, ReadSnapshot, Reconcile, ReconcileUnderflow,
           RecordReport, AbandonRun, settlementVars, onRampVars, treasuryVars, ledgerVars,
           On!RowAdvances
  <1> QED
    BY <1>1, <1>2, <1>3 DEF SettlementNext, ServiceRestart

\* So does what a deposit's row may do; and with redemptions burning meanwhile, a
\* nullifier is still consumed only by the mint of its recorded deposit (F2, F3).
THEOREM OnRampStepsInSettlement ==
  SettlementSpec => On!RowsAdvance /\ [][nullifiers' # nullifiers => MintsRecord]_settlementVars
  <1>1. SettlementInv /\ [SettlementNext]_settlementVars =>
          /\ [\A r \in Ref : On!RowAdvances(r)]_On!issuanceVars
          /\ [nullifiers' # nullifiers => MintsRecord]_settlementVars
    BY SettlementInvParts, StepDeposits
  <1> QED
    BY <1>1, SettlementInvariance, PTL DEF SettlementSpec, On!RowsAdvance

\* A step of the whole has one of the off-ramp's effects, and shows only by it.
LEMMA WholeEffect ==
  ASSUME Legs, [SettlementNext]_settlementVars
  PROVE  Effect /\ (UNCHANGED escrows => Vault' = Vault)
  <1>a. UNCHANGED treasuryVars => UNCHANGED <<supply, balances, escrows>>
    BY DEF treasuryVars, ledgerVars
  <1>b. UNCHANGED <<redemptions, escrows>> => Vault' = Vault
    BY DEF Vault, EscrowStage, Row
  <1>1. CASE On!OnRampNext /\ UNCHANGED <<offRampVars, run>>
    <2>1. RowsStay /\ UNCHANGED escrows
      BY <1>1, OnRampFrame DEF RowsStay, offRampVars
    <2>2. \/ UNCHANGED treasuryVars
          \/ \E w \in Account, a \in Nat, r \in Ref : LedgerIssue(w, a, r)
          \/ \E r \in Nat, e \in Nat : LedgerAttest(r, e)
      BY <1>1, OnRampEffect DEF Legs
    <2> QED
      BY <1>a, <1>b, <2>1, <2>2 DEF Effect, RowsStay, LedgerAttest
  <1>2. CASE [RedemptionNext]_redemptionVars
    BY <1>2, StepEffect, RowsDoNotShow DEF Legs
  <1>3. CASE Report \/ ServiceRestart \/ UNCHANGED settlementVars
    <2>1. UNCHANGED treasuryVars /\ RowsStay
      BY <1>3, OnRampFrame
         DEF Report, ReadIssued, ReadRedeemed, ReadSnapshot, Reconcile, ReconcileUnderflow,
             RecordReport, AbandonRun, ServiceRestart, settlementVars, offRampVars, RowsStay
    <2> QED
      BY <1>a, <1>b, <2>1 DEF Effect, RowsStay
  <1> QED
    BY <1>1, <1>2, <1>3 DEF SettlementNext, RedemptionNext

\* The whole service keeps the off-ramp's promise too: with real deposits minted and
\* attestations published meanwhile, and restarts of both legs, a redemption's tokens
\* are still held once, burned or returned once, and wired at most once.
THEOREM SettlementKeepsEscrowPromise == SettlementSpec => KeepsEscrowPromise
  <1>1. SettlementInit => Promise!EscrowInit
    BY DEF SettlementInit, RedemptionInit, TreasuryInit, NoEscrow, NoRedemption,
           Promise!EscrowInit, Promise!Open, Promise!Keys, Key, Vault, EscrowStage, Row, PostEscrow
  <1>2. SettlementInv /\ [SettlementNext]_settlementVars
          => [Promise!EscrowNext]_Promise!escrowVars
    BY SettlementInvParts, WholeEffect, EffectKeepsPromise DEF Promise!escrowVars, Legs
  <1> QED
    BY <1>1, <1>2, SettlementInvariance, PTL
       DEF SettlementSpec, KeepsEscrowPromise, Promise!EscrowSpec
=============================================================================
