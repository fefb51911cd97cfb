----------------------------- MODULE Settlement -----------------------------
(***************************************************************************)
(* The service as it runs: the on-ramp (Issuance), the off-ramp            *)
(* (Redemption) and ReconciliationService over one ledger and one clock.   *)
(*                                                                         *)
(* A reconciliation is four port calls that nothing makes atomic: the sum  *)
(* of the Issued deposits, the sum of the Confirmed redemptions, the       *)
(* ledger's snapshot and the sum of the Encumbered deposits.  `run' holds  *)
(* what it has read: the rows a sum was taken over, whose amounts never    *)
(* change, in place of the sum.  One run stands for any number of them:    *)
(* runs share nothing but the history they append to.  It is a task of its *)
(* own: the reconciler loop calls it between sweeps, an admin request at   *)
(* any time.                                                               *)
(***************************************************************************)
EXTENDS Redemption, Integers

CONSTANTS
  Handlers, Sweep, Attestors, Nobody, MaxCrashes    \* as in Issuance

ASSUME SettlementAssumption ==
  /\ Sweep \notin Handlers
  /\ Nobody \notin Ref
  /\ Nobody \notin Account
  /\ MaxCrashes \in Nat

VARIABLES
  deposits, ipc, ijob, iat, snap, todo, inflight, pending, crashes,  \* as in Issuance
  run           \* ReconciliationService::run's locals

On == INSTANCE Issuance WITH pc <- ipc, job <- ijob, at <- iat

onRampVars == <<deposits, ipc, ijob, iat, snap, todo, inflight, pending, crashes>>
offRampVars == <<redemptions, pc, job, payouts, late, drops>>
settlementVars == <<treasuryVars, onRampVars, offRampVars, run>>

Reports == [severity: {"ok", "drift", "insolvent"}, drift: Int, shortfall: Nat]
Stages == {"idle", "redeemed", "snapshot", "encumbered", "record"}
NoReport == [severity |-> "none"]
NoRun == [stage |-> "idle", issued |-> {}, redeemed |-> {}, supply |-> 0, reserve |-> 0,
          report |-> NoReport]

SettlementTypeOK ==
  /\ RedemptionTypeOK
  /\ On!IssuanceTypeOK
  /\ run \in [stage: Stages, issued: SUBSET Ref, redeemed: SUBSET Key, supply: Nat,
              reserve: Nat, report: Reports \cup {NoReport}]
  /\ run.stage = "record" => run.report \in Reports

SettlementInit ==
  /\ On!IssuanceInit
  /\ RedemptionInit
  /\ run = NoRun

-----------------------------------------------------------------------------
\* ReconciliationService::run.

\* DepositRepository::total_issued.
ReadIssued ==
  /\ run.stage = "idle"
  /\ run' = [run EXCEPT !.stage = "redeemed", !.issued = {r \in Ref : On!State(r) = "issued"}]
  /\ UNCHANGED <<treasuryVars, onRampVars, offRampVars>>

\* Mutant: the sum is over every redemption, whatever its state.
MutReadRedeemedAll ==
  /\ run.stage = "redeemed"
  /\ run' = [run EXCEPT !.stage = "snapshot", !.redeemed = {k \in Key : Row(k) # "none"}]
  /\ UNCHANGED <<treasuryVars, onRampVars, offRampVars>>

\* RedemptionRepository::total_redeemed.
ReadRedeemed ==
  /\ run.stage = "redeemed"
  /\ run' = [run EXCEPT !.stage = "snapshot", !.redeemed = {k \in Key : Row(k) = "confirmed"}]
  /\ UNCHANGED <<treasuryVars, onRampVars, offRampVars>>

\* ReserveService::current reads the ledger ...
ReadSnapshot ==
  /\ run.stage = "snapshot"
  /\ run' = [run EXCEPT !.stage = "encumbered", !.supply = supply, !.reserve = attested.reserve]
  /\ UNCHANGED <<treasuryVars, onRampVars, offRampVars>>

RedeemedAmount == [k \in Key |-> redemptions[k].amount]
TotalIssued == SumFunctionOnSet(On!RecordedAmount, run.issued)
TotalRedeemed == SumFunctionOnSet(RedeemedAmount, run.redeemed)

Drift == run.supply - (TotalIssued - TotalRedeemed)

Shortfall ==
  LET free == FreeBacking(run.reserve, On!TotalEncumbered)
  IN IF run.supply > free THEN run.supply - free ELSE 0

Severity ==
  CASE Shortfall > 0 -> "insolvent"
    [] Shortfall = 0 /\ Drift # 0 -> "drift"
    [] OTHER -> "ok"

\* ... then the encumbrance, and reconcile compares.
Reconcile ==
  /\ run.stage = "encumbered"
  /\ TotalRedeemed <= TotalIssued
  /\ run' = [NoRun EXCEPT !.stage = "record",
                          !.report = [severity |-> Severity, drift |-> Drift,
                                      shortfall |-> Shortfall]]
  /\ UNCHANGED <<treasuryVars, onRampVars, offRampVars>>

\* LedgerTally::expected_supply: Underflow, and no report.
ReconcileUnderflow ==
  /\ run.stage = "encumbered"
  /\ TotalRedeemed > TotalIssued
  /\ run' = NoRun
  /\ UNCHANGED <<treasuryVars, onRampVars, offRampVars>>

\* ReconciliationRepository::record, before anyone is answered.  The history is
\* append-only and no service reads it back.
RecordReport ==
  /\ run.stage = "record"
  /\ run' = NoRun
  /\ UNCHANGED <<treasuryVars, onRampVars, offRampVars>>

\* A read or the record fails, or the admin request is dropped: no report.
AbandonRun ==
  /\ run.stage # "idle"
  /\ run' = NoRun
  /\ UNCHANGED <<treasuryVars, onRampVars, offRampVars>>

Report ==
  \/ ReadIssued \/ ReadRedeemed \/ ReadSnapshot \/ Reconcile \/ ReconcileUnderflow \/ RecordReport
  \/ AbandonRun

-----------------------------------------------------------------------------
\* A restart ends every task; the rows, the ledger and the queue survive.
ServiceRestart ==
  /\ On!Restart
  /\ pc' = [p \in Procs |-> "idle"]
  /\ job' = [p \in Procs |-> NoCopy]
  /\ run' = NoRun
  /\ UNCHANGED <<redemptions, payouts, late, drops>>

SettlementNext ==
  \/ On!OnRampNext /\ UNCHANGED <<offRampVars, run>>
  \/ OffRampNext /\ UNCHANGED <<onRampVars, run>>
  \/ Report
  \/ ServiceRestart
  \/ Elapse /\ UNCHANGED <<onRampVars, run>>

SettlementSpec == SettlementInit /\ [][SettlementNext]_settlementVars

-----------------------------------------------------------------------------
\* What the ledger escrowed for a redemption, and the deposits' recorded amounts.
EscrowedAmount == [k \in Key |-> escrows[k].amount]
SumEscrowed(keys) == SumFunctionOnSet(EscrowedAmount, keys)
SumRecorded(refs) == SumFunctionOnSet(On!RecordedAmount, refs)

\* F2 and F6 where a holder would look, across both legs: what each account holds
\* or has put in escrow, given back or not, is exactly what the deposits recorded
\* for it minted.  No leg moves another account's tokens, or its own twice.
MintedFor(w) == {r \in nullifiers : deposits[r].wallet = w}
EscrowedBy(w) == {k \in Key : k[1] = w /\ escrows[k].status # "none"}

EveryAccountBalances ==
  \A w \in Account : balances[w] + SumEscrowed(EscrowedBy(w)) = SumRecorded(MintedFor(w))

\* "Drift means drift" (reconcile.rs): a report's drift is exactly the mints the
\* deposit rows did not show when they were read, less the burns the redemption
\* rows did not; reclaims, escrows and payouts during the run contribute nothing.
Burned == {k \in Key : escrows[k].status = "burned"}
MissedMints == nullifiers \ run.issued
MissedBurns == Burned \ run.redeemed

DriftIsExplained ==
  [][run.stage = "snapshot" /\ run'.stage = "encumbered" =>
       Drift' = SumRecorded(MissedMints) - SumEscrowed(MissedBurns)]_settlementVars

\* expected_supply's Underflow is never more than the mints that the first sum
\* missed: a run that finds more redeemed than issued has met a mint on its way to
\* its row, and nothing was redeemed that was not minted.
UnderflowIsMissedMint ==
  run.stage = "encumbered" => TotalRedeemed <= TotalIssued + SumRecorded(MissedMints)

\* Why the above hold, and the inductive strengthening the proofs use: each leg's
\* own invariant survives the other leg's steps, the ledger's supply is what it
\* minted less what it burned, and a run counts nothing that has not happened.
SupplyIsMintedLessBurned == supply + SumEscrowed(Burned) = SumRecorded(nullifiers)
RunIsBehind == run.issued \subseteq nullifiers /\ run.redeemed \subseteq Burned

SettlementInv ==
  /\ SettlementTypeOK
  /\ RedemptionInv
  /\ On!IssuanceInv
  /\ SupplyIsMintedLessBurned
  /\ RunIsBehind

\* "More redeemed than issued is not `zero supply', it is a corrupt ledger"
\* (LedgerTally::expected_supply): no run over this ledger, whose tokens are all
\* accounted for (EveryAccountBalances), finds it.  Not so: a mint that is recorded
\* after the first sum, and redeemed before the second, is in the second only.
UnderflowIsCorruption == run.stage = "encumbered" => TotalRedeemed <= TotalIssued
=============================================================================
