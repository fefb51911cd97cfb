--------------------------- MODULE IssuanceProofs ---------------------------
(***************************************************************************)
(* Theorems about the on-ramp, for every set of handlers, attestors, bank  *)
(* references, accounts and amounts, with lost replies and crashes.        *)
(*                                                                         *)
(* The argument: IssuanceInv records, for each place a process can be      *)
(* suspended at, what the row it will overwrite has already reached.  A    *)
(* process at or past the snapshot holds a row that is Screened or later,  *)
(* a process asking for the mint holds one that is Attested or Issued, and *)
(* a process screening a row is the only one.  So the blind overwrites can *)
(* move a row between Attested and Issued but never below Attested once    *)
(* the ledger has minted for it.                                           *)
(*                                                                         *)
(* Typing is inductive alone.  Then every step advances the rows           *)
(* (StepAdvancesRows), a process that does not move in a step keeps its    *)
(* hold on its row because rows only advance (BystanderHolds), and what is *)
(* left for each action is the process that does move.                     *)
(***************************************************************************)
EXTENDS Issuance, Sums

-----------------------------------------------------------------------------
\* Typing.

\* The ledger's calls preserve its types, whatever the caller passes.
LEMMA LedgerTyping ==
  ASSUME TreasuryTypeOK
  PROVE  /\ \A w, a, r : a \in Nat /\ r \in Ref /\ LedgerIssue(w, a, r) => TreasuryTypeOK'
         /\ \A v \in Nat, e \in Nat : LedgerAttest(v, e) => TreasuryTypeOK'
         /\ Tick => TreasuryTypeOK'
         /\ UNCHANGED treasuryVars => TreasuryTypeOK'
  <1>1. ASSUME NEW w, NEW a \in Nat, NEW r \in Ref, LedgerIssue(w, a, r)
        PROVE  TreasuryTypeOK'
    <2>1. w \in Account => balances[w] + a \in Nat
      BY DEF TreasuryTypeOK
    <2>2. balances' \in [Account -> Nat]
      BY <1>1, <2>1 DEF TreasuryTypeOK, LedgerIssue
    <2> QED
      BY <1>1, <2>2 DEF TreasuryTypeOK, LedgerIssue, clockVars
  <1>2. ASSUME NEW v \in Nat, NEW e \in Nat, LedgerAttest(v, e)
        PROVE  TreasuryTypeOK'
    BY <1>2 DEF TreasuryTypeOK, LedgerAttest, clockVars, Key
  <1>3. Tick => TreasuryTypeOK'
    BY DEF TreasuryTypeOK, Tick, ledgerVars, Key
  <1>4. UNCHANGED treasuryVars => TreasuryTypeOK'
    BY DEF TreasuryTypeOK, treasuryVars, clockVars, ledgerVars, Key
  <1> QED
    BY <1>1, <1>2, <1>3, <1>4

\* The initial state is well typed.
LEMMA InitTyping == IssuanceInit => IssuanceTypeOK
  BY TreasuryAssumption, IssuanceAssumption
     DEF IssuanceInit, IssuanceTypeOK, TreasuryInit, TreasuryTypeOK, NoRow, NoJob, NoSnap,
         NoAttest, Procs, Suspended, Told, Outcomes, NoEscrow, EscrowRecords, Key

\* A process that returns leaves its locals well typed.
LEMMA ReturnTyping ==
  ASSUME IssuanceTypeOK, NEW p \in Procs, NEW o \in Outcomes, Return(p, o),
         o \in Told => job[p] \in Jobs
  PROVE  /\ pc' \in [Procs -> {"idle"} \cup Suspended \cup Outcomes]
         /\ job' \in [Procs -> Jobs \cup {NoJob}]
         /\ \A q \in Procs : pc'[q] \in Suspended \cup Told => job'[q] \in Jobs
         /\ at' \in [Procs -> Nat]
         /\ snap' \in [Procs -> [att: [reserve: Nat, ts: Nat], supply: Nat]]
  <1>1. o \notin Suspended
    BY DEF Outcomes, Suspended
  <1>2. NoSnap \in [att: [reserve: Nat, ts: Nat], supply: Nat]
    BY DEF NoSnap
  <1> QED
    BY <1>1, <1>2 DEF IssuanceTypeOK, Return

\* A process that moves to its next suspension keeps its job.
LEMMA GotoTyping ==
  ASSUME IssuanceTypeOK, NEW p \in Procs, NEW place \in Suspended, Goto(p, place),
         job[p] \in Jobs
  PROVE  /\ pc' \in [Procs -> {"idle"} \cup Suspended \cup Outcomes]
         /\ job' \in [Procs -> Jobs \cup {NoJob}]
         /\ \A q \in Procs : pc'[q] \in Suspended \cup Told => job'[q] \in Jobs
         /\ at' \in [Procs -> Nat]
         /\ snap' \in [Procs -> [att: [reserve: Nat, ts: Nat], supply: Nat]]
  BY DEF IssuanceTypeOK, Goto

\* An overwrite of a row by a process's copy leaves the table well typed.
LEMMA SaveTyping ==
  ASSUME IssuanceTypeOK, NEW p \in Procs, job[p] \in Jobs,
         NEW st \in DepositStates \ {"none"}, Save(p, st)
  PROVE  deposits' \in [Ref -> Rows \cup {NoRow}]
  BY DEF IssuanceTypeOK, Save, Rows, Jobs

\* What is encumbered is a sum of naturals over finitely many rows.
LEMMA EncumbranceTyping ==
  ASSUME IssuanceTypeOK
  PROVE  /\ \A r \in Ref : RecordedAmount[r] \in Nat
         /\ TotalEncumbered \in Nat
  <1>1. \A r \in Ref : RecordedAmount[r] \in Nat
    BY DEF IssuanceTypeOK, RecordedAmount, Rows, NoRow
  <1>2. IsFiniteSet(Encumbering) /\ Encumbering \subseteq Ref
    BY FiniteAssumption, FS_Subset DEF Encumbering
  <1> QED
    BY <1>1, <1>2, SumNat DEF TotalEncumbered

\* Every step leaves the state well typed.
LEMMA StepTyping == IssuanceTypeOK /\ [IssuanceNext]_issuanceVars => IssuanceTypeOK'
  <1> SUFFICES ASSUME IssuanceTypeOK, [IssuanceNext]_issuanceVars
               PROVE  IssuanceTypeOK'
    OBVIOUS
  <1> USE DEF rowVars, procVars
  <1>a. TreasuryTypeOK
    BY DEF IssuanceTypeOK
  <1>b. \A p \in Procs : pc[p] \in Suspended => job[p] \in Jobs
    BY DEF IssuanceTypeOK
  <1>c. \A h \in Handlers : h \in Procs
    BY DEF Procs
  <1>d. Sweep \in Procs
    BY DEF Procs
  <1>1. ASSUME NEW h \in Handlers, NEW r \in Ref, NEW w \in Account, NEW a \in Amounts,
               Deliver(h, r, w, a)
        PROVE  IssuanceTypeOK'
    <2>1. TreasuryTypeOK'
      BY <1>a, <1>1, LedgerTyping DEF Deliver
    <2>2. a \in Nat /\ [ref |-> r, wallet |-> w, amount |-> a] \in Jobs
      BY TreasuryAssumption DEF Jobs
    <2>3. [state |-> "observed", wallet |-> w, amount |-> a] \in Rows
      BY <2>2 DEF Rows, DepositStates
    <2>4. deposits' \in [Ref -> Rows \cup {NoRow}]
      BY <1>1, <2>3 DEF Deliver, IssuanceTypeOK
    <2>5. now \in Nat /\ NoSnap \in [att: [reserve: Nat, ts: Nat], supply: Nat]
      BY <1>a DEF TreasuryTypeOK, NoSnap
    <2>6. /\ job' = [job EXCEPT ![h] = [ref |-> r, wallet |-> w, amount |-> a]]
          /\ at' = [at EXCEPT ![h] = now]
          /\ snap' = [snap EXCEPT ![h] = NoSnap]
          /\ \/ pc' = [pc EXCEPT ![h] = "screen"]
             \/ pc' = [pc EXCEPT ![h] = "find"]
          /\ UNCHANGED <<todo, inflight, pending, crashes>>
      BY <1>1 DEF Deliver
    <2>7. {"screen", "find"} \subseteq Suspended
      BY DEF Suspended
    <2> QED
      BY <1>c, <2>1, <2>2, <2>4, <2>5, <2>6, <2>7 DEF IssuanceTypeOK
  <1>2. ASSUME NEW h \in Handlers, ReplayPrior(h)
        PROVE  IssuanceTypeOK'
    <2>1. TreasuryTypeOK'
      BY <1>a, <1>2, LedgerTyping DEF ReplayPrior
    <2>2. PICK o \in Outcomes : Return(h, o)
      BY <1>2 DEF ReplayPrior, Outcomes
    <2>3. job[h] \in Jobs
      BY <1>b, <1>c, <1>2 DEF ReplayPrior, Suspended
    <2> QED
      BY <1>c, <1>2, <2>1, <2>2, <2>3, ReturnTyping DEF ReplayPrior, IssuanceTypeOK
  <1>3. ASSUME NEW h \in Handlers, ScreenPass(h)
        PROVE  IssuanceTypeOK'
    <2>1. TreasuryTypeOK'
      BY <1>a, <1>3, LedgerTyping DEF ScreenPass
    <2>2. job[h] \in Jobs
      BY <1>b, <1>c, <1>3 DEF ScreenPass, Suspended
    <2>3. Save(h, "screened") /\ "screened" \in DepositStates \ {"none"}
      BY <1>3 DEF ScreenPass, DepositStates
    <2>4. Goto(h, "snapshot") /\ "snapshot" \in Suspended
      BY <1>3 DEF ScreenPass, Suspended
    <2> QED
      BY <1>c, <1>3, <2>1, <2>2, <2>3, <2>4, SaveTyping, GotoTyping DEF ScreenPass, IssuanceTypeOK
  <1>4. ASSUME NEW h \in Handlers, ScreenFail(h)
        PROVE  IssuanceTypeOK'
    <2>1. TreasuryTypeOK'
      BY <1>a, <1>4, LedgerTyping DEF ScreenFail
    <2>2. job[h] \in Jobs
      BY <1>b, <1>c, <1>4 DEF ScreenFail, Suspended
    <2>3. Save(h, "encumbered") /\ "encumbered" \in DepositStates \ {"none"}
      BY <1>4 DEF ScreenFail, DepositStates
    <2>4. Return(h, "Encumbered") /\ "Encumbered" \in Outcomes
      BY <1>4 DEF ScreenFail, Outcomes
    <2> QED
      BY <1>c, <1>4, <2>1, <2>2, <2>3, <2>4, SaveTyping, ReturnTyping DEF ScreenFail, IssuanceTypeOK
  <1>5. ASSUME NEW p \in Procs, NEW o \in {"Error", "Held"}, Return(p, o),
               UNCHANGED <<treasuryVars, deposits, todo, pending>>,
               inflight' \subseteq Ref, crashes' \in Nat
        PROVE  IssuanceTypeOK'
    <2>1. TreasuryTypeOK'
      BY <1>a, <1>5, LedgerTyping
    <2>2. o \in Outcomes /\ o \notin Told
      BY DEF Outcomes, Told
    <2> QED
      BY <1>5, <2>1, <2>2, ReturnTyping DEF IssuanceTypeOK
  <1>6. ASSUME ListHeld
        PROVE  IssuanceTypeOK'
    BY <1>a, <1>6, LedgerTyping DEF ListHeld, IssuanceTypeOK
  <1>7. ASSUME NEW r \in Ref, RetryHeld(r)
        PROVE  IssuanceTypeOK'
    <2>1. TreasuryTypeOK'
      BY <1>a, <1>7, LedgerTyping DEF RetryHeld
    <2>2. now \in Nat /\ todo' \subseteq Ref
      BY <1>a, <1>7 DEF TreasuryTypeOK, IssuanceTypeOK, RetryHeld
    <2>3. CASE State(r) = "screened"
      <3>1. [ref |-> r, wallet |-> deposits[r].wallet, amount |-> deposits[r].amount] \in Jobs
        BY <2>3 DEF IssuanceTypeOK, State, NoRow, Rows, Jobs
      <3>2. "snapshot" \in Suspended
        BY DEF Suspended
      <3> QED
        BY <1>7, <1>d, <2>1, <2>2, <2>3, <3>1, <3>2 DEF RetryHeld, IssuanceTypeOK
    <2>4. CASE State(r) # "screened"
      BY <1>7, <2>1, <2>2, <2>4 DEF RetryHeld, IssuanceTypeOK
    <2> QED
      BY <2>3, <2>4
  <1>8. ASSUME NEW r \in Ref, Land(r)
        PROVE  IssuanceTypeOK'
    <2>1. deposits[r].amount \in Nat
      BY DEF IssuanceTypeOK, NoRow, Rows
    <2>2. TreasuryTypeOK'
      BY <1>a, <1>8, <2>1, LedgerTyping DEF Land
    <2> QED
      BY <1>8, <2>2 DEF Land, IssuanceTypeOK
  <1>9. ASSUME NEW p \in Procs, TakeSnapshot(p)
        PROVE  IssuanceTypeOK'
    <2>1. TreasuryTypeOK'
      BY <1>a, <1>9, LedgerTyping DEF TakeSnapshot
    <2>2. [att |-> attested, supply |-> supply] \in [att: [reserve: Nat, ts: Nat], supply: Nat]
      BY <1>a DEF TreasuryTypeOK
    <2>3. job[p] \in Jobs /\ "check" \in Suspended
      BY <1>b, <1>9 DEF TakeSnapshot, Suspended
    <2> QED
      BY <1>9, <2>1, <2>2, <2>3 DEF TakeSnapshot, IssuanceTypeOK
  <1>10. ASSUME NEW p \in Procs, CheckReserve(p)
         PROVE  IssuanceTypeOK'
    <2>1. TreasuryTypeOK'
      BY <1>a, <1>10, LedgerTyping DEF CheckReserve
    <2>2. NoSnap \in [att: [reserve: Nat, ts: Nat], supply: Nat]
      BY DEF NoSnap
    <2>3. job[p] \in Jobs /\ "saveAttested" \in Suspended
      BY <1>b, <1>10 DEF CheckReserve, Suspended
    <2> QED
      BY <1>10, <2>1, <2>2, <2>3 DEF CheckReserve, IssuanceTypeOK
  <1>11. ASSUME NEW p \in Procs, SaveAttested(p)
         PROVE  IssuanceTypeOK'
    <2>1. TreasuryTypeOK'
      BY <1>a, <1>11, LedgerTyping DEF SaveAttested
    <2>2. job[p] \in Jobs
      BY <1>b, <1>11 DEF SaveAttested, Suspended
    <2>3. Save(p, "attested") /\ "attested" \in DepositStates \ {"none"}
      BY <1>11 DEF SaveAttested, DepositStates
    <2>4. Goto(p, "issue") /\ "issue" \in Suspended
      BY <1>11 DEF SaveAttested, Suspended
    <2> QED
      BY <1>11, <2>1, <2>2, <2>3, <2>4, SaveTyping, GotoTyping DEF SaveAttested, IssuanceTypeOK
  <1>12. ASSUME NEW p \in Procs, IssueConfirmed(p)
         PROVE  IssuanceTypeOK'
    <2>1. job[p] \in Jobs
      BY <1>b, <1>12 DEF IssueConfirmed, Suspended
    <2>2. TreasuryTypeOK'
      BY <1>a, <1>12, <2>1, LedgerTyping DEF IssueConfirmed, Jobs
    <2>3. Goto(p, "saveIssued") /\ "saveIssued" \in Suspended
      BY <1>12 DEF IssueConfirmed, Suspended
    <2> QED
      BY <1>12, <2>1, <2>2, <2>3, GotoTyping DEF IssueConfirmed, IssuanceTypeOK
  <1>13. ASSUME NEW p \in Procs, SaveIssued(p)
         PROVE  IssuanceTypeOK'
    <2>1. TreasuryTypeOK'
      BY <1>a, <1>13, LedgerTyping DEF SaveIssued
    <2>2. job[p] \in Jobs
      BY <1>b, <1>13 DEF SaveIssued, Suspended
    <2>3. Save(p, "issued") /\ "issued" \in DepositStates \ {"none"}
      BY <1>13 DEF SaveIssued, DepositStates
    <2>4. Return(p, "Issued") /\ "Issued" \in Outcomes
      BY <1>13 DEF SaveIssued, Outcomes
    <2> QED
      BY <1>13, <2>1, <2>2, <2>3, <2>4, SaveTyping, ReturnTyping DEF SaveIssued, IssuanceTypeOK
  <1>14. ASSUME NEW a \in Attestors, NEW v \in Reserves, AttestRead(a, v)
         PROVE  IssuanceTypeOK'
    <2>1. TreasuryTypeOK'
      BY <1>a, <1>14, LedgerTyping DEF AttestRead
    <2>2. [busy |-> TRUE, reserve |-> v, enc |-> TotalEncumbered]
            \in [busy: BOOLEAN, reserve: Nat, enc: Nat]
      BY EncumbranceTyping, TreasuryAssumption
    <2> QED
      BY <1>14, <2>1, <2>2 DEF AttestRead, IssuanceTypeOK
  <1>15. ASSUME NEW a \in Attestors, AttestPublish(a)
         PROVE  IssuanceTypeOK'
    <2>1. pending[a].reserve \in Nat /\ pending[a].enc \in Nat
      BY DEF IssuanceTypeOK
    <2>2. TreasuryTypeOK'
      BY <1>a, <1>15, <2>1, LedgerTyping DEF AttestPublish
    <2>3. NoAttest \in [busy: BOOLEAN, reserve: Nat, enc: Nat]
      BY DEF NoAttest
    <2> QED
      BY <1>15, <2>2, <2>3 DEF AttestPublish, IssuanceTypeOK
  <1>15b. ASSUME NEW a \in Attestors, AttestLost(a)
         PROVE  IssuanceTypeOK'
    <2>1. TreasuryTypeOK'
      BY <1>a, <1>15b, LedgerTyping DEF AttestLost
    <2>2. NoAttest \in [busy: BOOLEAN, reserve: Nat, enc: Nat]
      BY DEF NoAttest
    <2> QED
      BY <1>15b, <2>1, <2>2 DEF AttestLost, IssuanceTypeOK
  <1>15c. ASSUME NEW a \in Attestors, AttestAgain(a)
         PROVE  IssuanceTypeOK'
    <2>1. pending[a].reserve \in Nat /\ pending[a].enc \in Nat
      BY DEF IssuanceTypeOK
    <2>2. TreasuryTypeOK'
      BY <1>a, <1>15c, <2>1, LedgerTyping DEF AttestAgain
    <2> QED
      BY <1>15c, <2>2 DEF AttestAgain, IssuanceTypeOK
  <1>16. ASSUME Restart
         PROVE  IssuanceTypeOK'
    <2>1. TreasuryTypeOK'
      BY <1>a, <1>16, LedgerTyping DEF Restart
    <2>2. "idle" \notin Suspended \cup Told
      BY DEF Suspended, Told
    <2>3. NoSnap \in [att: [reserve: Nat, ts: Nat], supply: Nat]
      BY DEF NoSnap
    <2>4. NoAttest \in [busy: BOOLEAN, reserve: Nat, enc: Nat]
      BY DEF NoAttest
    <2> QED
      BY <1>16, <2>1, <2>2, <2>3, <2>4 DEF Restart, IssuanceTypeOK
  <1>17. ASSUME Elapse
         PROVE  IssuanceTypeOK'
    BY <1>a, <1>17, LedgerTyping DEF Elapse, IssuanceTypeOK
  <1>18. CASE UNCHANGED issuanceVars
    BY <1>a, <1>18, LedgerTyping DEF issuanceVars, IssuanceTypeOK
  <1>19. ASSUME NEW h \in Handlers, ScreenError(h) \/ DropHandler(h)
         PROVE  IssuanceTypeOK'
    <2>1. crashes' \in Nat /\ inflight' \subseteq Ref
      BY <1>19 DEF ScreenError, DropHandler, IssuanceTypeOK
    <2> QED
      BY <1>5, <1>c, <1>19, <2>1 DEF ScreenError, DropHandler
  <1>20. ASSUME NEW p \in Procs,
                HoldDeposit(p) \/ IssueRefused(p) \/ IssueSubmitted(p) \/ IssueFailed(p)
         PROVE  IssuanceTypeOK'
    <2>1. pc[p] \in Suspended
      BY <1>20 DEF HoldDeposit, IssueRefused, IssueSubmitted, IssueFailed, Suspended
    <2>2. job[p].ref \in Ref
      BY <1>b, <2>1 DEF Jobs
    <2>3. crashes' \in Nat /\ inflight' \subseteq Ref
      BY <1>20, <2>2
         DEF HoldDeposit, IssueRefused, IssueSubmitted, IssueFailed, IssuanceTypeOK
    <2> QED
      BY <1>5, <1>20, <2>3
         DEF HoldDeposit, IssueRefused, IssueSubmitted, IssueFailed, LedgerIssueRefused
  <1> QED
    BY <1>1, <1>2, <1>3, <1>4, <1>6, <1>7, <1>8, <1>9, <1>10, <1>11, <1>12, <1>13, <1>14,
       <1>15, <1>16, <1>17, <1>18, <1>19, <1>20, <1>15b, <1>15c
       DEF IssuanceNext, OnRampNext, Handler, Process

\* Every variable keeps its type: in particular a suspended process always
\* carries a real deposit, so no overwrite can write an absent row.
THEOREM IssuanceTyping == IssuanceSpec => []IssuanceTypeOK
  BY InitTyping, StepTyping, PTL DEF IssuanceSpec

-----------------------------------------------------------------------------
\* What a step may do to the rows and the ledger's record of them, and what it
\* must leave true of each process.

Minting(r) == State(r) \in {"attested", "issued"}

RowStep ==
  /\ \A r \in Ref : RowAdvances(r)
  /\ \A r \in Ref : State(r)' = "issued" => State(r) = "issued" \/ r \in nullifiers
  /\ nullifiers \subseteq nullifiers'
  /\ \A r \in nullifiers' \ nullifiers : Minting(r)
  /\ \A r \in inflight' \ inflight : Minting(r)

\* A row leaves Observed by the hand of the process screening it, which goes on.
Bystander(p) ==
  /\ pc'[p] = pc[p]
  /\ job'[p] = job[p]
  /\ pc[p] = "screen" => deposits'[job[p].ref] = deposits[job[p].ref]

\* Nobody starts screening a row that exists.
ScreenStep ==
  \A p \in Procs : pc'[p] = "screen" => pc[p] = "screen" /\ job'[p] = job[p]

\* A row that is Attested or Issued stays so.
LEMMA MintingStays ==
  ASSUME NEW r \in Ref, RowAdvances(r), Minting(r)
  PROVE  Minting(r)'
  BY DEF RowAdvances, Minting, State

\* A step of this kind keeps the rows and the ledger's record of mints in agreement.
LEMMA RecordsStay ==
  ASSUME IssuanceInv, IssuanceTypeOK', RowStep
  PROVE  RecordsMatchMints' /\ InflightIsAttested'
  <1>1. ASSUME NEW r \in Ref, r \in nullifiers' \/ r \in inflight'
        PROVE  Minting(r)'
    <2>1. Minting(r)
      BY <1>1 DEF IssuanceInv, RecordsMatchMints, InflightIsAttested, RowStep, Minting
    <2> QED
      BY <2>1, MintingStays DEF RowStep
  <1>2. ASSUME NEW r \in Ref, State(r)' = "issued"
        PROVE  r \in nullifiers'
    BY <1>2 DEF IssuanceInv, RecordsMatchMints, RowStep
  <1>3. inflight' \subseteq Ref
    BY DEF IssuanceTypeOK
  <1> QED
    BY <1>1, <1>2, <1>3 DEF RecordsMatchMints, InflightIsAttested, Minting, State

\* A process that does not move keeps its hold, because rows only advance.
LEMMA BystanderHolds ==
  ASSUME IssuanceInv, RowStep, NEW p \in Procs, Bystander(p)
  PROVE  HoldsRow(p)'
  <1> DEFINE r == job[p].ref
  <1>1. HoldsRow(p)
    BY DEF IssuanceInv
  <1>2. CASE pc[p] \in Suspended \cup Told
    <2>1. r \in Ref
      BY <1>2 DEF IssuanceInv, IssuanceTypeOK, Jobs
    <2>2. RowAdvances(r) /\ nullifiers \subseteq nullifiers'
      BY <2>1 DEF RowStep
    <2>3. pc'[p] = pc[p] /\ job'[p] = job[p]
      BY DEF Bystander
    <2>4. deposits[r] \in Rows \cup {NoRow}
      BY <2>1 DEF IssuanceInv, IssuanceTypeOK
    <2>5. State(r) # "none" => /\ deposits'[r].wallet = deposits[r].wallet
                               /\ deposits'[r].amount = deposits[r].amount
      BY <2>2, <2>4 DEF RowAdvances, State, Rows, NoRow
    <2>6. pc[p] \in Driving \ {"saveIssued"} => State(r) # "none"
      BY <1>1 DEF HoldsRow, Driving, Suspended
    <2>7. pc[p] = "saveIssued" => State(r) # "none"
      BY <1>1, <2>1 DEF HoldsRow, IssuanceInv, RecordsMatchMints
    <2>8. (pc[p] \in Driving =>
            deposits[r].wallet = job[p].wallet /\ deposits[r].amount = job[p].amount)'
      BY <1>1, <2>3, <2>5, <2>6, <2>7 DEF HoldsRow
    <2>9. (pc[p] = "screen" => State(r) = "observed")'
      BY <1>1, <2>3 DEF HoldsRow, Bystander, State
    <2>10. (pc[p] \in {"snapshot", "check", "saveAttested"} =>
              State(r) \in {"screened", "attested", "issued"})'
      BY <1>1, <2>2, <2>3 DEF HoldsRow, RowAdvances, State
    <2>11. (pc[p] = "issue" => State(r) \in {"attested", "issued"})'
      BY <1>1, <2>2, <2>3 DEF HoldsRow, RowAdvances, State
    <2>12. (pc[p] \in {"saveIssued", "Issued", "AlreadyIssued"} => r \in nullifiers)'
      BY <1>1, <2>2, <2>3 DEF HoldsRow
    <2>13. (pc[p] = "Encumbered" => State(r) = "encumbered")'
      BY <1>1, <2>2, <2>3 DEF HoldsRow, RowAdvances, State
    <2> HIDE DEF r
    <2> QED
      BY <2>8, <2>9, <2>10, <2>11, <2>12, <2>13 DEF HoldsRow, r
  <1>3. CASE pc[p] \notin Suspended \cup Told
    BY <1>3 DEF Bystander, HoldsRow, Driving, Suspended, Told
  <1> QED
    BY <1>2, <1>3

\* A process that holds nothing has nothing to lose.
LEMMA NothingHeld ==
  ASSUME NEW p, pc'[p] \in {"idle", "find", "Held", "Error"}
  PROVE  HoldsRow(p)'
  BY DEF HoldsRow, Driving, Suspended

\* A step preserves the invariant when it moves rows so, and each process's part holds.
LEMMA Assemble ==
  ASSUME IssuanceInv, IssuanceTypeOK', RowStep, ScreenStep \/ OneScreener',
         \A p \in Procs : Bystander(p) \/ HoldsRow(p)'
  PROVE  IssuanceInv' /\ RowStep
  <1>1. RecordsMatchMints' /\ InflightIsAttested'
    BY RecordsStay
  <1>2. OneScreener'
    <2>1. CASE ScreenStep
      BY <2>1 DEF ScreenStep, IssuanceInv, OneScreener
    <2> QED
      BY <2>1
  <1>3. \A p \in Procs : HoldsRow(p)'
    BY BystanderHolds
  <1> QED
    BY <1>1, <1>2, <1>3 DEF IssuanceInv

-----------------------------------------------------------------------------
\* The two kinds of step: one that writes no row, and one that overwrites one.

LEMMA QuietStep ==
  ASSUME UNCHANGED <<deposits, nullifiers>>, inflight' \subseteq inflight
  PROVE  RowStep /\ \A q \in Procs : pc'[q] = pc[q] /\ job'[q] = job[q] => Bystander(q)
  BY DEF RowStep, RowAdvances, Bystander, State

\* A mint for a row that is Attested or Issued.
LEMMA MintStep ==
  ASSUME NEW r \in Ref, Minting(r), UNCHANGED deposits, inflight' \subseteq inflight,
         nullifiers' = nullifiers \cup {r}
  PROVE  RowStep /\ \A q \in Procs : pc'[q] = pc[q] /\ job'[q] = job[q] => Bystander(q)
  BY DEF RowStep, RowAdvances, Bystander, State

\* A process moves alone.
LEMMA OneMover ==
  ASSUME IssuanceTypeOK, NEW p \in Procs, NEW v,
         Goto(p, v) \/ (Return(p, v) /\ v \notin Suspended)
  PROVE  /\ \A q \in Procs \ {p} : pc'[q] = pc[q] /\ job'[q] = job[q]
         /\ pc'[p] = v
         /\ v # "screen" => ScreenStep
         /\ Goto(p, v) \/ v \in Told => job'[p] = job[p]
  BY DEF IssuanceTypeOK, Goto, Return, ScreenStep, Suspended

\* The overwrite itself: what the process knows of its row makes it an advance,
\* and no other process is screening that row.
LEMMA SaveStep ==
  ASSUME IssuanceInv, NEW p \in Procs, NEW st, Save(p, st),
         UNCHANGED <<nullifiers, inflight>>,
         \/ pc[p] = "screen" /\ st \in {"screened", "encumbered"}
         \/ pc[p] = "saveAttested" /\ st = "attested"
         \/ pc[p] = "saveIssued" /\ st = "issued"
  PROVE  /\ RowStep
         /\ deposits'[job[p].ref] = [state |-> st, wallet |-> job[p].wallet, amount |-> job[p].amount]
         /\ \A q \in Procs \ {p} : pc'[q] = pc[q] /\ job'[q] = job[q] => Bystander(q)
  <1>0. PICK r \in Ref : r = job[p].ref
    BY DEF IssuanceInv, IssuanceTypeOK, Jobs, Suspended
  <1>1. deposits[r] \in Rows \cup {NoRow} /\ HoldsRow(p) /\ pc[p] \in Driving
    BY DEF IssuanceInv, IssuanceTypeOK, Driving, Suspended
  <1>2. /\ deposits[r].wallet = job[p].wallet /\ deposits[r].amount = job[p].amount
        /\ pc[p] = "screen" => State(r) = "observed"
        /\ pc[p] = "saveAttested" => State(r) \in {"screened", "attested", "issued"}
        /\ pc[p] = "saveIssued" => r \in nullifiers
    BY <1>0, <1>1 DEF HoldsRow
  <1>3. pc[p] = "saveIssued" => Minting(r)
    BY <1>1, <1>2 DEF IssuanceInv, RecordsMatchMints, Minting
  <1>4. /\ deposits'[r] = [state |-> st, wallet |-> job[p].wallet, amount |-> job[p].amount]
        /\ \A q \in Ref \ {r} : deposits'[q] = deposits[q]
    BY <1>0 DEF Save, IssuanceInv, IssuanceTypeOK
  <1>5. RowAdvances(r)
    <2>1. State(r) # "none"
      BY <1>2, <1>3 DEF Minting
    <2>2. deposits'[r] = [deposits[r] EXCEPT !.state = State(r)']
      BY <1>1, <1>2, <1>4, <2>1 DEF Rows, NoRow, State
    <2> QED
      BY <1>2, <1>3, <1>4, <2>2 DEF RowAdvances, State, Minting
  <1>6. \A q \in Ref \ {r} : RowAdvances(q)
    BY <1>4 DEF RowAdvances
  <1>7. \A q \in Ref : State(q)' = "issued" => State(q) = "issued" \/ q \in nullifiers
    BY <1>2, <1>4 DEF State
  <1>8. RowStep
    BY <1>5, <1>6, <1>7 DEF RowStep
  <1>9. ASSUME NEW q \in Procs \ {p}, pc'[q] = pc[q], job'[q] = job[q]
        PROVE  Bystander(q)
    <2>1. CASE pc[q] = "screen"
      <3>1. State(job[q].ref) = "observed" /\ job[q].ref \in Ref
        BY <2>1 DEF IssuanceInv, HoldsRow, IssuanceTypeOK, Jobs, Suspended
      <3>2. job[q].ref # r
        <4>1. CASE pc[p] = "screen"
          BY <1>0, <2>1, <4>1 DEF IssuanceInv, OneScreener
        <4>2. CASE pc[p] # "screen"
          BY <1>2, <1>3, <3>1, <4>2 DEF Minting
        <4> QED
          BY <4>1, <4>2
      <3> QED
        BY <1>0, <1>4, <1>9, <3>1, <3>2 DEF Bystander
    <2>2. CASE pc[q] # "screen"
      BY <1>9, <2>2 DEF Bystander
    <2> QED
      BY <2>1, <2>2
  <1> QED
    BY <1>0, <1>4, <1>8, <1>9

-----------------------------------------------------------------------------
\* IssuanceInv is inductive: one step per action.

LEMMA InitInvariant == IssuanceInit => IssuanceInv
  <1> SUFFICES ASSUME IssuanceInit
               PROVE  IssuanceInv
    OBVIOUS
  <1>1. \A p \in Procs : pc[p] = "idle"
    BY DEF IssuanceInit
  <1>2. \A p \in Procs : HoldsRow(p)
    BY <1>1 DEF HoldsRow, Driving, Suspended
  <1>3. RecordsMatchMints /\ InflightIsAttested
    BY DEF IssuanceInit, TreasuryInit, RecordsMatchMints, InflightIsAttested, State, NoRow
  <1> QED
    BY <1>1, <1>2, <1>3, InitTyping DEF IssuanceInv, OneScreener

\* Every step keeps the invariant, and moves rows only as RowStep says.
LEMMA StepInvariant == IssuanceInv /\ [IssuanceNext]_issuanceVars => IssuanceInv' /\ RowStep
  <1> SUFFICES ASSUME IssuanceInv, [IssuanceNext]_issuanceVars
               PROVE  IssuanceInv' /\ RowStep
    OBVIOUS
  <1>a. IssuanceTypeOK /\ IssuanceTypeOK'
    BY StepTyping DEF IssuanceInv
  <1>b. /\ \A h \in Handlers : h \in Procs
        /\ Sweep \in Procs
    BY DEF Procs
  <1>c. \A p \in Procs : HoldsRow(p) /\ (pc[p] \in Suspended => job[p].ref \in Ref)
    BY DEF IssuanceInv, IssuanceTypeOK, Jobs
  \* A process that only gives up, or only waits for its next reply.
  <1>d. ASSUME NEW p \in Procs, NEW v \in {"Held", "Error"}, Return(p, v),
               UNCHANGED <<deposits, nullifiers>>, inflight' \subseteq inflight
        PROVE  IssuanceInv' /\ RowStep
    <2>1. HoldsRow(p)' /\ ScreenStep
      BY <1>a, <1>d, OneMover, NothingHeld DEF Suspended
    <2>2. \A q \in Procs \ {p} : pc'[q] = pc[q] /\ job'[q] = job[q]
      BY <1>a, <1>d, OneMover DEF Suspended
    <2> QED
      BY <1>a, <1>d, <2>1, <2>2, QuietStep, Assemble
  <1>e. ASSUME UNCHANGED <<deposits, nullifiers, pc, job>>, inflight' \subseteq inflight
        PROVE  IssuanceInv' /\ RowStep
    <2>1. ScreenStep
      BY <1>e DEF ScreenStep
    <2> QED
      BY <1>a, <1>e, <2>1, QuietStep, Assemble
  <1>1. ASSUME NEW h \in Handlers, NEW r \in Ref, NEW w \in Account, NEW a \in Amounts,
               Deliver(h, r, w, a)
        PROVE  IssuanceInv' /\ RowStep
    <2>1. /\ \A q \in Procs \ {h} : pc'[q] = pc[q] /\ job'[q] = job[q]
          /\ job'[h] = [ref |-> r, wallet |-> w, amount |-> a]
          /\ UNCHANGED <<nullifiers, inflight>>
      BY <1>1, <1>a, <1>b DEF Deliver, IssuanceTypeOK, treasuryVars, ledgerVars
    <2>2. CASE State(r) = "none"
      <3>1. /\ deposits' = [deposits EXCEPT
                             ![r] = [state |-> "observed", wallet |-> w, amount |-> a]]
            /\ pc'[h] = "screen"
        BY <1>1, <1>a, <1>b, <2>2 DEF Deliver, IssuanceTypeOK
      <3>2. /\ deposits'[r] = [state |-> "observed", wallet |-> w, amount |-> a]
            /\ \A q \in Ref \ {r} : deposits'[q] = deposits[q]
        BY <3>1, <1>a DEF IssuanceTypeOK
      <3>3. RowStep
        BY <2>1, <2>2, <3>2 DEF RowStep, RowAdvances, State
      <3>4. \A q \in Procs : pc[q] = "screen" => job[q].ref # r /\ job[q].ref \in Ref
        BY <1>c, <2>2 DEF HoldsRow, Suspended
      <3>5. \A q \in Procs \ {h} : Bystander(q)
        BY <2>1, <3>2, <3>4 DEF Bystander
      <3>6. HoldsRow(h)'
        BY <2>1, <3>1, <3>2 DEF HoldsRow, State
      <3>7. OneScreener'
        BY <2>1, <3>4 DEF OneScreener, IssuanceInv
      <3> QED
        BY <1>a, <3>3, <3>5, <3>6, <3>7, Assemble
    <2>3. CASE State(r) # "none"
      <3>1. UNCHANGED deposits /\ pc'[h] = "find"
        BY <1>1, <1>a, <1>b, <2>3 DEF Deliver, IssuanceTypeOK
      <3>2. HoldsRow(h)'
        BY <3>1, NothingHeld
      <3>3. ScreenStep
        BY <2>1, <3>1 DEF ScreenStep
      <3> QED
        BY <1>a, <2>1, <3>1, <3>2, <3>3, QuietStep, Assemble
    <2> QED
      BY <2>2, <2>3
  <1>2. ASSUME NEW h \in Handlers, ReplayPrior(h)
        PROVE  IssuanceInv' /\ RowStep
    <2>1. /\ h \in Procs /\ pc[h] = "find" /\ job[h].ref \in Ref
          /\ UNCHANGED <<deposits, nullifiers, inflight>>
      BY <1>2, <1>b, <1>c DEF ReplayPrior, Suspended, rowVars, treasuryVars, ledgerVars
    <2>2. CASE State(job[h].ref) = "issued"
      <3>1. Return(h, "AlreadyIssued") /\ job[h].ref \in nullifiers
        BY <1>2, <2>1, <2>2 DEF ReplayPrior, IssuanceInv, RecordsMatchMints
      <3>2. /\ \A q \in Procs \ {h} : pc'[q] = pc[q] /\ job'[q] = job[q]
            /\ pc'[h] = "AlreadyIssued" /\ job'[h] = job[h] /\ ScreenStep
        BY <1>a, <2>1, <3>1, OneMover DEF Told, Suspended
      <3>3. HoldsRow(h)'
        BY <2>1, <3>1, <3>2 DEF HoldsRow, Driving, Suspended
      <3> QED
        BY <1>a, <2>1, <3>2, <3>3, QuietStep, Assemble
    <2>3. CASE State(job[h].ref) = "encumbered"
      <3>1. Return(h, "Encumbered")
        BY <1>2, <2>3 DEF ReplayPrior
      <3>2. /\ \A q \in Procs \ {h} : pc'[q] = pc[q] /\ job'[q] = job[q]
            /\ pc'[h] = "Encumbered" /\ job'[h] = job[h] /\ ScreenStep
        BY <1>a, <2>1, <3>1, OneMover DEF Told, Suspended
      <3>3. HoldsRow(h)'
        BY <2>1, <2>3, <3>2 DEF HoldsRow, Driving, Suspended, State
      <3> QED
        BY <1>a, <2>1, <3>2, <3>3, QuietStep, Assemble
    <2>4. CASE State(job[h].ref) \notin {"issued", "encumbered"}
      BY <1>2, <1>d, <2>1, <2>4 DEF ReplayPrior
    <2> QED
      BY <2>2, <2>3, <2>4
  <1>3. ASSUME NEW p \in Procs, NEW st, NEW v, Save(p, st),
               UNCHANGED <<nullifiers, inflight>>,
               \/ pc[p] = "screen" /\ st = "screened" /\ v = "snapshot" /\ Goto(p, v)
               \/ pc[p] = "screen" /\ st = "encumbered" /\ v = "Encumbered" /\ Return(p, v)
               \/ pc[p] = "saveAttested" /\ st = "attested" /\ v = "issue" /\ Goto(p, v)
               \/ pc[p] = "saveIssued" /\ st = "issued" /\ v = "Issued" /\ Return(p, v)
        PROVE  IssuanceInv' /\ RowStep
    <2>1. /\ \A q \in Procs \ {p} : pc'[q] = pc[q] /\ job'[q] = job[q]
          /\ pc'[p] = v /\ job'[p] = job[p] /\ ScreenStep
      BY <1>3, <1>a, OneMover DEF Told, Suspended
    <2>2. /\ RowStep
          /\ deposits'[job[p].ref] =
               [state |-> st, wallet |-> job[p].wallet, amount |-> job[p].amount]
          /\ \A q \in Procs \ {p} : pc'[q] = pc[q] /\ job'[q] = job[q] => Bystander(q)
      BY <1>3, SaveStep
    <2>3. pc[p] = "saveIssued" => job[p].ref \in nullifiers
      BY <1>c DEF HoldsRow
    <2>4. HoldsRow(p)'
      BY <1>3, <2>1, <2>2, <2>3 DEF HoldsRow, Driving, Suspended, State
    <2> QED
      BY <1>a, <2>1, <2>2, <2>4, Assemble
  <1>4. ASSUME NEW h \in Handlers, ScreenPass(h) \/ ScreenFail(h) \/ ScreenError(h)
        PROVE  IssuanceInv' /\ RowStep
    BY <1>3, <1>4, <1>b, <1>d
       DEF ScreenPass, ScreenFail, ScreenError, rowVars, treasuryVars, ledgerVars
  <1>5. ASSUME NEW h \in Handlers, DropHandler(h)
        PROVE  IssuanceInv' /\ RowStep
    BY <1>5, <1>b, <1>d DEF DropHandler, rowVars, treasuryVars, ledgerVars
  <1>6. ASSUME NEW r \in Ref, RetryHeld(r)
        PROVE  IssuanceInv' /\ RowStep
    <2>1. /\ \A q \in Procs \ {Sweep} : pc'[q] = pc[q] /\ job'[q] = job[q]
          /\ UNCHANGED <<deposits, nullifiers, inflight>>
      BY <1>6, <1>a DEF RetryHeld, IssuanceTypeOK, treasuryVars, ledgerVars, procVars
    <2>2. CASE State(r) = "screened"
      <3>1. /\ pc'[Sweep] = "snapshot"
            /\ job'[Sweep] =
                 [ref |-> r, wallet |-> deposits[r].wallet, amount |-> deposits[r].amount]
        BY <1>6, <1>a, <1>b, <2>2 DEF RetryHeld, IssuanceTypeOK
      <3>2. HoldsRow(Sweep)' /\ ScreenStep
        BY <2>1, <2>2, <3>1 DEF HoldsRow, ScreenStep, State
      <3> QED
        BY <1>a, <2>1, <3>2, QuietStep, Assemble
    <2>3. CASE State(r) # "screened"
      BY <1>6, <1>e, <2>1, <2>3 DEF RetryHeld, procVars
    <2> QED
      BY <2>2, <2>3
  <1>7. ASSUME NEW r \in Ref, Land(r)
        PROVE  IssuanceInv' /\ RowStep
    <2>1. inflight' \subseteq inflight /\ UNCHANGED <<deposits, pc, job>>
      BY <1>7 DEF Land, procVars
    <2>2. CASE UNCHANGED treasuryVars
      BY <1>e, <2>1, <2>2 DEF treasuryVars, ledgerVars
    <2>3. CASE LedgerIssue(deposits[r].wallet, deposits[r].amount, r)
      <3>1. Minting(r)
        BY <1>7 DEF Land, IssuanceInv, InflightIsAttested, Minting
      <3>2. nullifiers' = nullifiers \cup {r} /\ ScreenStep
        BY <2>1, <2>3 DEF LedgerIssue, ScreenStep
      <3> QED
        BY <1>a, <2>1, <3>1, <3>2, MintStep, Assemble
    <2> QED
      BY <1>7, <2>2, <2>3 DEF Land
  <1>8. ASSUME NEW p \in Procs, TakeSnapshot(p) \/ CheckReserve(p)
        PROVE  IssuanceInv' /\ RowStep
    <2>1. /\ \A q \in Procs \ {p} : pc'[q] = pc[q] /\ job'[q] = job[q]
          /\ pc[p] \in {"snapshot", "check"} /\ pc'[p] \in {"check", "saveAttested"}
          /\ job'[p] = job[p]
          /\ UNCHANGED <<deposits, nullifiers, inflight>>
      BY <1>8, <1>a
         DEF TakeSnapshot, CheckReserve, IssuanceTypeOK, treasuryVars, ledgerVars, rowVars
    <2>2. HoldsRow(p)' /\ ScreenStep
      BY <1>c, <2>1 DEF HoldsRow, Driving, Suspended, ScreenStep, State
    <2> QED
      BY <1>a, <2>1, <2>2, QuietStep, Assemble
  <1>9. ASSUME NEW p \in Procs, HoldDeposit(p) \/ IssueRefused(p) \/ IssueFailed(p)
        PROVE  IssuanceInv' /\ RowStep
    BY <1>9, <1>d
       DEF HoldDeposit, IssueRefused, IssueFailed, LedgerIssueRefused, rowVars, treasuryVars,
           ledgerVars
  <1>10. ASSUME NEW p \in Procs, SaveAttested(p) \/ SaveIssued(p)
         PROVE  IssuanceInv' /\ RowStep
    BY <1>3, <1>10 DEF SaveAttested, SaveIssued, treasuryVars, ledgerVars
  <1>11. ASSUME NEW p \in Procs, IssueConfirmed(p)
         PROVE  IssuanceInv' /\ RowStep
    <2>1. PICK r \in Ref : r = job[p].ref /\ Minting(r) /\ HoldsRow(p)
      BY <1>11, <1>c DEF IssueConfirmed, Suspended, HoldsRow, Minting
    <2>2. /\ nullifiers' = nullifiers \cup {r}
          /\ UNCHANGED <<deposits, inflight>>
          /\ Goto(p, "saveIssued") /\ pc[p] = "issue"
      BY <1>11, <2>1 DEF IssueConfirmed, LedgerIssue, rowVars
    <2>3. /\ \A q \in Procs \ {p} : pc'[q] = pc[q] /\ job'[q] = job[q]
          /\ pc'[p] = "saveIssued" /\ job'[p] = job[p] /\ ScreenStep
      BY <1>a, <2>2, OneMover
    <2>4. HoldsRow(p)'
      BY <2>1, <2>2, <2>3 DEF HoldsRow, Driving, Suspended, State
    <2> QED
      BY <1>a, <2>1, <2>2, <2>3, <2>4, MintStep, Assemble
  <1>12. ASSUME NEW p \in Procs, IssueSubmitted(p)
         PROVE  IssuanceInv' /\ RowStep
    <2>1. PICK r \in Ref : r = job[p].ref /\ Minting(r)
      BY <1>12, <1>c DEF IssueSubmitted, Suspended, HoldsRow, Minting
    <2>2. /\ inflight' = inflight \cup {r}
          /\ UNCHANGED <<deposits, nullifiers>>
          /\ Return(p, "Held") \/ Return(p, "Error")
      BY <1>12, <2>1 DEF IssueSubmitted, treasuryVars, ledgerVars
    <2>3. /\ \A q \in Procs \ {p} : pc'[q] = pc[q] /\ job'[q] = job[q]
          /\ HoldsRow(p)' /\ ScreenStep
      BY <1>a, <2>2, OneMover, NothingHeld DEF Suspended
    <2>4. RowStep /\ \A q \in Procs \ {p} : Bystander(q)
      BY <2>1, <2>2, <2>3 DEF RowStep, RowAdvances, Bystander, State
    <2> QED
      BY <1>a, <2>3, <2>4, Assemble
  <1>13. ASSUME Restart
         PROVE  IssuanceInv' /\ RowStep
    <2>1. /\ \A p \in Procs : HoldsRow(p)'
          /\ ScreenStep
          /\ UNCHANGED <<deposits, nullifiers, inflight>>
      BY <1>13, NothingHeld DEF Restart, ScreenStep, treasuryVars, ledgerVars
    <2> QED
      BY <1>a, <2>1, QuietStep, Assemble
  <1>14. ASSUME NEW a \in Attestors,
                AttestPublish(a) \/ AttestAgain(a) \/ AttestLost(a) \/ \E v \in Reserves : AttestRead(a, v)
         PROVE  IssuanceInv' /\ RowStep
    BY <1>14, <1>e
       DEF AttestPublish, AttestAgain, AttestLost, AttestRead, LedgerAttest, rowVars, procVars, treasuryVars, ledgerVars
  <1>15. CASE ListHeld \/ Elapse \/ UNCHANGED issuanceVars
    BY <1>15, <1>e
       DEF ListHeld, Elapse, Tick, issuanceVars, rowVars, procVars, treasuryVars, ledgerVars
  <1> QED
    BY <1>1, <1>2, <1>4, <1>5, <1>6, <1>7, <1>8, <1>9, <1>10, <1>11, <1>12, <1>13, <1>14, <1>15
       DEF IssuanceNext, OnRampNext, Handler, Process

\* Rows and mints agree, and every suspended process may rely on its row, in every state.
THEOREM IssuanceInvariance == IssuanceSpec => []IssuanceInv
  BY InitInvariant, StepInvariant, PTL DEF IssuanceSpec

-----------------------------------------------------------------------------
\* What the invariant gives.

\* Through every interleaving of deliveries and sweeps, every overwrite, lost
\* reply, late landing and crash: an Issued row was minted for, and a minted
\* bank_ref has a row that reached Attested.
THEOREM RecordsMatchMintsAlways == IssuanceSpec => []RecordsMatchMints
  BY IssuanceInvariance, PTL DEF IssuanceInv

\* Every answer a partner was given stays true of the ledger.
THEOREM HonestOutcomeAlways == IssuanceSpec => []HonestOutcome
  <1>1. IssuanceInv => HonestOutcome
    <2> SUFFICES ASSUME IssuanceInv, NEW p \in Procs
                 PROVE  /\ pc[p] \in {"Issued", "AlreadyIssued"} => job[p].ref \in nullifiers
                        /\ pc[p] = "Encumbered" =>
                             /\ State(job[p].ref) = "encumbered"
                             /\ job[p].ref \notin nullifiers
                             /\ job[p].ref \notin inflight
      BY DEF HonestOutcome
    <2>1. HoldsRow(p)
      BY DEF IssuanceInv
    <2>2. pc[p] = "Encumbered" => job[p].ref \in Ref
      BY DEF IssuanceInv, IssuanceTypeOK, Told, Jobs
    <2>3. ASSUME NEW r \in Ref, State(r) = "encumbered"
          PROVE  r \notin nullifiers /\ r \notin inflight
      BY <2>3 DEF IssuanceInv, RecordsMatchMints, InflightIsAttested
    <2> QED
      BY <2>1, <2>2, <2>3 DEF HoldsRow
  <1> QED
    BY <1>1, IssuanceInvariance, PTL

\* No copy a process writes back takes a row back below where it must stay.
THEOREM RowsAdvanceAlways == IssuanceSpec => RowsAdvance
  <1>1. IssuanceInv /\ [IssuanceNext]_issuanceVars => [\A r \in Ref : RowAdvances(r)]_issuanceVars
    BY StepInvariant DEF RowStep
  <1> QED
    BY <1>1, IssuanceInvariance, PTL DEF IssuanceSpec, RowsAdvance

\* A step that moves supply or a balance, or consumes a nullifier, does all three,
\* for one recorded deposit and by the amount recorded.
LEMMA MintIsRecorded ==
  ASSUME IssuanceInv, [IssuanceNext]_issuanceVars, ~UNCHANGED <<supply, nullifiers, balances>>
  PROVE  \E r \in Ref \ nullifiers :
           /\ nullifiers' = nullifiers \cup {r}
           /\ State(r) \in {"attested", "issued"}
           /\ supply' = supply + deposits[r].amount
           /\ balances' = [balances EXCEPT ![deposits[r].wallet] = @ + deposits[r].amount]
  <1> USE DEF treasuryVars, clockVars, ledgerVars
  <1>1. ASSUME NEW p \in Procs, IssueConfirmed(p)
        PROVE  \E r \in Ref : Minting(r) /\ LedgerIssue(deposits[r].wallet, deposits[r].amount, r)
    <2>1. HoldsRow(p) /\ pc[p] = "issue" /\ job[p].ref \in Ref
      BY <1>1 DEF IssueConfirmed, IssuanceInv, IssuanceTypeOK, Suspended, Jobs
    <2>2. /\ Minting(job[p].ref)
          /\ deposits[job[p].ref].wallet = job[p].wallet
          /\ deposits[job[p].ref].amount = job[p].amount
      BY <2>1 DEF HoldsRow, Minting, Driving, Suspended
    <2>3. PICK r \in Ref : r = job[p].ref
      BY <2>1
    <2> QED
      BY <1>1, <2>2, <2>3 DEF IssueConfirmed
  <1>2. ASSUME NEW r \in Ref, Land(r)
        PROVE  Minting(r) /\ LedgerIssue(deposits[r].wallet, deposits[r].amount, r)
    BY <1>2 DEF Land, IssuanceInv, InflightIsAttested, Minting
  <1>3. ASSUME NEW h \in Handlers, Handler(h)
        PROVE  FALSE
    BY <1>3 DEF Handler, Deliver, ReplayPrior, ScreenPass, ScreenFail, ScreenError, DropHandler
  <1>4. ASSUME NEW p \in Procs, Process(p)
        PROVE  IssueConfirmed(p)
    BY <1>4 DEF Process, TakeSnapshot, CheckReserve, HoldDeposit, SaveAttested, IssueRefused,
                LedgerIssueRefused, IssueSubmitted, IssueFailed, SaveIssued
  <1>5. ASSUME NEW a \in Attestors,
               AttestPublish(a) \/ AttestAgain(a) \/ AttestLost(a) \/ \E v \in Reserves : AttestRead(a, v)
        PROVE  FALSE
    BY <1>5 DEF AttestPublish, AttestAgain, AttestLost, AttestRead, LedgerAttest
  <1>6. ASSUME NEW r \in Ref, RetryHeld(r)
        PROVE  FALSE
    BY <1>6 DEF RetryHeld
  <1>7. ~(ListHeld \/ Restart \/ Elapse \/ UNCHANGED issuanceVars)
    BY DEF ListHeld, Restart, Elapse, Tick, issuanceVars
  <1>8. \E r \in Ref : Minting(r) /\ LedgerIssue(deposits[r].wallet, deposits[r].amount, r)
    BY <1>1, <1>2, <1>3, <1>4, <1>5, <1>6, <1>7 DEF IssuanceNext, OnRampNext
  <1> QED
    BY <1>8 DEF LedgerIssue, Minting

\* A mint is preceded by the record, pays what it says, and happens once per
\* bank_ref: with RecordsMatchMints, the reason a duplicate cannot double-mint.
THEOREM MintFollowsRecordAlways == IssuanceSpec => MintFollowsRecord
  <1>1. IssuanceInv /\ [IssuanceNext]_issuanceVars =>
          [supply' # supply =>
             \E r \in Ref \ nullifiers :
               /\ nullifiers' = nullifiers \cup {r}
               /\ State(r) \in {"attested", "issued"}
               /\ supply' = supply + deposits[r].amount
               /\ balances' = [balances EXCEPT ![deposits[r].wallet] = @ + deposits[r].amount]
          ]_issuanceVars
    BY MintIsRecorded
  <1> QED
    BY <1>1, IssuanceInvariance, PTL DEF IssuanceSpec, MintFollowsRecord

-----------------------------------------------------------------------------
\* The books as sums.

\* Rows only advance, so what they say of a minted or an encumbered deposit stays.
LEMMA AmountsStay ==
  ASSUME IssuanceInv, RowStep
  PROVE  /\ \A r \in nullifiers : RecordedAmount'[r] = RecordedAmount[r]
         /\ \A r \in Encumbering : r \in Encumbering' /\ RecordedAmount'[r] = RecordedAmount[r]
  <1>1. ASSUME NEW r \in Ref, State(r) # "none"
        PROVE  RecordedAmount'[r] = RecordedAmount[r]
    <2>1. deposits[r] \in Rows
      BY <1>1 DEF IssuanceInv, IssuanceTypeOK, State, NoRow
    <2> QED
      BY <1>1, <2>1 DEF RowStep, RowAdvances, RecordedAmount, Rows
  <1>2. \A r \in nullifiers : r \in Ref /\ State(r) # "none"
    BY DEF IssuanceInv, IssuanceTypeOK, TreasuryTypeOK, RecordsMatchMints
  <1>3. ASSUME NEW r \in Ref, State(r) = "encumbered"
        PROVE  State(r)' = "encumbered"
    BY <1>3 DEF RowStep, RowAdvances, State
  <1> QED
    BY <1>1, <1>2, <1>3 DEF Encumbering

\* An Encumbered row is final, so what is encumbered never shrinks.
LEMMA EncumbranceGrows ==
  ASSUME IssuanceInv, IssuanceTypeOK', RowStep
  PROVE  TotalEncumbered <= TotalEncumbered'
  <1>1. IsFiniteSet(Encumbering') /\ Encumbering' \subseteq Ref
    BY FiniteAssumption, FS_Subset DEF Encumbering
  <1>2. \A r \in Ref : RecordedAmount'[r] \in Nat
    BY DEF IssuanceTypeOK, RecordedAmount, Rows, NoRow
  <1>3. /\ Encumbering \in SUBSET Encumbering'
        /\ \A r \in Encumbering : RecordedAmount[r] = RecordedAmount'[r]
    BY AmountsStay
  <1> QED
    BY <1>1, <1>2, <1>3, SumGrows DEF TotalEncumbered

\* What an attest call has read may be published later: it is the strengthening
\* under which the published figure stays within what is recorded.
ReadIsRecorded ==
  \A a \in Attestors : pending[a].busy => pending[a].enc <= TotalEncumbered

BooksInv == SupplyIsMintedOnce /\ PublishedEncumbranceIsRecorded /\ ReadIsRecorded

\* A step adds to supply the recorded amount of the bank_ref it consumes, and
\* nothing takes from it.
LEMMA StepMintsOnce ==
  ASSUME IssuanceInv, IssuanceTypeOK', RowStep, [IssuanceNext]_issuanceVars, SupplyIsMintedOnce
  PROVE  SupplyIsMintedOnce'
  <1>1. /\ IsFiniteSet(nullifiers) /\ nullifiers \subseteq Ref
        /\ \A r \in Ref : RecordedAmount[r] \in Nat
    BY FiniteAssumption, FS_Subset, EncumbranceTyping
       DEF IssuanceInv, IssuanceTypeOK, TreasuryTypeOK
  <1>2. /\ SumFunctionOnSet(RecordedAmount', nullifiers) = supply
        /\ supply \in Nat
    BY <1>1, AmountsStay, SumAgree
       DEF SupplyIsMintedOnce, IssuanceInv, IssuanceTypeOK, TreasuryTypeOK
  <1>3. \A r \in Ref : RecordedAmount'[r] \in Nat
    BY DEF IssuanceTypeOK, RecordedAmount, Rows, NoRow
  <1>4. CASE ~UNCHANGED <<supply, nullifiers>>
    <2>1. PICK r \in Ref \ nullifiers :
            /\ nullifiers' = nullifiers \cup {r}
            /\ State(r) \in {"attested", "issued"}
            /\ supply' = supply + deposits[r].amount
      BY <1>4, MintIsRecorded
    <2>2. RecordedAmount'[r] = deposits[r].amount
      <3>1. deposits[r] \in Rows
        BY <2>1 DEF IssuanceInv, IssuanceTypeOK, State, NoRow
      <3> QED
        BY <2>1, <3>1 DEF RowStep, RowAdvances, RecordedAmount, Rows, State
    <2>3. SumFunctionOnSet(RecordedAmount', nullifiers')
            = RecordedAmount'[r] + SumFunctionOnSet(RecordedAmount', nullifiers)
      BY <1>1, <1>3, <2>1, SumAdd
    <2> QED
      BY <1>2, <1>3, <2>1, <2>2, <2>3 DEF SupplyIsMintedOnce
  <1>5. CASE UNCHANGED <<supply, nullifiers>>
    BY <1>2, <1>5 DEF SupplyIsMintedOnce
  <1> QED
    BY <1>4, <1>5

\* What is published, and what an attest call will publish, stays within the rows.
LEMMA StepPublishesRecorded ==
  ASSUME IssuanceInv, IssuanceTypeOK', RowStep, [IssuanceNext]_issuanceVars,
         PublishedEncumbranceIsRecorded, ReadIsRecorded
  PROVE  PublishedEncumbranceIsRecorded' /\ ReadIsRecorded'
  <1> DEFINE old == TotalEncumbered
             new == TotalEncumbered'
  <1>1. /\ old \in Nat /\ new \in Nat /\ old <= new
        /\ encumbered \in Nat /\ encumbered <= old
        /\ \A a \in Attestors : /\ pending[a].enc \in Nat
                                /\ pending[a].busy => pending[a].enc <= old
    <2>1. IsFiniteSet(Encumbering') /\ Encumbering' \subseteq Ref
      BY FiniteAssumption, FS_Subset DEF Encumbering
    <2>2. \A r \in Ref : RecordedAmount'[r] \in Nat
      BY DEF IssuanceTypeOK, RecordedAmount, Rows, NoRow
    <2>3. new \in Nat
      BY <2>1, <2>2, SumNat DEF TotalEncumbered
    <2>4. old \in Nat /\ old <= new
      BY EncumbranceTyping, EncumbranceGrows DEF IssuanceInv
    <2> QED
      BY <2>3, <2>4
         DEF IssuanceInv, IssuanceTypeOK, TreasuryTypeOK, PublishedEncumbranceIsRecorded,
             ReadIsRecorded
  <1>2. SUFFICES
          /\ encumbered' <= old
          /\ \A a \in Attestors : pending'[a].busy => pending'[a].enc <= old
    <2>1. encumbered' \in Nat
      BY DEF IssuanceTypeOK, TreasuryTypeOK
    <2> HIDE DEF old, new
    <2>2. encumbered' <= new
      BY <1>1, <1>2, <2>1
    <2>3. \A a \in Attestors : pending'[a].busy => pending'[a].enc <= new
      BY <1>1, <1>2 DEF IssuanceTypeOK
    <2> QED
      BY <2>2, <2>3 DEF PublishedEncumbranceIsRecorded, ReadIsRecorded, new
  <1> HIDE DEF old
  <1> USE DEF treasuryVars, ledgerVars
  <1>3. ASSUME UNCHANGED <<encumbered, pending>>
        PROVE  /\ encumbered' <= old
               /\ \A a \in Attestors : pending'[a].busy => pending'[a].enc <= old
    BY <1>1, <1>3
  <1>4. ASSUME NEW a \in Attestors, NEW v \in Reserves, AttestRead(a, v)
        PROVE  /\ encumbered' <= old
               /\ \A b \in Attestors : pending'[b].busy => pending'[b].enc <= old
    BY <1>1, <1>4 DEF AttestRead, old, IssuanceInv, IssuanceTypeOK
  <1>5. ASSUME NEW a \in Attestors, AttestPublish(a) \/ AttestAgain(a) \/ AttestLost(a)
        PROVE  /\ encumbered' <= old
               /\ \A b \in Attestors : pending'[b].busy => pending'[b].enc <= old
    BY <1>1, <1>5
       DEF AttestPublish, AttestAgain, AttestLost, LedgerAttest, NoAttest, IssuanceInv,
           IssuanceTypeOK
  <1>6. ASSUME Restart
        PROVE  /\ encumbered' <= old
               /\ \A b \in Attestors : pending'[b].busy => pending'[b].enc <= old
    BY <1>1, <1>6 DEF Restart, NoAttest
  <1>7. ASSUME NEW h \in Handlers, Handler(h) PROVE UNCHANGED <<encumbered, pending>>
    BY <1>7 DEF Handler, Deliver, ReplayPrior, ScreenPass, ScreenFail, ScreenError, DropHandler
  <1>8. ASSUME NEW p \in Procs, Process(p) PROVE UNCHANGED <<encumbered, pending>>
    BY <1>8 DEF Process, TakeSnapshot, CheckReserve, HoldDeposit, SaveAttested, IssueConfirmed,
                IssueRefused, LedgerIssue, LedgerIssueRefused, IssueSubmitted, IssueFailed,
                SaveIssued
  <1>9. ASSUME NEW r \in Ref, RetryHeld(r) \/ Land(r) PROVE UNCHANGED <<encumbered, pending>>
    BY <1>9 DEF RetryHeld, Land, LedgerIssue
  <1>10. ListHeld \/ Elapse \/ UNCHANGED issuanceVars => UNCHANGED <<encumbered, pending>>
    BY DEF ListHeld, Elapse, Tick, issuanceVars
  <1> QED
    BY <1>3, <1>4, <1>5, <1>6, <1>7, <1>8, <1>9, <1>10 DEF IssuanceNext, OnRampNext

\* Every step keeps the books.
LEMMA BooksStep ==
  IssuanceInv /\ BooksInv /\ [IssuanceNext]_issuanceVars => BooksInv'
  BY StepInvariant, StepMintsOnce, StepPublishesRecorded DEF BooksInv, IssuanceInv

\* The books hold before anything is minted or attested.
LEMMA BooksInit == IssuanceInit => BooksInv
  <1> SUFFICES ASSUME IssuanceInit PROVE BooksInv
    OBVIOUS
  <1>1. supply = 0 /\ nullifiers = {} /\ encumbered = 0
    BY DEF IssuanceInit, TreasuryInit
  <1>2. TotalEncumbered \in Nat
    BY InitTyping, EncumbranceTyping
  <1>3. \A a \in Attestors : ~pending[a].busy
    BY DEF IssuanceInit, NoAttest
  <1> QED
    BY <1>1, <1>2, <1>3, SumEmpty
       DEF BooksInv, SupplyIsMintedOnce, PublishedEncumbranceIsRecorded, ReadIsRecorded

\* Supply, the published encumbrance and the pending ones agree with the rows, always.
THEOREM BooksInvariance == IssuanceSpec => []BooksInv
  BY BooksInit, BooksStep, IssuanceInvariance, PTL DEF IssuanceSpec

\* F3 as a sum, for every number of deliveries, sweeps, lost replies, late
\* landings and crashes: supply is the recorded amounts of the bank_refs minted
\* for, each counted once.
THEOREM SupplyIsMintedOnceAlways == IssuanceSpec => []SupplyIsMintedOnce
  BY BooksInvariance, PTL DEF BooksInv

\* However stale the attest call that wrote it, and however often its message is
\* delivered, the encumbrance the ledger enforces is one the rows still hold.
THEOREM PublishedEncumbranceIsRecordedAlways == IssuanceSpec => []PublishedEncumbranceIsRecorded
  BY BooksInvariance, PTL DEF BooksInv

-----------------------------------------------------------------------------
\* The on-ramp implements MintPromise.

\* A step writes one row at most, and mints only while it writes none.
LEMMA OneRowMoves ==
  ASSUME IssuanceInv, [IssuanceNext]_issuanceVars, deposits' # deposits
  PROVE  /\ UNCHANGED <<supply, nullifiers, balances>>
         /\ \E r \in Ref :
              /\ State(r) = "none" =>
                   \E w \in Account, a \in Amounts :
                     deposits'[r] = [state |-> "observed", wallet |-> w, amount |-> a]
              /\ \A s \in Ref \ {r} : deposits'[s] = deposits[s]
  <1> DEFINE Moves ==
        /\ UNCHANGED <<supply, nullifiers, balances>>
        /\ \E r \in Ref :
             /\ State(r) = "none" =>
                  \E w \in Account, a \in Amounts :
                    deposits'[r] = [state |-> "observed", wallet |-> w, amount |-> a]
             /\ \A s \in Ref \ {r} : deposits'[s] = deposits[s]
  <1> USE DEF treasuryVars, clockVars, ledgerVars
  <1>a. deposits \in [Ref -> Rows \cup {NoRow}]
    BY DEF IssuanceInv, IssuanceTypeOK
  <1>1. ASSUME NEW h \in Handlers, NEW r \in Ref, NEW w \in Account, NEW a \in Amounts,
               Deliver(h, r, w, a)
        PROVE  Moves
    <2>1. /\ UNCHANGED <<supply, nullifiers, balances>>
          /\ deposits' = [deposits EXCEPT ![r] =
                            [state |-> "observed", wallet |-> w, amount |-> a]]
      BY <1>1 DEF Deliver
    <2>2. /\ deposits'[r] = [state |-> "observed", wallet |-> w, amount |-> a]
          /\ \A s \in Ref \ {r} : deposits'[s] = deposits[s]
      BY <1>a, <2>1
    <2> QED
      BY <2>1, <2>2
  <1>2. ASSUME NEW p \in Procs, pc[p] \in {"screen", "saveAttested", "saveIssued"},
               NEW state, Save(p, state), UNCHANGED <<supply, nullifiers, balances>>
        PROVE  Moves
    <2>1. HoldsRow(p) /\ job[p].ref \in Ref
      BY <1>2 DEF IssuanceInv, IssuanceTypeOK, Suspended, Jobs
    <2>2. State(job[p].ref) # "none"
      BY <1>2, <2>1 DEF HoldsRow, IssuanceInv, RecordsMatchMints
    <2>3. \A s \in Ref \ {job[p].ref} : deposits'[s] = deposits[s]
      BY <1>2, <1>a DEF Save
    <2> QED
      BY <1>2, <2>1, <2>2, <2>3
  <1>3. ASSUME NEW h \in Handlers, Handler(h)
        PROVE  Moves
    <2>1. CASE ScreenPass(h) \/ ScreenFail(h)
      BY <1>2, <2>1 DEF ScreenPass, ScreenFail, Procs
    <2>2. ~(ReplayPrior(h) \/ ScreenError(h) \/ DropHandler(h))
      BY DEF ReplayPrior, ScreenError, DropHandler, rowVars
    <2> QED
      BY <1>1, <1>3, <2>1, <2>2 DEF Handler
  <1>4. ASSUME NEW p \in Procs, Process(p)
        PROVE  Moves
    <2>1. CASE SaveAttested(p) \/ SaveIssued(p)
      BY <1>2, <2>1 DEF SaveAttested, SaveIssued
    <2>2. ~(TakeSnapshot(p) \/ CheckReserve(p) \/ HoldDeposit(p) \/ IssueConfirmed(p)
              \/ IssueRefused(p) \/ IssueSubmitted(p) \/ IssueFailed(p))
      BY DEF TakeSnapshot, CheckReserve, HoldDeposit, IssueConfirmed, IssueRefused,
             IssueSubmitted, IssueFailed, rowVars
    <2> QED
      BY <1>4, <2>1, <2>2 DEF Process
  <1>5. ~\/ ListHeld \/ Restart \/ Elapse \/ UNCHANGED issuanceVars
         \/ \E r \in Ref : RetryHeld(r) \/ Land(r)
         \/ \E a \in Attestors :
              AttestPublish(a) \/ AttestAgain(a) \/ AttestLost(a) \/ \E v \in Reserves : AttestRead(a, v)
    BY DEF ListHeld, Restart, Elapse, RetryHeld, Land, AttestPublish, AttestAgain, AttestLost,
           AttestRead, rowVars, issuanceVars
  <1> QED
    BY <1>3, <1>4, <1>5 DEF IssuanceNext, OnRampNext

\* A step that writes a row is, from outside, a hearing, a decision or nothing.
LEMMA RowKeepsPromise ==
  ASSUME IssuanceInv, [IssuanceNext]_issuanceVars, deposits' # deposits
  PROVE  [Promise!MintNext]_<<Book, supply, balances>>
  <1>1. /\ UNCHANGED <<supply, nullifiers, balances>>
        /\ \E r \in Ref :
             /\ State(r) = "none" =>
                  \E w \in Account, a \in Amounts :
                    deposits'[r] = [state |-> "observed", wallet |-> w, amount |-> a]
             /\ \A s \in Ref \ {r} : deposits'[s] = deposits[s]
    BY OneRowMoves
  <1>2. PICK r \in Ref :
          /\ State(r) = "none" =>
               \E w \in Account, a \in Amounts :
                 deposits'[r] = [state |-> "observed", wallet |-> w, amount |-> a]
          /\ \A s \in Ref \ {r} : deposits'[s] = deposits[s]
    BY <1>1
  <1>3. RowAdvances(r)
    BY StepInvariant DEF RowStep
  <1>4. /\ deposits[r] \in Rows \cup {NoRow}
        /\ r \in nullifiers => State(r) \in {"attested", "issued"}
    BY DEF IssuanceInv, IssuanceTypeOK, RecordsMatchMints
  <1>5. \A s \in Ref \ {r} : Book'[s] = Book[s]
    BY <1>1, <1>2 DEF Book, Stage, State
  <1>6. ASSUME NEW b, Book'[r] = b
        PROVE  Book' = [Book EXCEPT ![r] = b]
    BY <1>5, <1>6 DEF Book
  <1>7. CASE State(r) = "none"
    <2>1. PICK w \in Account, a \in Amounts :
            deposits'[r] = [state |-> "observed", wallet |-> w, amount |-> a]
      BY <1>2, <1>7
    <2>2. Book'[r] = [stage |-> "promised", wallet |-> w, amount |-> a]
      BY <2>1 DEF Book, Stage, State
    <2>3. Book[r] = Promise!Unheard
      BY <1>4, <1>7 DEF Book, Stage, State, Rows, NoRow, Promise!Unheard
    <2>4. Promise!Hear(r, w, a)
      BY <1>1, <1>6, <2>2, <2>3 DEF Promise!Hear
    <2> QED
      BY <2>4 DEF Promise!MintNext
  <1>8. CASE State(r) # "none"
    <2>1. /\ deposits'[r].wallet = deposits[r].wallet
          /\ deposits'[r].amount = deposits[r].amount
          /\ \/ State(r)' = State(r)
             \/ State(r) = "observed" /\ State(r)' \in {"screened", "encumbered"}
             \/ State(r) = "screened" /\ State(r)' = "attested"
             \/ State(r) \in {"attested", "issued"} /\ State(r)' \in {"attested", "issued"}
      BY <1>3, <1>4, <1>8 DEF RowAdvances, State, Rows, NoRow
    <2>2. Book'[r] = [Book[r] EXCEPT !.stage = Stage(r)']
      BY <2>1 DEF Book
    <2>3. \/ Stage(r)' = Stage(r)
          \/ Stage(r) = "promised" /\ Stage(r)' \in {"refused", "cleared"}
      BY <1>1, <1>4, <2>1 DEF Stage
    <2>4. Stage(r)' = Stage(r) => Book' = Book
      BY <1>5, <2>2 DEF Book
    <2>5. Book[r].stage = Stage(r)
      BY DEF Book
    <2>6. Stage(r) = "promised" /\ Stage(r)' \in {"refused", "cleared"} => Promise!Decide(r)
      BY <1>1, <1>6, <2>2, <2>5 DEF Promise!Decide, Promise!Move
    <2> QED
      BY <1>1, <2>3, <2>4, <2>6 DEF Promise!MintNext
  <1> QED
    BY <1>7, <1>8

\* A step that writes none is a mint of a cleared transfer, or nothing.
LEMMA MintKeepsPromise ==
  ASSUME IssuanceInv, [IssuanceNext]_issuanceVars, UNCHANGED deposits
  PROVE  [Promise!MintNext]_<<Book, supply, balances>>
  <1>1. CASE UNCHANGED <<supply, nullifiers, balances>>
    BY <1>1 DEF Book, Stage, State
  <1>2. CASE ~UNCHANGED <<supply, nullifiers, balances>>
    <2>1. PICK r \in Ref \ nullifiers :
            /\ nullifiers' = nullifiers \cup {r}
            /\ State(r) \in {"attested", "issued"}
            /\ supply' = supply + deposits[r].amount
            /\ balances' = [balances EXCEPT ![deposits[r].wallet] = @ + deposits[r].amount]
      BY <1>2, MintIsRecorded
    <2>2. /\ Book[r] = [stage |-> "cleared", wallet |-> deposits[r].wallet,
                        amount |-> deposits[r].amount]
          /\ Book'[r] = [stage |-> "minted", wallet |-> deposits[r].wallet,
                         amount |-> deposits[r].amount]
      BY <2>1 DEF Book, Stage, State
    <2>3. \A s \in Ref \ {r} : Book'[s] = Book[s]
      BY <2>1 DEF Book, Stage, State
    <2>4. Book' = [Book EXCEPT ![r] = [Book[r] EXCEPT !.stage = "minted"]]
      <3>1. Book'[r] = [Book[r] EXCEPT !.stage = "minted"]
        BY <2>2
      <3> QED
        BY <2>3, <3>1 DEF Book
    <2>5. Promise!Mint(r)
      BY <2>1, <2>2, <2>4 DEF Promise!Mint, Promise!Move
    <2> QED
      BY <2>5 DEF Promise!MintNext
  <1> QED
    BY <1>1, <1>2

\* F2 and F3 as a refinement: however deliveries, sweeps, lost replies and restarts
\* interleave, from outside each transfer is heard once, decided once and minted at
\* most once, as first heard.
THEOREM IssuanceKeepsPromise == IssuanceSpec => KeepsMintPromise
  <1>1. IssuanceInit => Promise!MintInit
    BY DEF IssuanceInit, TreasuryInit, Promise!MintInit, Promise!Unheard, Book, Stage, State, NoRow
  <1>2. IssuanceInv /\ [IssuanceNext]_issuanceVars => [Promise!MintNext]_Promise!mintVars
    BY RowKeepsPromise, MintKeepsPromise DEF Promise!mintVars
  <1> QED
    BY <1>1, <1>2, IssuanceInvariance, PTL DEF IssuanceSpec, KeepsMintPromise, Promise!MintSpec
=============================================================================
