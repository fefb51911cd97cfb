--------------------------- MODULE TreasuryProofs ---------------------------
(***************************************************************************)
(* Theorems about the ledger alone, for every set of accounts, bank        *)
(* references and amounts.  Typing is inductive by itself, because a burn  *)
(* and an escrow are refused rather than taken below zero; what a step     *)
(* does to supply and to a burned escrow then follows action by action.    *)
(***************************************************************************)
EXTENDS Treasury, Sums

\* The ledger as its callers may drive it, for amounts and figures of any size:
\* TreasurySpec, whose callers choose from small sets, is one way, and the service
\* with its two legs is another (SettlementProofs).
AnyCall ==
  \/ Tick
  \/ \E w \in Account, a \in Nat, r \in Ref : LedgerIssue(w, a, r)
  \/ \E k \in Key, a \in Nat : LedgerEscrow(k, a)
  \/ \E k \in Key : LedgerBurn(k) \/ LedgerReclaim(k)
  \/ \E r \in Nat, e \in Nat : LedgerAttest(r, e)
  \/ \E u \in Account, a \in Nat : LedgerFundInventory(u, a)

LedgerSpec == TreasuryInit /\ [][AnyCall]_treasuryVars

\* The amounts a run of TLC uses are amounts.
LEMMA TreasuryIsLedger == TreasurySpec => LedgerSpec
  <1>1. TreasuryNext => AnyCall
    <2>1. Amounts \subseteq Nat /\ Reserves \subseteq Nat /\ Amounts \cup {0} \subseteq Nat
      BY TreasuryAssumption
    <2> QED
      BY <2>1 DEF TreasuryNext, AnyCall
  <1> QED
    BY <1>1, PTL DEF TreasurySpec, LedgerSpec

\* The initial ledger is well typed.
LEMMA TreasuryInitTyping == TreasuryInit => TreasuryTypeOK
  BY TreasuryAssumption DEF TreasuryInit, TreasuryTypeOK, NoEscrow, EscrowRecords

\* Every call leaves the ledger well typed.
LEMMA TreasuryStepTyping == TreasuryTypeOK /\ [AnyCall]_treasuryVars => TreasuryTypeOK'
  <1> SUFFICES ASSUME TreasuryTypeOK, [AnyCall]_treasuryVars
               PROVE  TreasuryTypeOK'
    OBVIOUS
  <1> USE TreasuryAssumption DEF TreasuryTypeOK, clockVars, ledgerVars, EscrowRecords
  <1>1. CASE Tick
    BY <1>1 DEF Tick
  <1>2. ASSUME NEW w \in Account, NEW a \in Nat, NEW r \in Ref, LedgerIssue(w, a, r)
        PROVE  TreasuryTypeOK'
    BY <1>2 DEF LedgerIssue
  <1>3. ASSUME NEW k \in Key, NEW a \in Nat, LedgerEscrow(k, a)
        PROVE  TreasuryTypeOK'
    <2>1. k[1] \in Account /\ a \in Nat
      BY DEF Key
    <2>2. balances[k[1]] - a \in Nat
      BY <1>3, <2>1 DEF LedgerEscrow
    <2>3. [status |-> "held", amount |-> a, at |-> ledgerNow] \in EscrowRecords
      BY <2>1
    <2> QED
      BY <1>3, <2>1, <2>2, <2>3 DEF LedgerEscrow
  <1>4. ASSUME NEW k \in Key, LedgerBurn(k)
        PROVE  TreasuryTypeOK'
    BY <1>4 DEF LedgerBurn
  <1>5. ASSUME NEW k \in Key, LedgerReclaim(k)
        PROVE  TreasuryTypeOK'
    <2>1. k[1] \in Account /\ escrows[k].amount \in Nat
      BY DEF Key
    <2>2. NoEscrow \in EscrowRecords
      BY DEF NoEscrow
    <2> QED
      BY <1>5, <2>1, <2>2 DEF LedgerReclaim
  <1>6. ASSUME NEW v \in Nat, NEW e \in Nat, LedgerAttest(v, e)
        PROVE  TreasuryTypeOK'
    BY <1>6 DEF LedgerAttest
  <1>7. ASSUME NEW u \in Account, NEW a \in Nat, LedgerFundInventory(u, a)
        PROVE  TreasuryTypeOK'
    BY <1>7 DEF LedgerFundInventory
  <1>8. CASE UNCHANGED treasuryVars
    BY <1>8 DEF treasuryVars
  <1> QED
    BY <1>1, <1>2, <1>3, <1>4, <1>5, <1>6, <1>7, <1>8 DEF AnyCall

\* However it is driven, the ledger stays well typed.
LEMMA LedgerTypingAlways == LedgerSpec => []TreasuryTypeOK
  BY TreasuryInitTyping, TreasuryStepTyping, PTL DEF LedgerSpec

\* No operation takes supply, a balance or an escrow below zero.
THEOREM TreasuryTyping == TreasurySpec => []TreasuryTypeOK
  BY LedgerTypingAlways, TreasuryIsLedger

-----------------------------------------------------------------------------
\* Only the on-ramp adds to supply, and it passes the reserve check.
LEMMA OnlyIssueMints ==
  ASSUME TreasuryTypeOK, [AnyCall]_treasuryVars, supply' > supply
  PROVE  \E w \in Account, a \in Nat, r \in Ref : LedgerIssue(w, a, r)
  <1>1. supply \in Nat /\ ~(supply > supply)
    BY DEF TreasuryTypeOK
  <1>2. \A k \in Key : LedgerBurn(k) => ~(supply' > supply)
    BY DEF LedgerBurn, TreasuryTypeOK, EscrowRecords
  <1>3. ~UNCHANGED supply
    BY <1>1
  <1> QED
    BY <1>2, <1>3
       DEF AnyCall, Tick, LedgerEscrow, LedgerReclaim, LedgerAttest, LedgerFundInventory,
           treasuryVars, ledgerVars

\* However the ledger is driven, a mint is within the ceiling.
LEMMA LedgerCapped == LedgerSpec => MintWithinCeiling
  <1> DEFINE Capped ==
        supply' > supply =>
          /\ supply' <= FreeBacking(attested'.reserve, encumbered')
          /\ Fresh(attested'.ts, ledgerNow')
          /\ \E r \in Ref \ nullifiers : nullifiers' = nullifiers \cup {r}
  <1>1. ASSUME TreasuryTypeOK, [AnyCall]_treasuryVars, supply' > supply
        PROVE  Capped
    <2>1. PICK w \in Account, a \in Nat, r \in Ref : LedgerIssue(w, a, r)
      BY <1>1, OnlyIssueMints
    <2> QED
      BY <2>1 DEF LedgerIssue, MayIssue, clockVars
  <1>2. TreasuryTypeOK /\ [AnyCall]_treasuryVars => [Capped]_treasuryVars
    BY <1>1
  <1> QED
    BY <1>2, LedgerTypingAlways, PTL DEF LedgerSpec, MintWithinCeiling

\* F1 and F5 at the mint: supply grows only within the attested free backing, on
\* a fresh attestation, and by consuming a new nullifier.
THEOREM MintWithinCeilingAlways == TreasurySpec => MintWithinCeiling
  BY LedgerCapped, TreasuryIsLedger

\* However it is driven, a burned record stays.
LEMMA LedgerKeepsBurned == LedgerSpec => BurnIsFinal
  <1>1. ASSUME TreasuryTypeOK, [AnyCall]_treasuryVars, NEW k \in Key,
               escrows[k].status = "burned"
        PROVE  escrows'[k] = escrows[k]
    <2>1. \A q \in Key : LedgerBurn(q) \/ LedgerReclaim(q) => q # k
      BY <1>1 DEF LedgerBurn, LedgerReclaim
    <2>2. \A q \in Key, a \in Nat : LedgerEscrow(q, a) => q # k
      BY <1>1 DEF LedgerEscrow
    <2> QED
      BY <1>1, <2>1, <2>2
         DEF AnyCall, Tick, LedgerIssue, LedgerEscrow, LedgerBurn, LedgerReclaim,
             LedgerAttest, LedgerFundInventory, treasuryVars, ledgerVars, TreasuryTypeOK
  <1>2. TreasuryTypeOK /\ [AnyCall]_treasuryVars =>
          [\A k \in Key : escrows[k].status = "burned" => escrows'[k] = escrows[k]]_treasuryVars
    BY <1>1
  <1> QED
    BY <1>2, LedgerTypingAlways, PTL DEF LedgerSpec, BurnIsFinal

\* F7's other side: nothing touches the record of a burned escrow.
THEOREM BurnIsFinalAlways == TreasurySpec => BurnIsFinal
  BY LedgerKeepsBurned, TreasuryIsLedger

\* However it is driven, supply moves with a record of its own.
LEMMA LedgerMovesWithRecord == LedgerSpec => SupplyMovesWithRecord
  <1> DEFINE Recorded ==
        supply' # supply =>
          \/ nullifiers' # nullifiers /\ escrows' = escrows
          \/ /\ nullifiers' = nullifiers
             /\ \E k \in Key : /\ escrows[k].status = "held"
                               /\ escrows' = [escrows EXCEPT ![k].status = "burned"]
                               /\ supply = supply' + escrows[k].amount
  <1>1. ASSUME TreasuryTypeOK, [AnyCall]_treasuryVars, supply' # supply
        PROVE  Recorded
    <2>1. CASE \E w \in Account, a \in Nat, r \in Ref : LedgerIssue(w, a, r)
      BY <2>1 DEF LedgerIssue
    <2>2. ASSUME NEW k \in Key, LedgerBurn(k)
          PROVE  Recorded
      <3>1. escrows[k].amount \in Nat /\ supply \in Nat
        BY <1>1 DEF TreasuryTypeOK, EscrowRecords
      <3>2. supply = supply' + escrows[k].amount
        BY <2>2, <3>1 DEF LedgerBurn
      <3> QED
        BY <2>2, <3>2 DEF LedgerBurn
    <2> QED
      BY <1>1, <2>1, <2>2
         DEF AnyCall, Tick, LedgerEscrow, LedgerReclaim, LedgerAttest,
             LedgerFundInventory, treasuryVars, ledgerVars
  <1>2. TreasuryTypeOK /\ [AnyCall]_treasuryVars => [Recorded]_treasuryVars
    BY <1>1
  <1> QED
    BY <1>2, LedgerTypingAlways, PTL DEF LedgerSpec, SupplyMovesWithRecord

\* F6 and F7: supply moves only with a nullifier or with exactly one burned escrow.
THEOREM SupplyMovesWithRecordAlways == TreasurySpec => SupplyMovesWithRecord
  BY LedgerMovesWithRecord, TreasuryIsLedger

-----------------------------------------------------------------------------
\* Conservation: what each kind of step does to the two sums.

LEMMA KeyFinite == IsFiniteSet(Key)
  BY FiniteAssumption, FS_Product DEF Key

\* The sums are over what the types say: naturals, indexed by accounts and keys.
LEMMA HoldingsTyping ==
  ASSUME TreasuryTypeOK
  PROVE  /\ DOMAIN balances = Account /\ \A u \in Account : balances[u] \in Nat
         /\ DOMAIN Held = Key /\ \A k \in Key : Held[k] \in Nat
         /\ SumFunction(balances) \in Nat
         /\ SumFunction(Held) \in Nat
  <1>1. DOMAIN balances = Account /\ \A u \in Account : balances[u] \in Nat
    BY DEF TreasuryTypeOK
  <1>2. DOMAIN Held = Key /\ \A k \in Key : Held[k] \in Nat
    BY DEF TreasuryTypeOK, EscrowRecords, Held
  <1> QED
    BY <1>1, <1>2, FiniteAssumption, KeyFinite, SumNat DEF SumFunction

\* A step that changes one balance moves the sum of the balances by as much.
LEMMA BalanceMoves ==
  ASSUME TreasuryTypeOK, TreasuryTypeOK', NEW u \in Account,
         \A w \in Account \ {u} : balances'[w] = balances[w]
  PROVE  SumFunction(balances)' + balances[u] = SumFunction(balances) + balances'[u]
  <1>1. /\ DOMAIN balances = Account /\ \A w \in Account : balances[w] \in Nat
        /\ DOMAIN balances' = Account /\ balances'[u] \in Nat
    BY DEF TreasuryTypeOK
  <1>2. SumFunctionOnSet(balances', Account) + balances[u]
          = SumFunctionOnSet(balances, Account) + balances'[u]
    BY <1>1, FiniteAssumption, SumUpdate
  <1> QED
    BY <1>1, <1>2 DEF SumFunction

\* A step that changes one record moves the sum of what escrow holds by as much.
LEMMA EscrowMoves ==
  ASSUME TreasuryTypeOK, TreasuryTypeOK', NEW k \in Key,
         \A q \in Key \ {k} : escrows'[q] = escrows[q]
  PROVE  SumFunction(Held)' + Held[k] = SumFunction(Held) + Held'[k]
  <1>1. /\ DOMAIN Held = Key /\ \A q \in Key : Held[q] \in Nat
        /\ DOMAIN Held' = Key /\ Held'[k] \in Nat
        /\ \A q \in Key \ {k} : Held'[q] = Held[q]
    BY DEF TreasuryTypeOK, EscrowRecords, Held
  <1>2. SumFunctionOnSet(Held', Key) + Held[k] = SumFunctionOnSet(Held, Key) + Held'[k]
    BY <1>1, KeyFinite, SumUpdate
  <1> QED
    BY <1>1, <1>2 DEF SumFunction

\* Every call conserves: what it adds to supply, balances, escrow and inventory agrees.
LEMMA StepConserves ==
  TreasuryTypeOK /\ Conservation /\ [AnyCall]_treasuryVars => Conservation'
  <1> SUFFICES ASSUME TreasuryTypeOK, Conservation, [AnyCall]_treasuryVars
               PROVE  Conservation'
    OBVIOUS
  <1>a. TreasuryTypeOK /\ TreasuryTypeOK'
    BY TreasuryStepTyping
  <1>b. /\ supply \in Nat /\ inventory \in Nat
        /\ SumFunction(balances) \in Nat /\ SumFunction(Held) \in Nat
        /\ supply = SumFunction(balances) + SumFunction(Held) + inventory
    BY <1>a, HoldingsTyping DEF TreasuryTypeOK, Conservation
  <1>p. SumFunction(balances)' \in Nat /\ SumFunction(Held)' \in Nat
    <2>1. /\ DOMAIN balances' = Account /\ \A u \in Account : balances'[u] \in Nat
          /\ DOMAIN Held' = Key /\ \A k \in Key : Held'[k] \in Nat
      BY <1>a DEF TreasuryTypeOK, EscrowRecords, Held
    <2> QED
      BY <2>1, FiniteAssumption, KeyFinite, SumNat DEF SumFunction
  <1>c. UNCHANGED balances => SumFunction(balances)' = SumFunction(balances)
    OBVIOUS
  <1>d. UNCHANGED escrows => SumFunction(Held)' = SumFunction(Held)
    BY DEF Held
  <1>1. ASSUME NEW w \in Account, NEW a \in Nat, NEW r \in Ref, LedgerIssue(w, a, r)
        PROVE  Conservation'
    <2>1. a \in Nat /\ balances[w] \in Nat
      BY <1>a, TreasuryAssumption DEF TreasuryTypeOK
    <2>2. SumFunction(balances)' + balances[w] = SumFunction(balances) + (balances[w] + a)
      BY <1>1, <1>a, BalanceMoves DEF LedgerIssue, TreasuryTypeOK
    <2> QED
      BY <1>1, <1>b, <1>p, <1>d, <2>1, <2>2 DEF LedgerIssue, Conservation
  <1>2. ASSUME NEW k \in Key, NEW a \in Nat, LedgerEscrow(k, a)
        PROVE  Conservation'
    <2>1. /\ k[1] \in Account /\ a \in Nat /\ balances[k[1]] \in Nat
          /\ a <= balances[k[1]]
      BY <1>2, <1>a, TreasuryAssumption DEF TreasuryTypeOK, Key, LedgerEscrow
    <2>2. SumFunction(balances)' + balances[k[1]] = SumFunction(balances) + (balances[k[1]] - a)
      BY <1>2, <1>a, <2>1, BalanceMoves DEF LedgerEscrow, TreasuryTypeOK
    <2>3. Held[k] = 0 /\ Held'[k] = a
      BY <1>2, <1>a DEF LedgerEscrow, Held, TreasuryTypeOK
    <2>4. SumFunction(Held)' + 0 = SumFunction(Held) + a
      BY <1>2, <1>a, <2>3, EscrowMoves DEF LedgerEscrow, TreasuryTypeOK
    <2> QED
      BY <1>2, <1>b, <1>p, <2>1, <2>2, <2>4 DEF LedgerEscrow, Conservation
  <1>3. ASSUME NEW k \in Key, LedgerBurn(k)
        PROVE  Conservation'
    <2>1. /\ escrows[k].amount \in Nat /\ Held[k] = escrows[k].amount /\ Held'[k] = 0
          /\ escrows[k].amount <= supply
      BY <1>3, <1>a DEF LedgerBurn, Held, TreasuryTypeOK, EscrowRecords
    <2>2. SumFunction(Held)' + escrows[k].amount = SumFunction(Held) + 0
      BY <1>3, <1>a, <2>1, EscrowMoves DEF LedgerBurn, TreasuryTypeOK
    <2> QED
      BY <1>3, <1>b, <1>p, <1>c, <2>1, <2>2 DEF LedgerBurn, Conservation
  <1>4. ASSUME NEW k \in Key, LedgerReclaim(k)
        PROVE  Conservation'
    <2>1. /\ k[1] \in Account /\ balances[k[1]] \in Nat
          /\ escrows[k].amount \in Nat /\ Held[k] = escrows[k].amount /\ Held'[k] = 0
      BY <1>4, <1>a DEF LedgerReclaim, Held, TreasuryTypeOK, EscrowRecords, Key, NoEscrow
    <2>2. SumFunction(balances)' + balances[k[1]]
            = SumFunction(balances) + (balances[k[1]] + escrows[k].amount)
      BY <1>4, <1>a, <2>1, BalanceMoves DEF LedgerReclaim, TreasuryTypeOK
    <2>3. SumFunction(Held)' + escrows[k].amount = SumFunction(Held) + 0
      BY <1>4, <1>a, <2>1, EscrowMoves DEF LedgerReclaim, TreasuryTypeOK
    <2> QED
      BY <1>4, <1>b, <1>p, <2>1, <2>2, <2>3 DEF LedgerReclaim, Conservation
  <1>5. ASSUME NEW u \in Account, NEW a \in Nat, LedgerFundInventory(u, a)
        PROVE  Conservation'
    <2>1. a \in Nat /\ balances[u] \in Nat /\ a <= balances[u]
      BY <1>5, <1>a, TreasuryAssumption DEF TreasuryTypeOK, LedgerFundInventory
    <2>2. SumFunction(balances)' + balances[u] = SumFunction(balances) + (balances[u] - a)
      BY <1>5, <1>a, BalanceMoves DEF LedgerFundInventory, TreasuryTypeOK
    <2>3. SumFunction(balances)' + a = SumFunction(balances)
      BY <1>b, <1>p, <2>1, <2>2
    <2>4. /\ supply' = supply /\ inventory' = inventory + a
          /\ SumFunction(Held)' = SumFunction(Held)
      BY <1>5 DEF LedgerFundInventory, Held
    <2> QED
      BY <1>b, <1>p, <2>1, <2>3, <2>4 DEF Conservation
  <1>6. ASSUME UNCHANGED <<supply, balances, escrows, inventory>>
        PROVE  Conservation'
    BY <1>6, <1>b, <1>p, <1>c, <1>d DEF Conservation
  <1> QED
    BY <1>1, <1>2, <1>3, <1>4, <1>5, <1>6
       DEF AnyCall, Tick, LedgerAttest, treasuryVars, ledgerVars

\* However it is driven, the ledger conserves.
LEMMA LedgerConserves == LedgerSpec => []Conservation
  <1>1. TreasuryInit => Conservation
    <2> SUFFICES ASSUME TreasuryInit PROVE Conservation
      OBVIOUS
    <2>1. /\ DOMAIN balances = Account /\ \A u \in Account : balances[u] = 0
          /\ DOMAIN Held = Key /\ \A k \in Key : Held[k] = 0
      BY DEF TreasuryInit, Held, NoEscrow
    <2>2. SumFunction(balances) = 0 /\ SumFunction(Held) = 0
      BY <2>1, FiniteAssumption, KeyFinite, SumZero DEF SumFunction
    <2> QED
      BY <2>2 DEF TreasuryInit, Conservation
  <1> QED
    BY <1>1, StepConserves, LedgerTypingAlways, PTL DEF LedgerSpec

\* F2 and F6 for every set of holders: whatever sequence of calls is made, the
\* supply is exactly what the accounts, the escrows not yet burned and the
\* inventory hold.
THEOREM ConservationAlways == TreasurySpec => []Conservation
  BY LedgerConserves, TreasuryIsLedger
=============================================================================
