------------------------------ MODULE Treasury ------------------------------
(***************************************************************************)
(* The treasury ledger as SimulatedLedger models it: THBC supply, the      *)
(* attested reserve, the deposit nullifiers and the redemption escrow.     *)
(* Every port call runs under one mutex, so every call is one action.      *)
(* Each action carries the reply the caller sees in its name: the plain    *)
(* name is a Confirmed reply, the one ending in Refused is an Err reply    *)
(* that leaves the ledger as it was.                                       *)
(*                                                                         *)
(* The services compose with these actions: a service step that calls the  *)
(* ledger conjoins one of them.  `now' is the services' SystemClock; the   *)
(* ledger stamps and checks with its own `ledgerNow' (State.now).          *)
(*                                                                         *)
(* Amounts are naturals.  The code's u64 sums are checked, and a sum that  *)
(* overflows exceeds every attested reserve, so it is refused here too.    *)
(***************************************************************************)
EXTENDS Naturals, FiniteSetsExt

CONSTANTS
  Account,          \* owners of THBC: wallets and redeeming users
  Ref,              \* digests of bank references: the nullifier space
  Seq,              \* per-user redemption sequence numbers
  Amounts,          \* amounts callers use
  Reserves,         \* reserves the attestor may attest
  Ttl,              \* attestation time-to-live
  LedgerDelta,      \* SIMULATED_DELTA_SECS: the ledger's reclaim timelock
  LedgerClockRuns,  \* TRUE: set_now follows the services' clock, as the tests do
  MaxTime           \* bound: the clocks stop here

ASSUME TreasuryAssumption ==
  /\ Seq \subseteq Nat \ {0}
  /\ Amounts \subseteq Nat \ {0}
  /\ Reserves \subseteq Nat
  /\ Ttl \in Nat
  /\ LedgerDelta \in Nat
  /\ LedgerClockRuns \in BOOLEAN
  /\ MaxTime \in Nat

\* Owners are 32-byte keys, references 32-byte digests and a sequence number a
\* u64.  Only what sums over all of them needs it.
ASSUME FiniteAssumption == IsFiniteSet(Account) /\ IsFiniteSet(Ref) /\ IsFiniteSet(Seq)

VARIABLES
  now,          \* SystemClock
  ledgerNow,    \* State.now
  supply,       \* ReserveState.supply
  attested,     \* Attestation: [reserve, ts]
  encumbered,   \* ReserveState.encumbered, as last published
  nullifiers,   \* State.nullifiers
  balances,     \* State.balances
  escrows,      \* State.escrows, "none" where the map has no record
  inventory     \* State.inventory.thbc

clockVars == <<now, ledgerNow>>
ledgerVars == <<supply, attested, encumbered, nullifiers, balances, escrows, inventory>>
treasuryVars == <<clockVars, ledgerVars>>

Key == Account \X Seq
NoEscrow == [status |-> "none", amount |-> 0, at |-> 0]
EscrowRecords == [status: {"none", "held", "burned"}, amount: Nat, at: Nat]

TreasuryTypeOK ==
  /\ now \in Nat
  /\ ledgerNow \in Nat
  /\ supply \in Nat
  /\ attested \in [reserve: Nat, ts: Nat]
  /\ encumbered \in Nat
  /\ nullifiers \subseteq Ref
  /\ balances \in [Account -> Nat]
  /\ escrows \in [Key -> EscrowRecords]
  /\ inventory \in Nat

TreasuryInit ==
  /\ now = 0
  /\ ledgerNow = 0
  /\ supply = 0
  /\ \E r \in Reserves : attested = [reserve |-> r, ts |-> 0]
  /\ encumbered = 0
  /\ nullifiers = {}
  /\ balances = [u \in Account |-> 0]
  /\ escrows = [k \in Key |-> NoEscrow]
  /\ inventory = 0

-----------------------------------------------------------------------------
\* The reserve rules (thbc-core/src/reserve.rs).

FreeBacking(reserve, enc) == IF enc <= reserve THEN reserve - enc ELSE 0

Fresh(ts, t) == ts <= t /\ t - ts <= Ttl

MayIssue(att, enc, sup, amount, t) ==
  /\ amount > 0
  /\ Fresh(att.ts, t)
  /\ sup + amount <= FreeBacking(att.reserve, enc)

-----------------------------------------------------------------------------
\* The ledger port's calls.

\* Mutant: issue_thbc without the F5 and F1 checks.
MutLedgerIssueUnchecked(wallet, amount, ref) ==
  /\ ref \notin nullifiers
  /\ nullifiers' = nullifiers \cup {ref}
  /\ supply' = supply + amount
  /\ balances' = [balances EXCEPT ![wallet] = @ + amount]
  /\ UNCHANGED <<clockVars, attested, encumbered, escrows, inventory>>

\* Mutant: issue_thbc without the F3 nullifier check.
MutLedgerIssueReplays(wallet, amount, ref) ==
  /\ MayIssue(attested, encumbered, supply, amount, ledgerNow)
  /\ nullifiers' = nullifiers \cup {ref}
  /\ supply' = supply + amount
  /\ balances' = [balances EXCEPT ![wallet] = @ + amount]
  /\ UNCHANGED <<clockVars, attested, encumbered, escrows, inventory>>

LedgerIssue(wallet, amount, ref) ==
  /\ ref \notin nullifiers
  /\ MayIssue(attested, encumbered, supply, amount, ledgerNow)
  /\ nullifiers' = nullifiers \cup {ref}
  /\ supply' = supply + amount
  /\ balances' = [balances EXCEPT ![wallet] = @ + amount]
  /\ UNCHANGED <<clockVars, attested, encumbered, escrows, inventory>>

LedgerIssueRefused(amount, ref) ==
  /\ ref \in nullifiers \/ ~MayIssue(attested, encumbered, supply, amount, ledgerNow)
  /\ UNCHANGED treasuryVars

\* Mutant: the balance is not checked before it is debited.
MutLedgerEscrowUnchecked(k, amount) ==
  /\ escrows[k].status = "none"
  /\ balances' = [balances EXCEPT ![k[1]] = @ - amount]
  /\ escrows' = [escrows EXCEPT ![k] = [status |-> "held", amount |-> amount, at |-> ledgerNow]]
  /\ UNCHANGED <<clockVars, supply, attested, encumbered, nullifiers, inventory>>

\* Mutant: redeem burns on request, as it did before escrow was introduced.
MutLedgerEscrowBurns(k, amount) ==
  /\ escrows[k].status = "none"
  /\ amount <= balances[k[1]]
  /\ balances' = [balances EXCEPT ![k[1]] = @ - amount]
  /\ supply' = supply - amount
  /\ escrows' = [escrows EXCEPT ![k] = [status |-> "held", amount |-> amount, at |-> ledgerNow]]
  /\ UNCHANGED <<clockVars, attested, encumbered, nullifiers, inventory>>

LedgerEscrow(k, amount) ==
  /\ escrows[k].status = "none"
  /\ amount <= balances[k[1]]
  /\ balances' = [balances EXCEPT ![k[1]] = @ - amount]
  /\ escrows' = [escrows EXCEPT ![k] = [status |-> "held", amount |-> amount, at |-> ledgerNow]]
  /\ UNCHANGED <<clockVars, supply, attested, encumbered, nullifiers, inventory>>

LedgerEscrowRefused(k, amount) ==
  /\ escrows[k].status # "none" \/ amount > balances[k[1]]
  /\ UNCHANGED treasuryVars

LedgerBurn(k) ==
  /\ escrows[k].status = "held"
  /\ escrows[k].amount <= supply
  /\ supply' = supply - escrows[k].amount
  /\ escrows' = [escrows EXCEPT ![k].status = "burned"]
  /\ UNCHANGED <<clockVars, attested, encumbered, nullifiers, balances, inventory>>

LedgerBurnRefused(k) ==
  /\ escrows[k].status # "held" \/ escrows[k].amount > supply
  /\ UNCHANGED treasuryVars

TimelockExpired(k) == ledgerNow - escrows[k].at >= LedgerDelta

\* Mutant: the burned flag is not looked at.
MutLedgerReclaimBurned(k) ==
  /\ escrows[k].status # "none"
  /\ TimelockExpired(k)
  /\ balances' = [balances EXCEPT ![k[1]] = @ + escrows[k].amount]
  /\ escrows' = [escrows EXCEPT ![k] = NoEscrow]
  /\ UNCHANGED <<clockVars, supply, attested, encumbered, nullifiers, inventory>>

\* Mutant: the record is not removed, so the tokens can be reclaimed again.
MutLedgerReclaimTwice(k) ==
  /\ escrows[k].status = "held"
  /\ TimelockExpired(k)
  /\ balances' = [balances EXCEPT ![k[1]] = @ + escrows[k].amount]
  /\ UNCHANGED <<clockVars, supply, attested, encumbered, nullifiers, escrows, inventory>>

LedgerReclaim(k) ==
  /\ escrows[k].status = "held"
  /\ TimelockExpired(k)
  /\ balances' = [balances EXCEPT ![k[1]] = @ + escrows[k].amount]
  /\ escrows' = [escrows EXCEPT ![k] = NoEscrow]
  /\ UNCHANGED <<clockVars, supply, attested, encumbered, nullifiers, inventory>>

LedgerReclaimRefused(k) ==
  /\ escrows[k].status # "held" \/ ~TimelockExpired(k)
  /\ UNCHANGED treasuryVars

LedgerAttest(reserve, enc) ==
  /\ attested' = [reserve |-> reserve, ts |-> ledgerNow]
  /\ encumbered' = enc
  /\ UNCHANGED <<clockVars, supply, nullifiers, balances, escrows, inventory>>

\* fund_inventory: inventory comes out of a holder's balance, never out of nothing.
LedgerFundInventory(u, amount) ==
  /\ amount <= balances[u]
  /\ balances' = [balances EXCEPT ![u] = @ - amount]
  /\ inventory' = inventory + amount
  /\ UNCHANGED <<clockVars, supply, attested, encumbered, nullifiers, escrows>>

Tick ==
  /\ now < MaxTime
  /\ now' = now + 1
  /\ ledgerNow' = IF LedgerClockRuns THEN now + 1 ELSE ledgerNow
  /\ UNCHANGED ledgerVars

-----------------------------------------------------------------------------
\* The ledger alone, driven by arbitrary callers.

TreasuryNext ==
  \/ Tick
  \/ \E w \in Account, a \in Amounts, r \in Ref : LedgerIssue(w, a, r)
  \/ \E k \in Key, a \in Amounts : LedgerEscrow(k, a)
  \/ \E k \in Key : LedgerBurn(k) \/ LedgerReclaim(k)
  \/ \E r \in Reserves, e \in Amounts \cup {0} : LedgerAttest(r, e)
  \/ \E u \in Account, a \in Amounts : LedgerFundInventory(u, a)

TreasurySpec == TreasuryInit /\ [][TreasuryNext]_treasuryVars

-----------------------------------------------------------------------------
Held == [k \in Key |-> IF escrows[k].status = "held" THEN escrows[k].amount ELSE 0]

\* Every THBC in supply is somewhere: in a balance, in an escrow not yet burned,
\* or in the platform's inventory.  escrow_redemption moves tokens without
\* touching supply and confirm_redemption shrinks supply without touching a
\* balance; only together do they conserve.
Conservation ==
  supply = SumFunction(balances) + SumFunction(Held) + inventory

\* A burned escrow record stays, so a late reclaim cannot give back what a
\* confirmed redemption destroyed (simulated.rs: EscrowRecord.burned).
BurnIsFinal ==
  [][\A k \in Key : escrows[k].status = "burned" => escrows'[k] = escrows[k]]_treasuryVars

\* F1 and F5 where they bind: whatever was attested, encumbered or burned in
\* between, a step that adds to supply leaves it within the ceiling of an
\* attestation that is fresh by the ledger's clock, and consumes a new nullifier.
MintWithinCeiling ==
  [][supply' > supply =>
       /\ supply' <= FreeBacking(attested'.reserve, encumbered')
       /\ Fresh(attested'.ts, ledgerNow')
       /\ \E r \in Ref \ nullifiers : nullifiers' = nullifiers \cup {r}]_treasuryVars

\* Supply moves only with a mint that consumes a nullifier or a burn that
\* retires exactly one held escrow: escrow, reclaim and inventory funding move
\* tokens and never create or destroy them (F6, F7).
SupplyMovesWithRecord ==
  [][supply' # supply =>
       \/ nullifiers' # nullifiers /\ escrows' = escrows
       \/ /\ nullifiers' = nullifiers
          /\ \E k \in Key : /\ escrows[k].status = "held"
                            /\ escrows' = [escrows EXCEPT ![k].status = "burned"]
                            /\ supply = supply' + escrows[k].amount]_treasuryVars
=============================================================================
