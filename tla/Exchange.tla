------------------------------- MODULE Exchange -------------------------------
(***************************************************************************)
(* TreasuryService: quotes for exchanging GRX and THBC against the         *)
(* platform's inventory, from a snapshot of a ledger that goes on moving.  *)
(*                                                                         *)
(* The simulated ledger's snapshot is one read under its lock; the Chain   *)
(* Bridge's is two account queries, either of which can fail, and it has   *)
(* no address for the GRX vault.  A quote changes nothing, so calls do not *)
(* meet: one call at a time, against everything the ledger can do during   *)
(* it, is every call.                                                      *)
(*                                                                         *)
(* All figures are u64 (MaxU64), multiplied in u128 (MaxU128) and divided  *)
(* with truncation.                                                        *)
(***************************************************************************)
EXTENDS Integers

CONSTANTS
  MaxU64, MaxU128,
  AtomsPerWhole,  \* GRX_ATOMS_PER_WHOLE
  BpsWhole,       \* 10_000
  Rates,          \* grx_per_thbc_rate: THBC minor units per whole GRX
  FeeBps,         \* fee_bps, as far as u16 goes
  Amounts,        \* what is asked for, bought or sold
  Levels,         \* what a vault can hold
  Ledgers,        \* the ledgers of a run
  MaxMoves        \* bound on the ledger's steps during a call

ASSUME ExchangeAssumption ==
  /\ MaxU64 \in Nat \ {0}
  /\ MaxU128 \in Nat /\ MaxU64 * MaxU64 <= MaxU128
  /\ AtomsPerWhole \in 1..MaxU64
  /\ BpsWhole \in 1..MaxU64
  /\ Rates \subseteq 0..MaxU64
  /\ FeeBps \subseteq 0..MaxU64
  /\ Amounts \subseteq 0..MaxU64
  /\ Levels \subseteq 0..MaxU64
  /\ 0 \in Levels
  /\ Ledgers \subseteq {"simulated", "bridge", "unaddressed"}
  /\ MaxMoves \in Nat

VARIABLES
  ledger,     \* which of Ledgers the service was started with
  vaults,     \* the platform's holdings: [thbc, grx]
  params,     \* the treasury's ExchangeParams
  stage,      \* where the call is
  ask,        \* [side, amount]
  seen,       \* the params it has read
  inventory,  \* the Inventory it has read
  answer,     \* the quote, or the error it returned
  held,       \* history: [low, high] of the THBC vault since the call began
  moves       \* the ledger's steps since the call began

callVars == <<stage, ask, seen, inventory, answer>>
exchangeVars == <<ledger, vaults, params, callVars, held, moves>>

Params == [rate: Rates, fee: FeeBps, paused: BOOLEAN]
Inventories == [thbc: 0..MaxU64, grx: 0..MaxU64]
Sides == {"buy", "sell"}
Refusals == {"ZeroAmount", "Paused", "RateNotSet", "InvalidFeeBps", "MathOverflow",
             "InsufficientInventory"}
PortErrors == {"Unsupported", "Rejected", "Transient"}

NoInventory == [thbc |-> 0, grx |-> 0]
NoParams == [rate |-> 0, fee |-> 0, paused |-> TRUE]
Refuse(why) == [error |-> why, out |-> 0, fee |-> 0, after |-> NoInventory]

ExchangeTypeOK ==
  /\ ledger \in Ledgers
  /\ vaults \in Inventories
  /\ params \in Params
  /\ stage \in {"idle", "asked", "half", "answered"}
  /\ ask \in [side: Sides, amount: Amounts \cup {0}]
  /\ seen \in Params \cup {NoParams}
  /\ inventory \in Inventories
  /\ answer \in [error: {"none"} \cup Refusals \cup PortErrors,
                 out: 0..MaxU64, fee: 0..MaxU64, after: Inventories]
  /\ held \in [low: 0..MaxU64, high: 0..MaxU64]
  /\ moves \in Nat

-----------------------------------------------------------------------------
\* The price: quote_grx_for_thbc (buy) and quote_thbc_for_grx (sell) are one
\* computation with the two assets exchanged.

Takes(side) == IF side = "buy" THEN "grx" ELSE "thbc"
Pays(side) == IF side = "buy" THEN "thbc" ELSE "grx"
Num(side, p) == IF side = "buy" THEN p.rate ELSE AtomsPerWhole
Den(side, p) == IF side = "buy" THEN AtomsPerWhole ELSE p.rate

\* Mutant: the products are taken in u64.
MutFits64(x) == x <= MaxU64

Fits128(x) == x <= MaxU128

\* Mutant: the price is rounded in the customer's favour.
MutGrossUp(side, amount, p) ==
  (amount * Num(side, p) + Den(side, p) - 1) \div Den(side, p)

Gross(side, amount, p) == (amount * Num(side, p)) \div Den(side, p)
Fee(gross, p) == (gross * p.fee) \div BpsWhole

\* ExchangeParams::validate.
Invalid(p) ==
  IF p.paused THEN "Paused"
  ELSE IF p.rate = 0 THEN "RateNotSet"
  ELSE IF p.fee > BpsWhole THEN "InvalidFeeBps"
  ELSE "none"

Refusal(side, amount, p, inv) ==
  LET gross == Gross(side, amount, p)
      net == gross - Fee(gross, p)
  IN  IF amount = 0 THEN "ZeroAmount"
      ELSE IF Invalid(p) # "none" THEN Invalid(p)
      ELSE IF ~Fits128(amount * Num(side, p)) \/ gross > MaxU64 THEN "MathOverflow"
      ELSE IF ~Fits128(gross * p.fee) THEN "MathOverflow"
      ELSE IF net = 0 THEN "ZeroAmount"
      ELSE IF net > inv[Pays(side)] THEN "InsufficientInventory"
      ELSE IF inv[Takes(side)] + amount > MaxU64 THEN "MathOverflow"
      ELSE "none"

\* Two transfers and no supply change: the fee stays in the vault that pays.
Priced(side, amount, p, inv) ==
  LET gross == Gross(side, amount, p)
      fee == Fee(gross, p)
  IN  [error |-> "none", out |-> gross - fee, fee |-> fee,
       after |-> [inv EXCEPT ![Pays(side)] = @ - (gross - fee), ![Takes(side)] = @ + amount]]

Quote(side, amount, p, inv) ==
  LET why == Refusal(side, amount, p, inv)
  IN  IF why = "none" THEN Priced(side, amount, p, inv) ELSE Refuse(why)

-----------------------------------------------------------------------------
\* A call of quote_buy_thbc or quote_sell_thbc.

ExchangeInit ==
  /\ ledger \in Ledgers
  /\ vaults = NoInventory
  /\ params \in Params
  /\ stage = "idle"
  /\ ask = [side |-> "buy", amount |-> 0]
  /\ seen = NoParams
  /\ inventory = NoInventory
  /\ answer = Refuse("none")
  /\ held = [low |-> 0, high |-> 0]
  /\ moves = 0

Ask(side, amount) ==
  /\ stage = "idle"
  /\ stage' = "asked"
  /\ ask' = [side |-> side, amount |-> amount]
  /\ seen' = NoParams
  /\ inventory' = NoInventory
  /\ answer' = Refuse("none")
  /\ held' = [low |-> vaults.thbc, high |-> vaults.thbc]
  /\ moves' = 0
  /\ UNCHANGED <<ledger, vaults, params>>

\* The snapshot is complete: the quote is computed and returned.
Answer(p, inv) ==
  /\ stage' = "answered"
  /\ seen' = p
  /\ inventory' = inv
  /\ answer' = Quote(ask.side, ask.amount, p, inv)
  /\ UNCHANGED <<ledger, vaults, params, ask, held, moves>>

Fail(error) ==
  /\ stage' = "answered"
  /\ answer' = Refuse(error)
  /\ UNCHANGED <<ledger, vaults, params, ask, seen, inventory, held, moves>>

SimulatedSnapshot ==
  /\ ledger = "simulated"
  /\ stage = "asked"
  /\ Answer(params, vaults)

\* A bridge without THBC_TREASURY_PDA or THBC_INVENTORY_VAULT: its snapshot
\* refuses to guess.
SnapshotUnsupported ==
  /\ ledger = "unaddressed"
  /\ stage = "asked"
  /\ Fail("Unsupported")

\* The first query: the treasury account, where the params are ...
QueryTreasury ==
  /\ ledger = "bridge"
  /\ stage = "asked"
  /\ stage' = "half"
  /\ seen' = params
  /\ UNCHANGED <<ledger, vaults, params, ask, inventory, answer, held, moves>>

\* ... which is an error if it does not exist or is too short ...
TreasuryMissing ==
  /\ ledger = "bridge"
  /\ stage = "asked"
  /\ Fail("Rejected")

\* ... then the THBC vault, which may not exist and then holds nothing.  The GRX
\* vault is not queried.
QueryVault ==
  /\ stage = "half"
  /\ Answer(seen, [thbc |-> vaults.thbc, grx |-> 0])

\* Mutant: a query that fails is taken for an account that is absent.
MutQueryFailsEmpty ==
  \/ /\ ledger = "bridge"
     /\ stage = "asked"
     /\ Fail("Transient")
  \/ /\ stage = "half"
     /\ Answer(seen, NoInventory)

\* query_account: a timeout, a transport, a bridge or a decoding error.
QueryFails ==
  /\ ledger = "bridge"
  /\ stage \in {"asked", "half"}
  /\ Fail("Transient")

-----------------------------------------------------------------------------
\* The ledger, meanwhile.

Meanwhile ==
  /\ stage # "answered"
  /\ stage = "idle" \/ moves < MaxMoves
  /\ moves' = IF stage = "idle" THEN 0 ELSE moves + 1
  /\ UNCHANGED <<ledger, callVars>>

SetParams(p) ==
  /\ params' = p
  /\ UNCHANGED <<vaults, held>>
  /\ Meanwhile

\* fund_grx_inventory: a checked addition.
FundGrx(amount) ==
  /\ vaults.grx + amount <= MaxU64
  /\ vaults' = [vaults EXCEPT !.grx = @ + amount]
  /\ UNCHANGED <<params, held>>
  /\ Meanwhile

\* fund_inventory, and the exchanges the chain executes, move the THBC vault.
MoveThbc(level) ==
  /\ vaults' = [vaults EXCEPT !.thbc = level]
  /\ held' = IF stage = "idle" THEN held
             ELSE [low |-> IF level < held.low THEN level ELSE held.low,
                   high |-> IF level > held.high THEN level ELSE held.high]
  /\ UNCHANGED params
  /\ Meanwhile

\* The answer is with the caller; the ledger goes on.
Answered ==
  /\ stage = "answered"
  /\ stage' = "idle"
  /\ ask' = [side |-> "buy", amount |-> 0]
  /\ seen' = NoParams
  /\ inventory' = NoInventory
  /\ answer' = Refuse("none")
  /\ held' = [low |-> 0, high |-> 0]
  /\ moves' = 0
  /\ UNCHANGED <<ledger, vaults, params>>

ExchangeNext ==
  \/ \E side \in Sides, amount \in Amounts : Ask(side, amount)
  \/ SimulatedSnapshot \/ SnapshotUnsupported
  \/ QueryTreasury \/ TreasuryMissing \/ QueryVault \/ QueryFails \/ Answered
  \/ \E p \in Params : SetParams(p)
  \/ \E level \in Levels : FundGrx(level) \/ MoveThbc(level)

ExchangeSpec == ExchangeInit /\ [][ExchangeNext]_exchangeVars

-----------------------------------------------------------------------------
\* The call got as far as pricing, and what it priced.
Quoted == stage = "answered" /\ answer.error = "none"
Value(inv) == inv.thbc * AtomsPerWhole + inv.grx * seen.rate

\* Pricing to the minor unit, by multiplication only: the gross is the largest
\* figure the input pays for, the fee the largest within its rate, both transfers
\* balance, nothing is quoted for nothing, and a quote is refused for overflow only
\* when the exact figures do not fit in u64.
QuoteIsExact ==
  LET num == Num(ask.side, seen)
      den == Den(ask.side, seen)
      gross == answer.out + answer.fee
  IN
  /\ Quoted =>
       /\ gross * den <= ask.amount * num /\ ask.amount * num < (gross + 1) * den
       /\ answer.fee * BpsWhole <= gross * seen.fee
       /\ gross * seen.fee < (answer.fee + 1) * BpsWhole
       /\ answer.out > 0
       /\ answer.after[Pays(ask.side)] + answer.out = inventory[Pays(ask.side)]
       /\ answer.after[Takes(ask.side)] = inventory[Takes(ask.side)] + ask.amount
  /\ stage = "answered" /\ answer.error = "MathOverflow" =>
       \/ (MaxU64 + 1) * den <= ask.amount * num
       \/ inventory[Takes(ask.side)] + ask.amount > MaxU64

\* F6's other half: no exchange at the quoted rate costs the platform anything.
\* Truncation and fee fall to its side in both directions, whatever the figures.
PlatformNeverLoses == Quoted => Value(answer.after) >= Value(inventory)

\* Selling at once what was just bought, or buying back what was sold, returns no
\* more than was paid: two truncations and two fees cannot combine into a gain.
RoundTripNeverGains ==
  Quoted =>
    LET back == IF ask.side = "buy" THEN "sell" ELSE "buy"
        q == Quote(back, answer.out, seen, answer.after)
    IN  q.error = "none" => q.out <= ask.amount

\* "Treating a failure as absence turns an unreachable RPC into an empty vault"
\* (query_account): a purchase is refused for lack of THBC only if at some moment
\* of the call the vault held less than its price, and quoted only if at some
\* moment it held enough.
AnswerWasTrue ==
  stage = "answered" /\ ask.side = "buy" =>
    LET gross == Gross("buy", ask.amount, seen)
        net == gross - Fee(gross, seen)
    IN  /\ answer.error = "InsufficientInventory" => held.low < net
        /\ answer.error = "none" => answer.out <= held.high

\* Why AnswerWasTrue holds.
HeldBrackets ==
  /\ stage \in {"asked", "half", "answered"} => held.low <= vaults.thbc /\ vaults.thbc <= held.high
  /\ stage = "answered" /\ answer.error \notin PortErrors
       => /\ answer = Quote(ask.side, ask.amount, seen, inventory)
          /\ held.low <= inventory.thbc /\ inventory.thbc <= held.high

ExchangeInv == ExchangeTypeOK /\ HeldBrackets

-----------------------------------------------------------------------------
\* What the documentation says and the code does not do.

\* "`swap_vault' ... is not needed by any consumer of this snapshot today"
\* (chain_bridge.rs, snapshot): a sale is refused for lack of GRX only when the
\* vault holds less than its price.
SwapVaultIsUnneeded ==
  [][stage # "answered" /\ stage' = "answered" /\ ask.side = "sell"
       /\ answer'.error = "InsufficientInventory"
     => LET gross == Gross("sell", ask.amount, seen')
        IN  vaults.grx < gross - Fee(gross, seen')]_exchangeVars
=============================================================================
