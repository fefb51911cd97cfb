---------------------------- MODULE ExchangeProofs ----------------------------
(***************************************************************************)
(* Theorems about Exchange, for u64 and u128 of any width, any number of   *)
(* atoms to a whole GRX, any rate and any fee.  The arithmetic rests on    *)
(* what truncating division is (DivBounds); the rest is that an answer is  *)
(* the quote for a treasury and a vault that were read (ExchangeInv).      *)
(***************************************************************************)
EXTENDS Exchange, TLAPS

\* What truncating division is, by multiplication alone.
LEMMA DivBounds ==
  ASSUME NEW a \in Nat, NEW b \in Nat \ {0}
  PROVE  /\ a \div b \in Nat
         /\ (a \div b) * b <= a
         /\ a < (a \div b + 1) * b
OBVIOUS

\* Multiplication preserves order ...
LEMMA TimesMono ==
  ASSUME NEW a \in Nat, NEW b \in Nat, NEW k \in Nat, a <= b
  PROVE  a * k <= b * k
OBVIOUS

\* ... and reflects it.
LEMMA TimesCancel ==
  ASSUME NEW a \in Nat, NEW b \in Nat, NEW k \in Nat \ {0}, a * k <= b * k
  PROVE  a <= b
<1> SUFFICES ASSUME b + 1 <= a PROVE FALSE
  OBVIOUS
<1>1. (b + 1) * k <= a * k
  BY TimesMono
<1>2. (b + 1) * k = b * k + k
  OBVIOUS
<1> QED
  BY <1>1, <1>2

\* A product distributes over a sum of naturals.
LEMMA TimesSum ==
  ASSUME NEW a \in Nat, NEW b \in Nat, NEW c \in Nat, NEW k \in Nat, c = a + b
  PROVE  c * k = a * k + b * k
OBVIOUS

\* Two u64 figures have a u128 product.
LEMMA ProductsFit ==
  ASSUME NEW a \in 0..MaxU64, NEW b \in 0..MaxU64
  PROVE  Fits128(a * b)
<1>1. a * b <= MaxU64 * b
  BY TimesMono, ExchangeAssumption
<1>2. b * MaxU64 <= MaxU64 * MaxU64
  BY TimesMono, ExchangeAssumption
<1>3. MaxU64 * b = b * MaxU64
  BY ExchangeAssumption
<1>4. a * b \in Nat /\ MaxU64 * b \in Nat /\ MaxU64 * MaxU64 \in Nat
  BY ExchangeAssumption
<1> QED
  BY <1>1, <1>2, <1>3, <1>4, ExchangeAssumption DEF Fits128

-----------------------------------------------------------------------------
\* What a quote is computed from.
ParamsRead == [rate: 0..MaxU64, fee: 0..MaxU64, paused: BOOLEAN]

\* What a read can return is typed, the absent row included.
LEMMA ReadIsParams ==
  ASSUME NEW p \in Params \cup {NoParams}
  PROVE  p \in ParamsRead
<1>1. CASE p \in Params
  BY <1>1, ExchangeAssumption DEF Params, ParamsRead
<1>2. CASE p = NoParams
  BY <1>2, ExchangeAssumption DEF NoParams, ParamsRead
<1> QED
  BY <1>1, <1>2

\* The gross price, where there is one, and its fee.
LEMMA GrossAndFee ==
  ASSUME NEW side \in Sides, NEW amount \in 0..MaxU64, NEW p \in ParamsRead, Invalid(p) = "none"
  PROVE  LET g == Gross(side, amount, p)
             num == Num(side, p)
             den == Den(side, p)
         IN  /\ num \in 0..MaxU64 /\ den \in 1..MaxU64
             /\ g \in Nat /\ g * den <= amount * num /\ amount * num < (g + 1) * den
             /\ Fee(g, p) \in Nat /\ Fee(g, p) <= g
             /\ Fee(g, p) * BpsWhole <= g * p.fee /\ g * p.fee < (Fee(g, p) + 1) * BpsWhole
<1> DEFINE g == Gross(side, amount, p)
           num == Num(side, p)
           den == Den(side, p)
<1>1. p.rate \in 1..MaxU64 /\ p.fee \in 0..BpsWhole
  BY ExchangeAssumption DEF Invalid, ParamsRead
<1>2. num \in 0..MaxU64 /\ den \in 1..MaxU64
  BY <1>1, ExchangeAssumption DEF Num, Den
<1>3. amount * num \in Nat /\ den \in Nat \ {0}
  BY <1>2, ExchangeAssumption
<1>4. g \in Nat /\ g * den <= amount * num /\ amount * num < (g + 1) * den
  <2> HIDE DEF num, den
  <2> QED
    BY <1>3, DivBounds DEF Gross, num, den
<1>5. g * p.fee \in Nat /\ BpsWhole \in Nat \ {0}
  <2> HIDE DEF g
  <2> QED
    BY <1>1, <1>4, ExchangeAssumption
<1>6. /\ Fee(g, p) \in Nat /\ Fee(g, p) * BpsWhole <= g * p.fee
      /\ g * p.fee < (Fee(g, p) + 1) * BpsWhole
  <2> HIDE DEF g
  <2> QED
    BY <1>5, DivBounds DEF Fee
<1>7. Fee(g, p) <= g
  <2> HIDE DEF g
  <2>1. p.fee * g <= BpsWhole * g
    BY <1>1, <1>4, TimesMono, ExchangeAssumption
  <2>2. g * p.fee = p.fee * g /\ BpsWhole * g = g * BpsWhole
    BY <1>1, <1>4, ExchangeAssumption
  <2>3. Fee(g, p) * BpsWhole <= g * BpsWhole
    BY <1>1, <1>4, <1>5, <1>6, <2>1, <2>2
  <2> QED
    BY <1>4, <1>5, <1>6, <2>3, TimesCancel
<1> QED
  BY <1>2, <1>4, <1>6, <1>7

\* Every quote, given or refused.
LEMMA QuoteFacts ==
  ASSUME NEW side \in Sides, NEW amount \in 0..MaxU64, NEW p \in ParamsRead, NEW inv \in Inventories
  PROVE  LET q == Quote(side, amount, p, inv)
             num == Num(side, p)
             den == Den(side, p)
             gross == q.out + q.fee
         IN  /\ q \in [error: {"none"} \cup Refusals, out: 0..MaxU64, fee: 0..MaxU64,
                       after: Inventories]
             /\ q.error = "none" =>
                  /\ den \in 1..MaxU64 /\ num \in 0..MaxU64
                  /\ gross * den <= amount * num /\ amount * num < (gross + 1) * den
                  /\ q.fee * BpsWhole <= gross * p.fee /\ gross * p.fee < (q.fee + 1) * BpsWhole
                  /\ q.out > 0
                  /\ q.after[Pays(side)] + q.out = inv[Pays(side)]
                  /\ q.after[Takes(side)] = inv[Takes(side)] + amount
             /\ q.error = "MathOverflow" =>
                  \/ (MaxU64 + 1) * den <= amount * num
                  \/ inv[Takes(side)] + amount > MaxU64
             /\ q.error = "InsufficientInventory" =>
                  inv[Pays(side)] < Gross(side, amount, p) - Fee(Gross(side, amount, p), p)
<1> DEFINE why == Refusal(side, amount, p, inv)
           g == Gross(side, amount, p)
           f == Fee(g, p)
           num == Num(side, p)
           den == Den(side, p)
<1>1. CASE amount = 0 \/ Invalid(p) # "none"
  <2>1. why \in {"ZeroAmount", "Paused", "RateNotSet", "InvalidFeeBps"}
    BY <1>1 DEF Refusal, Invalid
  <2>2. Quote(side, amount, p, inv) = Refuse(why)
    BY <2>1 DEF Quote
  <2> HIDE DEF why
  <2> QED
    BY <2>1, <2>2, ExchangeAssumption DEF Refuse, Refusals, Inventories, NoInventory
<1>2. CASE amount # 0 /\ Invalid(p) = "none"
  <2>1. /\ num \in 0..MaxU64 /\ den \in 1..MaxU64
        /\ g \in Nat /\ g * den <= amount * num /\ amount * num < (g + 1) * den
        /\ f \in Nat /\ f <= g
        /\ f * BpsWhole <= g * p.fee /\ g * p.fee < (f + 1) * BpsWhole
    BY <1>2, GrossAndFee
  <2>2. /\ Pays(side) \in {"thbc", "grx"} /\ Takes(side) \in {"thbc", "grx"}
        /\ Pays(side) # Takes(side)
        /\ inv[Pays(side)] \in 0..MaxU64 /\ inv[Takes(side)] \in 0..MaxU64
    BY DEF Pays, Takes, Inventories
  <2>3. Fits128(amount * num)
    BY <2>1, ProductsFit
  <2>4. g <= MaxU64 => Fits128(g * p.fee)
    <3> HIDE DEF g
    <3> QED
      BY <2>1, ProductsFit, ExchangeAssumption DEF ParamsRead
  <2>5. why = IF g > MaxU64 THEN "MathOverflow"
              ELSE IF g - f = 0 THEN "ZeroAmount"
              ELSE IF g - f > inv[Pays(side)] THEN "InsufficientInventory"
              ELSE IF inv[Takes(side)] + amount > MaxU64 THEN "MathOverflow"
              ELSE "none"
    BY <1>2, <2>1, <2>2, <2>3, <2>4, ExchangeAssumption DEF Refusal, Fits128, ParamsRead
  <2> HIDE DEF why, g, f, num, den
  <2>6. CASE why = "none"
    <3> DEFINE after == [inv EXCEPT ![Pays(side)] = @ - (g - f), ![Takes(side)] = @ + amount]
    <3>1. g <= MaxU64 /\ g - f > 0 /\ g - f <= inv[Pays(side)] /\ inv[Takes(side)] + amount <= MaxU64
      BY <2>1, <2>2, <2>5, <2>6, ExchangeAssumption
    <3>2. /\ after \in Inventories
          /\ after[Pays(side)] = inv[Pays(side)] - (g - f)
          /\ after[Takes(side)] = inv[Takes(side)] + amount
      BY <2>1, <2>2, <3>1, ExchangeAssumption DEF Inventories
    <3>3. Quote(side, amount, p, inv) = [error |-> "none", out |-> g - f, fee |-> f, after |-> after]
      BY <2>6 DEF Quote, Priced, why, g, f
    <3>4. (g - f) + f = g /\ g - f \in 0..MaxU64 /\ f \in 0..MaxU64
      BY <2>1, <3>1, ExchangeAssumption
    <3> HIDE DEF after
    <3> QED
      BY <2>1, <2>2, <3>1, <3>2, <3>3, <3>4 DEF num, den
  <2>7. CASE why # "none"
    <3>1. /\ Quote(side, amount, p, inv) = Refuse(why)
          /\ why \in {"MathOverflow", "ZeroAmount", "InsufficientInventory"}
      BY <2>5, <2>7 DEF Quote, why
    <3>2. why = "InsufficientInventory" => inv[Pays(side)] < g - f
      BY <2>1, <2>2, <2>5, ExchangeAssumption
    <3>3. why = "MathOverflow" => g > MaxU64 \/ inv[Takes(side)] + amount > MaxU64
      BY <2>5
    <3>4. g > MaxU64 => (MaxU64 + 1) * den <= amount * num
      <4> SUFFICES ASSUME g > MaxU64 PROVE (MaxU64 + 1) * den <= amount * num
        OBVIOUS
      <4>1. (MaxU64 + 1) * den <= g * den
        BY <2>1, TimesMono, ExchangeAssumption
      <4>2. (MaxU64 + 1) * den \in Nat /\ g * den \in Nat /\ amount * num \in Nat
        BY <2>1, ExchangeAssumption
      <4> QED
        BY <2>1, <4>1, <4>2
    <3> QED
      BY <3>1, <3>2, <3>3, <3>4, ExchangeAssumption
         DEF Refuse, Refusals, Inventories, NoInventory, num, den, g, f
  <2> QED
    BY <2>6, <2>7
<1> QED
  BY <1>1, <1>2

-----------------------------------------------------------------------------
\* The machine: what is answered is the quote for what was read.

LEMMA ExchangeInitInv == ExchangeInit => ExchangeInv
  BY ExchangeAssumption
     DEF ExchangeInit, ExchangeInv, ExchangeTypeOK, HeldBrackets, Inventories, NoInventory, Sides,
         Refuse

\* A call that ends with a quote, from a treasury and a vault the call has seen.
LEMMA AnswerInv ==
  ASSUME ExchangeInv, NEW p \in Params \cup {NoParams}, NEW inv \in Inventories, Answer(p, inv),
         stage \in {"asked", "half"}, held.low <= inv.thbc, inv.thbc <= held.high
  PROVE  ExchangeInv'
<1>1. ask.side \in Sides /\ ask.amount \in 0..MaxU64 /\ p \in ParamsRead
  BY ReadIsParams, ExchangeAssumption DEF ExchangeInv, ExchangeTypeOK
<1>2. answer' \in [error: {"none"} \cup Refusals, out: 0..MaxU64, fee: 0..MaxU64, after: Inventories]
  BY <1>1, QuoteFacts DEF Answer
<1>3. ExchangeTypeOK'
  BY <1>2 DEF ExchangeInv, ExchangeTypeOK, Answer
<1>4. HeldBrackets'
  BY DEF ExchangeInv, HeldBrackets, Answer
<1> QED
  BY <1>3, <1>4 DEF ExchangeInv

\* Every step keeps the invariant.
LEMMA ExchangeStepInv ==
  ASSUME ExchangeInv, [ExchangeNext]_exchangeVars
  PROVE  ExchangeInv'
<1>a. /\ ExchangeTypeOK /\ HeldBrackets
      /\ vaults \in Inventories /\ vaults.thbc \in 0..MaxU64 /\ vaults.grx \in 0..MaxU64
  BY DEF ExchangeInv, ExchangeTypeOK, Inventories
<1>b. NoInventory \in Inventories
  BY ExchangeAssumption DEF NoInventory, Inventories
<1>1. ASSUME NEW side \in Sides, NEW amount \in Amounts, Ask(side, amount)
      PROVE  ExchangeInv'
  <2>1. ExchangeTypeOK'
    BY <1>a, <1>b, <1>1, ExchangeAssumption DEF Ask, ExchangeTypeOK, Refuse
  <2>2. HeldBrackets'
    BY <1>a, <1>1 DEF Ask, HeldBrackets
  <2> QED
    BY <2>1, <2>2 DEF ExchangeInv
<1>2. CASE SimulatedSnapshot
  BY <1>a, <1>2, AnswerInv DEF SimulatedSnapshot, ExchangeTypeOK, HeldBrackets
<1>3. CASE QueryVault
  <2> DEFINE inv == [thbc |-> vaults.thbc, grx |-> 0]
  <2>1. inv \in Inventories /\ inv.thbc = vaults.thbc
    BY <1>a, ExchangeAssumption DEF Inventories
  <2> HIDE DEF inv
  <2>2. Answer(seen, inv)
    BY <1>3 DEF QueryVault, inv
  <2> QED
    BY <1>a, <1>3, <2>1, <2>2, AnswerInv DEF QueryVault, ExchangeTypeOK, HeldBrackets
<1>4. ASSUME NEW error \in PortErrors, Fail(error), stage \in {"asked", "half"}
      PROVE  ExchangeInv'
  <2>1. ExchangeTypeOK'
    BY <1>a, <1>b, <1>4, ExchangeAssumption DEF Fail, ExchangeTypeOK, Refuse
  <2>2. HeldBrackets'
    BY <1>a, <1>4 DEF Fail, HeldBrackets, Refuse
  <2> QED
    BY <2>1, <2>2 DEF ExchangeInv
<1>5. CASE SnapshotUnsupported \/ TreasuryMissing \/ QueryFails
  BY <1>4, <1>5 DEF SnapshotUnsupported, TreasuryMissing, QueryFails, PortErrors
<1>6. CASE QueryTreasury
  <2>1. ExchangeTypeOK'
    BY <1>a, <1>6 DEF QueryTreasury, ExchangeTypeOK
  <2>2. HeldBrackets'
    BY <1>a, <1>6 DEF QueryTreasury, HeldBrackets
  <2> QED
    BY <2>1, <2>2 DEF ExchangeInv
<1>7. CASE Answered
  <2>1. ExchangeTypeOK'
    BY <1>a, <1>b, <1>7, ExchangeAssumption DEF Answered, ExchangeTypeOK, Refuse, Sides
  <2>2. HeldBrackets'
    BY <1>7 DEF Answered, HeldBrackets
  <2> QED
    BY <2>1, <2>2 DEF ExchangeInv
<1>8. ASSUME NEW p \in Params, SetParams(p)
      PROVE  ExchangeInv'
  <2>1. ExchangeTypeOK'
    BY <1>a, <1>8 DEF SetParams, Meanwhile, callVars, ExchangeTypeOK
  <2>2. HeldBrackets'
    BY <1>a, <1>8 DEF SetParams, Meanwhile, callVars, HeldBrackets
  <2> QED
    BY <2>1, <2>2 DEF ExchangeInv
<1>9. ASSUME NEW level \in Levels, FundGrx(level) \/ MoveThbc(level)
      PROVE  ExchangeInv'
  <2>1. level \in 0..MaxU64 /\ held.low \in 0..MaxU64 /\ held.high \in 0..MaxU64
    BY <1>a, ExchangeAssumption DEF ExchangeTypeOK
  <2>2. vaults' \in Inventories
    BY <1>a, <1>9, <2>1, ExchangeAssumption DEF FundGrx, MoveThbc, Inventories
  <2>3. held' \in [low: 0..MaxU64, high: 0..MaxU64]
    BY <1>a, <1>9, <2>1 DEF FundGrx, MoveThbc, ExchangeTypeOK
  <2>4. ExchangeTypeOK'
    BY <1>a, <1>9, <2>2, <2>3 DEF FundGrx, MoveThbc, Meanwhile, callVars, ExchangeTypeOK
  <2>5. HeldBrackets'
    <3>1. CASE FundGrx(level)
      BY <1>a, <3>1 DEF FundGrx, Meanwhile, callVars, HeldBrackets, Inventories
    <3>2. CASE MoveThbc(level)
      <4>1. vaults'.thbc = level /\ stage' = stage /\ stage # "answered"
        BY <1>a, <3>2 DEF MoveThbc, Meanwhile, callVars, Inventories
      <4>2. stage # "idle" => held'.low <= level /\ level <= held'.high
        BY <2>1, <3>2 DEF MoveThbc
      <4> QED
        BY <4>1, <4>2 DEF HeldBrackets
    <3> QED
      BY <1>9, <3>1, <3>2
  <2> QED
    BY <2>4, <2>5 DEF ExchangeInv
<1>10. CASE UNCHANGED exchangeVars
  BY <1>a, <1>10 DEF exchangeVars, callVars, ExchangeInv, ExchangeTypeOK, HeldBrackets
<1> QED
  BY <1>1, <1>2, <1>3, <1>5, <1>6, <1>7, <1>8, <1>9, <1>10 DEF ExchangeNext

\* Types -- no figure of a quote leaves u64 -- and what an answer was made from
\* (TreasuryService::quote_buy_thbc, quote_sell_thbc).
THEOREM ExchangeInvariance == ExchangeSpec => []ExchangeInv
<1>1. ExchangeInit => ExchangeInv
  BY ExchangeInitInv
<1>2. ExchangeInv /\ [ExchangeNext]_exchangeVars => ExchangeInv'
  BY ExchangeStepInv
<1> QED
  BY <1>1, <1>2, PTL DEF ExchangeSpec

\* An answer that is no port error is the quote for what was read.
LEMMA Answers ==
  ASSUME ExchangeInv, stage = "answered", answer.error \notin PortErrors
  PROVE  /\ answer = Quote(ask.side, ask.amount, seen, inventory)
         /\ ask.side \in Sides /\ ask.amount \in 0..MaxU64
         /\ seen \in ParamsRead /\ inventory \in Inventories
  BY ReadIsParams, ExchangeAssumption DEF ExchangeInv, ExchangeTypeOK, HeldBrackets

\* The invariant gives QuoteIsExact.
LEMMA QuoteIsExactNow == ExchangeInv => QuoteIsExact
<1> SUFFICES ASSUME ExchangeInv, stage = "answered", answer.error \in {"none", "MathOverflow"}
             PROVE  QuoteIsExact
  BY DEF QuoteIsExact, Quoted
<1>1. answer.error \notin PortErrors
  BY DEF PortErrors
<1> QED
  BY <1>1, Answers, QuoteFacts DEF QuoteIsExact, Quoted

\* Every quote is the exact price, truncated, and refused for overflow only when
\* the exact figures do not fit (quote_grx_for_thbc, quote_thbc_for_grx).
THEOREM QuoteIsExactAlways == ExchangeSpec => []QuoteIsExact
  BY QuoteIsExactNow, ExchangeInvariance, PTL

\* The net price is no more than the input pays for.
LEMMA NetIsPaidFor ==
  ASSUME NEW side \in Sides, NEW amount \in 0..MaxU64, NEW p \in ParamsRead, NEW inv \in Inventories,
         Quote(side, amount, p, inv).error = "none"
  PROVE  LET q == Quote(side, amount, p, inv)
         IN  /\ q.out \in 0..MaxU64 /\ q.after \in Inventories
             /\ Num(side, p) \in 0..MaxU64 /\ Den(side, p) \in 1..MaxU64
             /\ q.out * Den(side, p) <= amount * Num(side, p)
<1> DEFINE q == Quote(side, amount, p, inv)
           num == Num(side, p)
           den == Den(side, p)
<1>1. /\ q.out \in 0..MaxU64 /\ q.fee \in 0..MaxU64 /\ q.after \in Inventories
      /\ num \in 0..MaxU64 /\ den \in 1..MaxU64
      /\ (q.out + q.fee) * den <= amount * num
  BY QuoteFacts
<1> HIDE DEF q, num, den
<1>2. q.out * den <= (q.out + q.fee) * den
  BY <1>1, TimesMono, ExchangeAssumption
<1>3. q.out * den \in Nat /\ (q.out + q.fee) * den \in Nat /\ amount * num \in Nat
  BY <1>1, ExchangeAssumption
<1>4. q.out * den <= amount * num
  BY <1>1, <1>2, <1>3
<1> QED
  BY <1>1, <1>4 DEF q, num, den

\* The invariant gives PlatformNeverLoses.
LEMMA PlatformNeverLosesNow == ExchangeInv => PlatformNeverLoses
<1> SUFFICES ASSUME ExchangeInv, Quoted PROVE Value(answer.after) >= Value(inventory)
  BY DEF PlatformNeverLoses
<1> DEFINE a == ask.amount
           o == answer.out
<1>1. stage = "answered" /\ answer.error = "none" /\ answer.error \notin PortErrors
  BY DEF Quoted, PortErrors
<1>2. /\ answer = Quote(ask.side, a, seen, inventory)
      /\ ask.side \in Sides /\ a \in 0..MaxU64 /\ seen \in ParamsRead /\ inventory \in Inventories
  BY <1>1, Answers
<1>3. /\ o \in 0..MaxU64 /\ answer.after \in Inventories
      /\ o * Den(ask.side, seen) <= a * Num(ask.side, seen)
      /\ answer.after[Pays(ask.side)] + o = inventory[Pays(ask.side)]
      /\ answer.after[Takes(ask.side)] = inventory[Takes(ask.side)] + a
  BY <1>1, <1>2, NetIsPaidFor, QuoteFacts
<1>4. /\ seen.rate \in Nat /\ AtomsPerWhole \in Nat /\ a \in Nat /\ o \in Nat
      /\ inventory.thbc \in Nat /\ inventory.grx \in Nat
      /\ answer.after.thbc \in Nat /\ answer.after.grx \in Nat
  BY <1>2, <1>3, ExchangeAssumption DEF Inventories, ParamsRead
<1>5. CASE ask.side = "buy"
  <2>1. /\ answer.after.thbc + o = inventory.thbc
        /\ answer.after.grx = inventory.grx + a
        /\ o * AtomsPerWhole <= a * seen.rate
    BY <1>3, <1>5 DEF Num, Den, Pays, Takes
  <2> HIDE DEF a, o
  <2>2. inventory.thbc * AtomsPerWhole = answer.after.thbc * AtomsPerWhole + o * AtomsPerWhole
    BY <1>4, <2>1, TimesSum
  <2>3. answer.after.grx * seen.rate = inventory.grx * seen.rate + a * seen.rate
    BY <1>4, <2>1, TimesSum
  <2>4. /\ answer.after.thbc * AtomsPerWhole \in Nat /\ inventory.grx * seen.rate \in Nat
        /\ o * AtomsPerWhole \in Nat /\ a * seen.rate \in Nat
    BY <1>4
  <2> QED
    BY <2>1, <2>2, <2>3, <2>4 DEF Value
<1>6. CASE ask.side = "sell"
  <2>1. /\ answer.after.grx + o = inventory.grx
        /\ answer.after.thbc = inventory.thbc + a
        /\ o * seen.rate <= a * AtomsPerWhole
    BY <1>3, <1>6 DEF Num, Den, Pays, Takes
  <2> HIDE DEF a, o
  <2>2. inventory.grx * seen.rate = answer.after.grx * seen.rate + o * seen.rate
    BY <1>4, <2>1, TimesSum
  <2>3. answer.after.thbc * AtomsPerWhole = inventory.thbc * AtomsPerWhole + a * AtomsPerWhole
    BY <1>4, <2>1, TimesSum
  <2>4. /\ answer.after.grx * seen.rate \in Nat /\ inventory.thbc * AtomsPerWhole \in Nat
        /\ o * seen.rate \in Nat /\ a * AtomsPerWhole \in Nat
    BY <1>4
  <2> QED
    BY <2>1, <2>2, <2>3, <2>4 DEF Value
<1> QED
  BY <1>2, <1>5, <1>6 DEF Sides

\* No exchange at the quoted rate costs the platform anything, whatever the rate,
\* the fee and the figures (the truncations of both quotes).
THEOREM PlatformNeverLosesAlways == ExchangeSpec => []PlatformNeverLoses
  BY PlatformNeverLosesNow, ExchangeInvariance, PTL

\* The invariant gives RoundTripNeverGains.
LEMMA RoundTripNeverGainsNow == ExchangeInv => RoundTripNeverGains
<1> DEFINE back == IF ask.side = "buy" THEN "sell" ELSE "buy"
           a == ask.amount
           o == answer.out
           q == Quote(back, o, seen, answer.after)
<1> SUFFICES ASSUME ExchangeInv, Quoted, q.error = "none" PROVE q.out <= a
  BY DEF RoundTripNeverGains
<1>1. stage = "answered" /\ answer.error = "none" /\ answer.error \notin PortErrors
  BY DEF Quoted, PortErrors
<1>2. /\ answer = Quote(ask.side, a, seen, inventory)
      /\ ask.side \in Sides /\ a \in 0..MaxU64 /\ seen \in ParamsRead /\ inventory \in Inventories
  BY <1>1, Answers
<1>3. /\ o \in 0..MaxU64 /\ answer.after \in Inventories
      /\ Num(ask.side, seen) \in 0..MaxU64 /\ Den(ask.side, seen) \in 1..MaxU64
      /\ o * Den(ask.side, seen) <= a * Num(ask.side, seen)
  BY <1>1, <1>2, NetIsPaidFor
<1>4. back \in Sides /\ Num(back, seen) = Den(ask.side, seen) /\ Den(back, seen) = Num(ask.side, seen)
  BY <1>2 DEF Sides, Num, Den
<1>5. /\ q.out \in 0..MaxU64 /\ Den(back, seen) \in 1..MaxU64
      /\ q.out * Den(back, seen) <= o * Num(back, seen)
  BY <1>2, <1>3, <1>4, NetIsPaidFor
<1> HIDE DEF q, o, a, back
<1>6. q.out * Num(ask.side, seen) <= a * Num(ask.side, seen)
  <2>1. /\ q.out * Num(ask.side, seen) \in Nat /\ o * Den(ask.side, seen) \in Nat
        /\ a * Num(ask.side, seen) \in Nat
    BY <1>2, <1>3, <1>5, ExchangeAssumption
  <2> QED
    BY <1>3, <1>4, <1>5, <2>1
<1> QED
  BY <1>2, <1>3, <1>4, <1>5, <1>6, TimesCancel, ExchangeAssumption

\* An exchange and its reverse return no more than was paid (the two quotes, one
\* after the other).
THEOREM RoundTripNeverGainsAlways == ExchangeSpec => []RoundTripNeverGains
  BY RoundTripNeverGainsNow, ExchangeInvariance, PTL

\* The invariant gives AnswerWasTrue.
LEMMA AnswerWasTrueNow == ExchangeInv => AnswerWasTrue
<1> SUFFICES ASSUME ExchangeInv, stage = "answered", ask.side = "buy",
                    answer.error \in {"none", "InsufficientInventory"}
             PROVE  AnswerWasTrue
  BY DEF AnswerWasTrue
<1>1. answer.error \notin PortErrors
  BY DEF PortErrors
<1>2. /\ answer = Quote("buy", ask.amount, seen, inventory)
      /\ ask.amount \in 0..MaxU64 /\ seen \in ParamsRead /\ inventory \in Inventories
      /\ "buy" \in Sides /\ Pays("buy") = "thbc" /\ inventory.thbc \in Nat
      /\ held.low \in Nat /\ held.high \in Nat
      /\ held.low <= inventory.thbc /\ inventory.thbc <= held.high
  BY <1>1, Answers, ExchangeAssumption
     DEF Sides, Pays, ExchangeInv, ExchangeTypeOK, HeldBrackets, Inventories
<1> DEFINE net == Gross("buy", ask.amount, seen) - Fee(Gross("buy", ask.amount, seen), seen)
<1>3. /\ answer.error = "InsufficientInventory" => inventory.thbc < net
      /\ answer.error = "none" =>
           answer.after.thbc + answer.out = inventory.thbc /\ answer.after \in Inventories
      /\ answer.out \in Nat
  BY <1>2, QuoteFacts, ExchangeAssumption
<1>4. answer.error = "none" => answer.out <= held.high
  BY <1>2, <1>3 DEF Inventories
<1>5. answer.error = "InsufficientInventory" => held.low < net
  <2> SUFFICES ASSUME answer.error = "InsufficientInventory" PROVE held.low < net
    OBVIOUS
  <2>1. Invalid(seen) = "none"
    BY <1>2 DEF Quote, Refusal, Refuse, Priced, Invalid
  <2>2. net \in Int
    BY <1>2, <2>1, GrossAndFee
  <2> HIDE DEF net
  <2> QED
    BY <1>2, <1>3, <2>2
<1> QED
  BY <1>4, <1>5 DEF AnswerWasTrue

\* A purchase is refused for lack of THBC only over a vault that lacked it
\* (query_account keeps failure and absence apart; snapshot's second query).
THEOREM AnswerWasTrueAlways == ExchangeSpec => []AnswerWasTrue
  BY AnswerWasTrueNow, ExchangeInvariance, PTL
=============================================================================
