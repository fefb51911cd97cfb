---------------------------- MODULE EscrowPromise ----------------------------
(***************************************************************************)
(* What the off-ramp promises of a redemption, seen from outside: the      *)
(* abstract specification of RedemptionService over its rows, its ledger   *)
(* and its payout queue.                                                   *)
(*                                                                         *)
(* A redemption's tokens are held once, out of their owner's balance; from *)
(* there they are burned, or returned to their owner, once and for good.   *)
(* A wire is queued once, for the amount held, and never for a redemption  *)
(* whose tokens were not held.  It may be queued after they were returned: *)
(* WireHasTokens of Redemption is the promise the code does not keep.      *)
(***************************************************************************)
EXTENDS Naturals

CONSTANTS Account, Seq     \* as in Treasury

VARIABLES
  vault,      \* what stands of each redemption: [stage, amount]
  wires,      \* the payouts queued, as pairs of key and amount
  supply,     \* tokens in existence
  balances    \* tokens each owner can spend

escrowVars == <<vault, wires, supply, balances>>

Keys == Account \X Seq
Open == [stage |-> "open", amount |-> 0]

EscrowInit ==
  /\ vault = [k \in Keys |-> Open]
  /\ wires = {}
  /\ supply = 0
  /\ balances = [u \in Account |-> 0]

Hold(k, a) ==
  /\ vault[k] = Open
  /\ vault' = [vault EXCEPT ![k] = [stage |-> "held", amount |-> a]]
  /\ balances' = [balances EXCEPT ![k[1]] = @ - a]
  /\ UNCHANGED <<wires, supply>>

Burn(k) ==
  /\ vault[k].stage = "held"
  /\ vault' = [vault EXCEPT ![k] = [stage |-> "burned", amount |-> vault[k].amount]]
  /\ supply' = supply - vault[k].amount
  /\ UNCHANGED <<wires, balances>>

Return(k) ==
  /\ vault[k].stage = "held"
  /\ vault' = [vault EXCEPT ![k] = [stage |-> "returned", amount |-> vault[k].amount]]
  /\ balances' = [balances EXCEPT ![k[1]] = @ + vault[k].amount]
  /\ UNCHANGED <<wires, supply>>

Wire(k) ==
  /\ vault[k] # Open
  /\ \A w \in wires : w[1] # k
  /\ wires' = wires \cup {<<k, vault[k].amount>>}
  /\ UNCHANGED <<vault, supply, balances>>

\* The on-ramp credits what it mints.
Credit(u) ==
  /\ supply' \in Nat /\ supply' > supply
  /\ balances' = [balances EXCEPT ![u] = @ + (supply' - supply)]
  /\ UNCHANGED <<vault, wires>>

EscrowNext ==
  \/ \E k \in Keys :
       \/ \E a \in 0..balances[k[1]] : Hold(k, a)
       \/ Burn(k) \/ Return(k) \/ Wire(k)
  \/ \E u \in Account : Credit(u)

EscrowSpec == EscrowInit /\ [][EscrowNext]_escrowVars
=============================================================================
