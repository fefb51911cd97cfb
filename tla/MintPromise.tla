----------------------------- MODULE MintPromise -----------------------------
(***************************************************************************)
(* What the on-ramp promises of a bank transfer, seen from outside: the    *)
(* abstract specification of IssuanceService over its rows and its ledger. *)
(*                                                                         *)
(* A transfer is heard once, for the wallet and the amount heard first.    *)
(* It is then refused for good, or cleared; only a cleared transfer is     *)
(* minted, once, in one step of the supply and of its holder's balance.    *)
(* Deliveries, sweeps, retries, lost replies and restarts do not show.     *)
(***************************************************************************)
EXTENDS Naturals

CONSTANTS Account, Ref, Amounts, Nobody     \* as in Issuance

VARIABLES
  book,       \* what stands of each transfer: [stage, wallet, amount]
  supply,     \* tokens minted
  balances    \* tokens credited to each holder

mintVars == <<book, supply, balances>>

Unheard == [stage |-> "unheard", wallet |-> Nobody, amount |-> 0]

MintInit ==
  /\ book = [r \in Ref |-> Unheard]
  /\ supply = 0
  /\ balances = [u \in Account |-> 0]

Hear(r, w, a) ==
  /\ book[r] = Unheard
  /\ book' = [book EXCEPT ![r] = [stage |-> "promised", wallet |-> w, amount |-> a]]
  /\ UNCHANGED <<supply, balances>>

Move(r, from, to) ==
  /\ book[r].stage = from
  /\ book' = [book EXCEPT ![r] = [@ EXCEPT !.stage = to]]

Decide(r) ==
  /\ Move(r, "promised", "refused") \/ Move(r, "promised", "cleared")
  /\ UNCHANGED <<supply, balances>>

Mint(r) ==
  /\ Move(r, "cleared", "minted")
  /\ supply' = supply + book[r].amount
  /\ balances' = [balances EXCEPT ![book[r].wallet] = @ + book[r].amount]

MintNext ==
  \E r \in Ref :
    \/ \E w \in Account, a \in Amounts : Hear(r, w, a)
    \/ Decide(r)
    \/ Mint(r)

MintSpec == MintInit /\ [][MintNext]_mintVars
=============================================================================
