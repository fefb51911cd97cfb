-------------------------- MODULE RedemptionProofs --------------------------
(***************************************************************************)
(* Theorems about the off-ramp, for every set of requesters, operators,    *)
(* holders, accounts, sequence numbers and amounts, with lost replies, late *)
(* landings and dropped calls.                                             *)
(*                                                                         *)
(* Typing comes first.  RedemptionInv is then inductive: a step is about    *)
(* one redemption at most (Quiet for every other), it keeps what is said   *)
(* of that one (KeyInv) and what the processes suspended with a copy of it *)
(* rely on (KeyStep, and Calm for a requester at the ledger), so only the  *)
(* process that moves needs an argument of its own.  The action properties *)
(* follow from RedemptionInv and from who writes a row or clears a record. *)
(***************************************************************************)
EXTENDS Redemption, TLAPS

-----------------------------------------------------------------------------
\* Typing.

\* The ledger's calls preserve its types, whatever the caller passes.
LEMMA LedgerTyping ==
  ASSUME TreasuryTypeOK
  PROVE  /\ \A w, a, r : a \in Nat /\ r \in Ref /\ LedgerIssue(w, a, r) => TreasuryTypeOK'
         /\ \A k \in Key, a \in Nat : LedgerEscrow(k, a) => TreasuryTypeOK'
         /\ \A k \in Key : LedgerBurn(k) => TreasuryTypeOK'
         /\ \A k \in Key : LedgerReclaim(k) => TreasuryTypeOK'
         /\ Tick => TreasuryTypeOK'
         /\ UNCHANGED treasuryVars => TreasuryTypeOK'
  <1>1. ASSUME NEW w, NEW a \in Nat, NEW r \in Ref, LedgerIssue(w, a, r)
        PROVE  TreasuryTypeOK'
    <2>1. w \in Account => balances[w] + a \in Nat
      BY DEF TreasuryTypeOK
    <2>2. balances' \in [Account -> Nat]
      BY <1>1, <2>1 DEF TreasuryTypeOK, LedgerIssue
    <2> QED
      BY <1>1, <2>2 DEF TreasuryTypeOK, LedgerIssue, clockVars
  <1>2. ASSUME NEW k \in Key, NEW a \in Nat, LedgerEscrow(k, a)
        PROVE  TreasuryTypeOK'
    <2>1. k[1] \in Account
      BY DEF Key
    <2>2. balances[k[1]] - a \in Nat
      BY <1>2, <2>1 DEF LedgerEscrow, TreasuryTypeOK
    <2>3. balances' \in [Account -> Nat]
      BY <1>2, <2>1, <2>2 DEF LedgerEscrow, TreasuryTypeOK
    <2>4. [status |-> "held", amount |-> a, at |-> ledgerNow] \in EscrowRecords
      BY DEF EscrowRecords, TreasuryTypeOK
    <2>5. escrows' \in [Key -> EscrowRecords]
      BY <1>2, <2>4 DEF LedgerEscrow, TreasuryTypeOK
    <2> QED
      BY <1>2, <2>3, <2>5 DEF LedgerEscrow, TreasuryTypeOK, clockVars
  <1>3. ASSUME NEW k \in Key, LedgerBurn(k)
        PROVE  TreasuryTypeOK'
    <2>1. escrows[k] \in EscrowRecords
      BY DEF TreasuryTypeOK
    <2>2. supply - escrows[k].amount \in Nat
      BY <1>3, <2>1 DEF LedgerBurn, TreasuryTypeOK, EscrowRecords
    <2>3. [escrows[k] EXCEPT !.status = "burned"] \in EscrowRecords
      BY <2>1 DEF EscrowRecords
    <2>4. escrows' \in [Key -> EscrowRecords]
      BY <1>3, <2>3 DEF LedgerBurn, TreasuryTypeOK
    <2> QED
      BY <1>3, <2>2, <2>4 DEF LedgerBurn, TreasuryTypeOK, clockVars
  <1>4. ASSUME NEW k \in Key, LedgerReclaim(k)
        PROVE  TreasuryTypeOK'
    <2>1. k[1] \in Account /\ escrows[k].amount \in Nat
      BY DEF Key, TreasuryTypeOK, EscrowRecords
    <2>2. balances[k[1]] + escrows[k].amount \in Nat
      BY <2>1 DEF TreasuryTypeOK
    <2>3. balances' \in [Account -> Nat]
      BY <1>4, <2>1, <2>2 DEF LedgerReclaim, TreasuryTypeOK
    <2>4. NoEscrow \in EscrowRecords
      BY DEF NoEscrow, EscrowRecords
    <2>5. escrows' \in [Key -> EscrowRecords]
      BY <1>4, <2>4 DEF LedgerReclaim, TreasuryTypeOK
    <2> QED
      BY <1>4, <2>3, <2>5 DEF LedgerReclaim, TreasuryTypeOK, clockVars
  <1>5. Tick => TreasuryTypeOK'
    BY DEF TreasuryTypeOK, Tick, ledgerVars, Key
  <1>6. UNCHANGED treasuryVars => TreasuryTypeOK'
    BY DEF TreasuryTypeOK, treasuryVars, clockVars, ledgerVars, Key
  <1> QED
    BY <1>1, <1>2, <1>3, <1>4, <1>5, <1>6

\* The initial state is well typed.
LEMMA InitTyping == RedemptionInit => RedemptionTypeOK
  <1> SUFFICES ASSUME RedemptionInit PROVE RedemptionTypeOK
    OBVIOUS
  <1>1. TreasuryTypeOK
    BY TreasuryAssumption
       DEF RedemptionInit, TreasuryInit, TreasuryTypeOK, NoEscrow, EscrowRecords, Key
  <1>2. NoRedemption \in RedemptionRows
    BY DEF NoRedemption, RedemptionRows, RedemptionStates
  <1> QED
    BY <1>1, <1>2, RedemptionAssumption DEF RedemptionInit, RedemptionTypeOK, Places

\* A process that moves with a copy, keeps its copy, or is done.
LEMMA MoveTyping ==
  ASSUME RedemptionTypeOK, NEW p \in Procs, NEW place \in Places,
         pc' = [pc EXCEPT ![p] = place],
         \/ pc[p] # "idle" /\ job' = job
         \/ \E c \in Copies : job' = [job EXCEPT ![p] = c]
         \/ place = "idle" /\ job' = [job EXCEPT ![p] = NoCopy]
  PROVE  /\ pc' \in [Procs -> Places]
         /\ job' \in [Procs -> Copies \cup {NoCopy}]
         /\ \A q \in Procs : pc'[q] # "idle" => job'[q] \in Copies
  BY DEF RedemptionTypeOK

\* A process that moves on with its copy keeps the types.
LEMMA AdvanceTyping ==
  ASSUME RedemptionTypeOK, NEW p \in Procs, pc[p] # "idle",
         NEW st \in RedemptionStates, NEW place \in Places, Advance(p, st, place)
  PROVE  /\ pc' \in [Procs -> Places]
         /\ job' \in [Procs -> Copies \cup {NoCopy}]
         /\ \A q \in Procs : pc'[q] # "idle" => job'[q] \in Copies
  <1>1. [job[p] EXCEPT !.state = st] \in Copies
    BY DEF RedemptionTypeOK, Copies
  <1>2. job' = [job EXCEPT ![p] = [job[p] EXCEPT !.state = st]]
    BY DEF Advance
  <1> QED
    BY <1>1, <1>2, MoveTyping DEF Advance

\* A call that ends keeps the types.
LEMMA DoneTyping ==
  ASSUME RedemptionTypeOK, NEW p \in Procs, Done(p)
  PROVE  /\ pc' \in [Procs -> Places]
         /\ job' \in [Procs -> Copies \cup {NoCopy}]
         /\ \A q \in Procs : pc'[q] # "idle" => job'[q] \in Copies
  BY MoveTyping DEF Done, Places

\* A process that takes a copy of a row keeps the types.
LEMMA TakeTyping ==
  ASSUME RedemptionTypeOK, NEW p \in Procs, NEW k \in Key,
         NEW st \in RedemptionStates, NEW place \in Places, Take(p, k, st, place)
  PROVE  /\ pc' \in [Procs -> Places]
         /\ job' \in [Procs -> Copies \cup {NoCopy}]
         /\ \A q \in Procs : pc'[q] # "idle" => job'[q] \in Copies
  <1>1. [key |-> k, state |-> st, amount |-> redemptions[k].amount,
         at |-> redemptions[k].at] \in Copies
    BY DEF RedemptionTypeOK, RedemptionRows, Copies
  <1> QED
    BY <1>1, MoveTyping DEF Take

\* Writing a copy back keeps the rows well typed.
LEMMA WriteBackTyping ==
  ASSUME RedemptionTypeOK, NEW p \in Procs, pc[p] # "idle", WriteBack(p)
  PROVE  redemptions' \in [Key -> RedemptionRows]
  <1>1. [state |-> job[p].state, amount |-> job[p].amount, at |-> job[p].at] \in RedemptionRows
    BY DEF RedemptionTypeOK, Copies, RedemptionRows
  <1> QED
    BY <1>1 DEF WriteBack, RedemptionTypeOK

\* What a requester's step leaves well typed.
LEMMA RequestTyping ==
  ASSUME RedemptionTypeOK, NEW q \in Requesters, Request(q)
  PROVE  RedemptionTypeOK'
  <1> USE DEF Places, RedemptionStates
  <1>a. TreasuryTypeOK
    BY DEF RedemptionTypeOK
  <1>b. q \in Procs
    BY DEF Procs
  <1>c. pc[q] # "idle" => job[q] \in Copies /\ job[q].key \in Key /\ job[q].amount \in Nat
    BY <1>b DEF RedemptionTypeOK, Copies
  <1>1. CASE InsertRow(q)
    <2>1. TreasuryTypeOK'
      BY <1>a, <1>1, LedgerTyping DEF InsertRow
    <2>2. redemptions' \in [Key -> RedemptionRows]
      BY <1>b, <1>1, WriteBackTyping DEF InsertRow
    <2> QED
      BY <1>b, <1>1, <2>1, <2>2, MoveTyping DEF InsertRow, RedemptionTypeOK
  <1>2. CASE InsertConflict(q)
    <2>1. TreasuryTypeOK'
      BY <1>a, <1>2, LedgerTyping DEF InsertConflict
    <2> QED
      BY <1>b, <1>2, <2>1, DoneTyping DEF InsertConflict, RedemptionTypeOK
  <1>3. CASE EscrowConfirmed(q)
    <2>1. TreasuryTypeOK'
      BY <1>a, <1>c, <1>3, LedgerTyping DEF EscrowConfirmed
    <2>2. [job[q] EXCEPT !.state = "escrowed", !.at = now] \in Copies
      BY <1>a, <1>c, <1>3 DEF EscrowConfirmed, Copies, TreasuryTypeOK
    <2>3. job' = [job EXCEPT ![q] = [job[q] EXCEPT !.state = "escrowed", !.at = now]]
      BY <1>3 DEF EscrowConfirmed
    <2> QED
      BY <1>b, <1>3, <2>1, <2>2, <2>3, MoveTyping DEF EscrowConfirmed, RedemptionTypeOK
  <1>4. CASE EscrowRefused(q)
    <2>1. TreasuryTypeOK'
      BY <1>a, <1>4, LedgerTyping DEF EscrowRefused, LedgerEscrowRefused
    <2> QED
      BY <1>b, <1>4, <2>1, DoneTyping DEF EscrowRefused, RedemptionTypeOK
  <1>5. CASE EscrowSubmitted(q)
    <2>1. TreasuryTypeOK'
      BY <1>a, <1>5, LedgerTyping DEF EscrowSubmitted
    <2>2. late' \subseteq [op: {"escrow", "burn", "reclaim"}, key: Key]
      BY <1>c, <1>5 DEF EscrowSubmitted, RedemptionTypeOK
    <2> QED
      BY <1>b, <1>5, <2>1, <2>2, AdvanceTyping DEF EscrowSubmitted, RedemptionTypeOK
  <1>6. CASE EscrowFailed(q)
    <2>1. TreasuryTypeOK'
      BY <1>a, <1>6, LedgerTyping DEF EscrowFailed
    <2> QED
      BY <1>b, <1>6, <2>1, AdvanceTyping, DoneTyping DEF EscrowFailed, RedemptionTypeOK
  <1>7. CASE SaveEscrow(q)
    <2>1. TreasuryTypeOK'
      BY <1>a, <1>7, LedgerTyping DEF SaveEscrow
    <2>2. PICK t \in job[q].at .. now :
            redemptions' = [redemptions EXCEPT ![job[q].key] =
                              [state |-> job[q].state, amount |-> job[q].amount, at |-> t]]
      BY <1>7 DEF SaveEscrow
    <2>3. t \in Nat
      BY <1>a, <1>c, <1>7 DEF SaveEscrow, Copies, TreasuryTypeOK
    <2>4. [state |-> job[q].state, amount |-> job[q].amount, at |-> t] \in RedemptionRows
      BY <1>c, <1>7, <2>3 DEF SaveEscrow, RedemptionRows, Copies
    <2>5. redemptions' \in [Key -> RedemptionRows]
      BY <2>2, <2>4 DEF RedemptionTypeOK
    <2> QED
      BY <1>b, <1>7, <2>1, <2>5, DoneTyping DEF SaveEscrow, RedemptionTypeOK
  <1> QED
    BY <1>1, <1>2, <1>3, <1>4, <1>5, <1>6, <1>7 DEF Request

\* What an operator's step leaves well typed.
LEMMA OperateTyping ==
  ASSUME RedemptionTypeOK, NEW o \in Operators, Operate(o)
  PROVE  RedemptionTypeOK'
  <1> USE DEF Places, RedemptionStates
  <1>a. TreasuryTypeOK
    BY DEF RedemptionTypeOK
  <1>b. o \in Procs
    BY DEF Procs
  <1>c. pc[o] # "idle" => job[o] \in Copies /\ job[o].key \in Key /\ job[o].amount \in Nat
    BY <1>b DEF RedemptionTypeOK, Copies
  <1>1. CASE SavePayout(o)
    <2>1. TreasuryTypeOK'
      BY <1>a, <1>1, LedgerTyping DEF SavePayout
    <2>2. redemptions' \in [Key -> RedemptionRows]
      BY <1>b, <1>1, WriteBackTyping DEF SavePayout
    <2> QED
      BY <1>b, <1>1, <2>1, <2>2, MoveTyping DEF SavePayout, RedemptionTypeOK
  <1>2. CASE Enqueue(o)
    <2>1. TreasuryTypeOK'
      BY <1>a, <1>2, LedgerTyping DEF Enqueue
    <2>2. payouts' \subseteq Key \X Nat
      BY <1>c, <1>2 DEF Enqueue, RedemptionTypeOK
    <2> QED
      BY <1>b, <1>2, <2>1, <2>2, DoneTyping DEF Enqueue, RedemptionTypeOK
  <1>3. CASE EnqueueRefused(o)
    <2>1. TreasuryTypeOK'
      BY <1>a, <1>3, LedgerTyping DEF EnqueueRefused
    <2> QED
      BY <1>b, <1>3, <2>1, DoneTyping DEF EnqueueRefused, RedemptionTypeOK
  <1>4. CASE BurnConfirmed(o)
    <2>1. TreasuryTypeOK'
      BY <1>a, <1>c, <1>4, LedgerTyping DEF BurnConfirmed
    <2> QED
      BY <1>b, <1>4, <2>1, AdvanceTyping, DoneTyping DEF BurnConfirmed, RedemptionTypeOK
  <1>5. CASE BurnRefused(o)
    <2>1. TreasuryTypeOK'
      BY <1>a, <1>5, LedgerTyping DEF BurnRefused, LedgerBurnRefused
    <2> QED
      BY <1>b, <1>5, <2>1, DoneTyping DEF BurnRefused, RedemptionTypeOK
  <1>6. CASE BurnUnanswered(o)
    <2>1. TreasuryTypeOK'
      BY <1>a, <1>6, LedgerTyping DEF BurnUnanswered
    <2>2. late' \subseteq [op: {"escrow", "burn", "reclaim"}, key: Key]
      BY <1>c, <1>6 DEF BurnUnanswered, RedemptionTypeOK
    <2> QED
      BY <1>b, <1>6, <2>1, <2>2, DoneTyping DEF BurnUnanswered, RedemptionTypeOK
  <1>7. CASE SaveConfirm(o)
    <2>1. TreasuryTypeOK'
      BY <1>a, <1>7, LedgerTyping DEF SaveConfirm
    <2>2. redemptions' \in [Key -> RedemptionRows]
      BY <1>b, <1>7, WriteBackTyping DEF SaveConfirm
    <2> QED
      BY <1>b, <1>7, <2>1, <2>2, DoneTyping DEF SaveConfirm, RedemptionTypeOK
  <1> QED
    BY <1>1, <1>2, <1>3, <1>4, <1>5, <1>6, <1>7 DEF Operate

\* What a holder's step leaves well typed.
LEMMA ReclaimTyping ==
  ASSUME RedemptionTypeOK, NEW h \in Holders, Reclaim(h)
  PROVE  RedemptionTypeOK'
  <1> USE DEF Places, RedemptionStates
  <1>a. TreasuryTypeOK
    BY DEF RedemptionTypeOK
  <1>b. h \in Procs
    BY DEF Procs
  <1>c. pc[h] # "idle" => job[h] \in Copies /\ job[h].key \in Key
    BY <1>b DEF RedemptionTypeOK, Copies
  <1>1. CASE ReclaimConfirmed(h)
    <2>1. TreasuryTypeOK'
      BY <1>a, <1>c, <1>1, LedgerTyping DEF ReclaimConfirmed
    <2> QED
      BY <1>b, <1>1, <2>1, AdvanceTyping DEF ReclaimConfirmed, RedemptionTypeOK
  <1>2. CASE ReclaimRefused(h)
    <2>1. TreasuryTypeOK'
      BY <1>a, <1>2, LedgerTyping DEF ReclaimRefused, LedgerReclaimRefused
    <2> QED
      BY <1>b, <1>2, <2>1, DoneTyping DEF ReclaimRefused, RedemptionTypeOK
  <1>3. CASE ReclaimUnanswered(h)
    <2>1. TreasuryTypeOK'
      BY <1>a, <1>3, LedgerTyping DEF ReclaimUnanswered
    <2>2. late' \subseteq [op: {"escrow", "burn", "reclaim"}, key: Key]
      BY <1>c, <1>3 DEF ReclaimUnanswered, RedemptionTypeOK
    <2> QED
      BY <1>b, <1>3, <2>1, <2>2, DoneTyping DEF ReclaimUnanswered, RedemptionTypeOK
  <1>4. CASE SaveReclaim(h)
    <2>1. TreasuryTypeOK'
      BY <1>a, <1>4, LedgerTyping DEF SaveReclaim
    <2>2. redemptions' \in [Key -> RedemptionRows]
      BY <1>b, <1>4, WriteBackTyping DEF SaveReclaim
    <2> QED
      BY <1>b, <1>4, <2>1, <2>2, DoneTyping DEF SaveReclaim, RedemptionTypeOK
  <1> QED
    BY <1>1, <1>2, <1>3, <1>4 DEF Reclaim

\* Every step leaves the state well typed.
LEMMA StepTyping == RedemptionTypeOK /\ [RedemptionNext]_redemptionVars => RedemptionTypeOK'
  <1> SUFFICES ASSUME RedemptionTypeOK, [RedemptionNext]_redemptionVars
               PROVE  RedemptionTypeOK'
    OBVIOUS
  <1> USE DEF Places, RedemptionStates
  <1>a. TreasuryTypeOK
    BY DEF RedemptionTypeOK
  <1>b. /\ \A q \in Requesters : q \in Procs
        /\ \A o \in Operators : o \in Procs
        /\ \A h \in Holders : h \in Procs
    BY DEF Procs
  <1>1. ASSUME NEW q \in Requesters, NEW u \in Account, NEW a \in Amounts, ReadSeq(q, u, a)
        PROVE  RedemptionTypeOK'
    <2>1. TreasuryTypeOK'
      BY <1>a, <1>1, LedgerTyping DEF ReadSeq
    <2>2. <<u, NextSeq(u)>> \in Key
      BY <1>1 DEF ReadSeq, Key
    <2>3. [key |-> <<u, NextSeq(u)>>, state |-> "requested", amount |-> a, at |-> 0] \in Copies
      BY <2>2, TreasuryAssumption DEF Copies
    <2> HIDE DEF NextSeq
    <2> QED
      BY <1>b, <1>1, <2>1, <2>3, MoveTyping DEF ReadSeq, RedemptionTypeOK
  <1>2. ASSUME NEW o \in Operators, NEW k \in Key, StartPayout(o, k)
        PROVE  RedemptionTypeOK'
    <2>1. TreasuryTypeOK'
      BY <1>a, <1>2, LedgerTyping DEF StartPayout
    <2> QED
      BY <1>b, <1>2, <2>1, TakeTyping DEF StartPayout, RedemptionTypeOK
  <1>3. ASSUME NEW o \in Operators, NEW k \in Key, StartConfirm(o, k)
        PROVE  RedemptionTypeOK'
    <2>1. TreasuryTypeOK'
      BY <1>a, <1>3, LedgerTyping DEF StartConfirm
    <2>2. Row(k) \in RedemptionStates
      BY DEF Row, RedemptionTypeOK, RedemptionRows
    <2> QED
      BY <1>b, <1>3, <2>1, <2>2, TakeTyping DEF StartConfirm, RedemptionTypeOK
  <1>4. ASSUME NEW h \in Holders, NEW k \in Key, StartReclaim(h, k)
        PROVE  RedemptionTypeOK'
    <2>1. TreasuryTypeOK'
      BY <1>a, <1>4, LedgerTyping DEF StartReclaim
    <2> QED
      BY <1>b, <1>4, <2>1, TakeTyping DEF StartReclaim, RedemptionTypeOK
  <1>5. ASSUME NEW l \in late, Land(l)
        PROVE  RedemptionTypeOK'
    <2>1. l.key \in Key /\ redemptions[l.key].amount \in Nat
      BY DEF RedemptionTypeOK, RedemptionRows
    <2>2. TreasuryTypeOK'
      BY <1>a, <1>5, <2>1, LedgerTyping DEF Land
    <2> QED
      BY <1>5, <2>2 DEF Land, RedemptionTypeOK
  <1>6. ASSUME NEW p \in Procs, DropCall(p)
        PROVE  RedemptionTypeOK'
    <2>1. TreasuryTypeOK'
      BY <1>a, <1>6, LedgerTyping DEF DropCall
    <2> QED
      BY <1>6, <2>1, DoneTyping DEF DropCall, RedemptionTypeOK
  <1>7. CASE OnRamp
    <2>1. TreasuryTypeOK'
      BY <1>a, <1>7, LedgerTyping, TreasuryAssumption DEF OnRamp
    <2> QED
      BY <1>7, <2>1 DEF OnRamp, RedemptionTypeOK
  <1>8. CASE Elapse
    BY <1>a, <1>8, LedgerTyping DEF Elapse, RedemptionTypeOK
  <1>9. CASE UNCHANGED redemptionVars
    BY <1>a, <1>9, LedgerTyping DEF redemptionVars, RedemptionTypeOK
  <1> QED
    BY <1>1, <1>2, <1>3, <1>4, <1>5, <1>6, <1>7, <1>8, <1>9,
       RequestTyping, OperateTyping, ReclaimTyping DEF RedemptionNext, OffRampNext

\* Every reachable state of the off-ramp is well typed: no copy, row or balance
\* goes outside its range, whatever overtakes what.
THEOREM RedemptionTyping == RedemptionSpec => []RedemptionTypeOK
  <1>1. RedemptionInit => RedemptionTypeOK
    BY InitTyping
  <1>2. RedemptionTypeOK /\ [RedemptionNext]_redemptionVars => RedemptionTypeOK'
    BY StepTyping
  <1> QED
    BY <1>1, <1>2, PTL DEF RedemptionSpec

-----------------------------------------------------------------------------
\* The inductive invariant.

\* What RedemptionInv says of one redemption's row, escrow record and late calls.
KeyInv(k) ==
  /\ Row(k) = "confirmed" => escrows[k].status = "burned"
  /\ Row(k) \in {"none", "failed", "reclaimed"} => escrows[k].status = "none"
  /\ escrows[k].status # "none" => escrows[k].amount = redemptions[k].amount
  /\ LateCall("escrow", k) => Row(k) = "requested"
  /\ LateCall("reclaim", k) => Row(k) \in PostEscrow /\ now - redemptions[k].at >= Delta
  /\ Row(k) \in PostEscrow /\ escrows[k].status = "held" => escrows[k].at <= redemptions[k].at

\* What every step preserves of a redemption, which a process suspended with a
\* copy of it may rely on.
KeyStep(k) ==
  /\ Row(k) # "none" => Row(k)' # "none" /\ redemptions'[k].amount = redemptions[k].amount
  /\ Row(k) \in PostEscrow => Row(k)' \in PostEscrow /\ redemptions'[k].at = redemptions[k].at
  /\ escrows[k].status = "burned" => escrows'[k].status = "burned"
  /\ escrows[k].status = "none" /\ Row(k) \in PostEscrow => escrows'[k].status = "none"
  /\ escrows[k].status \in {"held", "burned"} /\ Row(k) = "requested"
       => escrows'[k].status \in {"held", "burned"} /\ escrows'[k].at = escrows[k].at

\* A step about another redemption.
Quiet(k) ==
  /\ redemptions'[k] = redemptions[k]
  /\ escrows'[k] = escrows[k]
  /\ \A op \in {"escrow", "burn", "reclaim"} : LateCall(op, k)' => LateCall(op, k)

\* What a requester between its insert and its second write relies on besides.
Calm(k) ==
  /\ Row(k)' = Row(k)
  /\ ~LateCall("escrow", k) =>
       /\ ~LateCall("escrow", k)'
       /\ escrows[k].status = "none" => escrows'[k].status = "none"

Clocks == now' >= now /\ ledgerNow' <= now'

\* What is said of a redemption survives a step about another.
LEMMA QuietKey ==
  ASSUME NEW k \in Key, KeyInv(k), Quiet(k), RedemptionTypeOK, RedemptionTypeOK', Clocks
  PROVE  KeyStep(k) /\ KeyInv(k)' /\ Calm(k)
  <1>1. /\ now \in Nat /\ now' \in Nat /\ now <= now' /\ Delta \in Nat
        /\ redemptions[k].at \in Nat
    BY RedemptionAssumption
       DEF RedemptionTypeOK, TreasuryTypeOK, RedemptionRows, Clocks
  <1>2. now - redemptions[k].at >= Delta => now' - redemptions[k].at >= Delta
    BY <1>1
  <1>3. /\ Row(k)' = Row(k)
        /\ LateCall("escrow", k)' => LateCall("escrow", k)
        /\ LateCall("reclaim", k)' => LateCall("reclaim", k)
    BY DEF Quiet, Row
  <1>4. redemptions'[k] = redemptions[k] /\ escrows'[k] = escrows[k]
    BY DEF Quiet
  <1> QED
    BY <1>2, <1>3, <1>4 DEF KeyInv, KeyStep, Calm

\* A process that does not move keeps what it relies on.
LEMMA BystanderHolds ==
  ASSUME RedemptionTypeOK, RedemptionTypeOK', Clocks,
         NEW q \in Procs, HoldsRedemption(q),
         pc'[q] = pc[q], job'[q] = job[q],
         \A k \in Key : KeyStep(k),
         \A k \in Key : AtEscrow(q) /\ job[q].key = k => Calm(k)
  PROVE  HoldsRedemption(q)'
  <1>1. CASE pc[q] = "idle"
    BY <1>1 DEF HoldsRedemption, AtEscrow, Carries
  <1>2. CASE pc[q] # "idle"
    <2>1. PICK k \in Key : k = job[q].key
      BY <1>2 DEF RedemptionTypeOK, Copies
    <2>2. job'[q].key = k /\ KeyStep(k) /\ (AtEscrow(q) => Calm(k))
      BY <2>1
    <2>3. /\ now \in Nat /\ now' \in Nat /\ now <= now' /\ Delta \in Nat
          /\ job[q].at \in Nat
      BY <1>2, RedemptionAssumption DEF RedemptionTypeOK, TreasuryTypeOK, Copies, Clocks
    <2>4. now - job[q].at >= Delta => now' - job[q].at >= Delta
      BY <2>3
    <2>5. AtEscrow(q)' = AtEscrow(q) /\ Carries(q)' = Carries(q)
      BY DEF AtEscrow, Carries
    <2>6. AtEscrow(q) => Row(k)' = "requested"
      BY <2>1, <2>2 DEF HoldsRedemption, Calm
    <2>7. /\ pc[q] \notin {"idle", "insert"}
               => Row(k)' # "none" /\ redemptions'[k].amount = job[q].amount
          /\ Carries(q) => Row(k)' \in PostEscrow /\ redemptions'[k].at = job[q].at
      BY <2>1, <2>2 DEF HoldsRedemption, KeyStep
    <2>8. pc[q] = "escrow" => escrows'[k].status = "none" /\ ~LateCall("escrow", k)'
      BY <2>1, <2>2 DEF HoldsRedemption, Calm, AtEscrow
    <2>9. pc[q] = "saveEscrow" =>
            /\ job[q].state \in {"requested", "escrowed", "failed"}
            /\ job[q].state # "requested" => ~LateCall("escrow", k)'
            /\ job[q].state = "escrowed" => /\ escrows'[k].status \in {"held", "burned"}
                                           /\ escrows'[k].at <= job[q].at
            /\ job[q].state = "failed" => escrows'[k].status = "none"
      BY <2>1, <2>2 DEF HoldsRedemption, Calm, KeyStep, AtEscrow
    <2>10. /\ pc[q] = "saveConfirm" => escrows'[k].status = "burned"
           /\ pc[q] = "saveReclaim" => escrows'[k].status = "none"
      BY <2>1, <2>2 DEF HoldsRedemption, KeyStep, Carries
    <2> QED
      BY <2>1, <2>4, <2>5, <2>6, <2>7, <2>8, <2>9, <2>10 DEF HoldsRedemption
  <1> QED
    BY <1>1, <1>2

\* The wires stay with their redemptions.
LEMMA WiresStay ==
  ASSUME RedemptionTypeOK, RedemptionTypeOK', WireFollowsEscrow,
         payouts' = payouts, \A k \in Key : KeyStep(k)
  PROVE  WireFollowsEscrow'
  <1> SUFFICES ASSUME NEW w \in payouts
               PROVE  /\ Row(w[1])' \notin {"none", "requested", "failed"}
                      /\ w[2] = redemptions'[w[1]].amount
                      /\ \A v \in payouts : v[1] = w[1] => v = w
    BY DEF WireFollowsEscrow, Row
  <1>1. PICK k \in Key : k = w[1]
    BY DEF RedemptionTypeOK
  <1>2. Row(k) \notin {"none", "requested", "failed"} /\ w[2] = redemptions[k].amount
    BY <1>1 DEF WireFollowsEscrow, Row
  <1>3. Row(k) \in PostEscrow
    BY <1>2 DEF RedemptionTypeOK, RedemptionRows, RedemptionStates, Row, PostEscrow
  <1>4. Row(k)' \in PostEscrow /\ redemptions'[k].amount = redemptions[k].amount
    BY <1>2, <1>3 DEF KeyStep
  <1>5. \A v \in payouts : v[1] = w[1] => v = w
    BY DEF WireFollowsEscrow
  <1> QED
    BY <1>1, <1>2, <1>4, <1>5 DEF Row, PostEscrow

\* No step but an insert brings a requester to the ledger.
LEMMA OneRequesterStays ==
  ASSUME OneRequester,
         \A q \in Procs : AtEscrow(q)' => AtEscrow(q) /\ job'[q].key = job[q].key
  PROVE  OneRequester'
  BY DEF OneRequester

\* A step is quiet about a redemption or preserves what is said of it.
LEMMA Assemble ==
  ASSUME RedemptionInv, RedemptionTypeOK', Clocks,
         \A k \in Key : Quiet(k) \/ (KeyStep(k) /\ KeyInv(k)'),
         \A q \in Procs :
           \/ HoldsRedemption(q)'
           \/ /\ pc'[q] = pc[q]
              /\ job'[q] = job[q]
              /\ \A k \in Key : AtEscrow(q) /\ job[q].key = k => Quiet(k) \/ Calm(k),
         OneRequester',
         WireFollowsEscrow' \/ payouts' = payouts
  PROVE  RedemptionInv'
  <1>1. \A k \in Key : KeyInv(k)
    BY DEF RedemptionInv, RowsMatchEscrows, LateCallsAgree, StampsAgree, KeyInv
  <1>2. RedemptionTypeOK
    BY DEF RedemptionInv
  <1>3. \A k \in Key : Quiet(k) => KeyStep(k) /\ KeyInv(k)' /\ Calm(k)
    BY <1>1, <1>2, QuietKey
  <1>4. \A k \in Key : KeyStep(k) /\ KeyInv(k)'
    BY <1>3
  <1>5. ASSUME NEW q \in Procs PROVE HoldsRedemption(q)'
    <2>1. CASE HoldsRedemption(q)'
      BY <2>1
    <2>2. CASE /\ pc'[q] = pc[q]
               /\ job'[q] = job[q]
               /\ \A k \in Key : AtEscrow(q) /\ job[q].key = k => Quiet(k) \/ Calm(k)
      <3>1. \A k \in Key : AtEscrow(q) /\ job[q].key = k => Calm(k)
        BY <1>3, <2>2
      <3>2. HoldsRedemption(q)
        BY DEF RedemptionInv
      <3> QED
        BY <1>2, <1>4, <2>2, <3>1, <3>2, BystanderHolds
    <2> QED
      BY <2>1, <2>2
  <1>6. WireFollowsEscrow'
    BY <1>2, <1>4, WiresStay DEF RedemptionInv
  <1>7. RowsMatchEscrows' /\ LateCallsAgree' /\ StampsAgree'
    BY <1>4 DEF KeyInv, RowsMatchEscrows, LateCallsAgree, StampsAgree, Clocks
  <1> QED
    BY <1>5, <1>6, <1>7 DEF RedemptionInv

-----------------------------------------------------------------------------
\* The shapes a step takes.

Others(p) == \A q \in Procs : q # p => pc'[q] = pc[q] /\ job'[q] = job[q]

\* Done and Advance move one process; the others are where they were.
LEMMA DoneFrame ==
  ASSUME RedemptionInv, NEW p \in Procs, Done(p)
  PROVE  Others(p) /\ HoldsRedemption(p)' /\ OneRequester'
  <1>1. RedemptionTypeOK /\ OneRequester
    BY DEF RedemptionInv
  <1>2. pc'[p] = "idle" /\ Others(p)
    BY <1>1 DEF Done, Others, RedemptionTypeOK
  <1>3. HoldsRedemption(p)'
    BY <1>2 DEF HoldsRedemption, AtEscrow, Carries
  <1>4. OneRequester'
    BY <1>1, <1>2, OneRequesterStays DEF Others, AtEscrow
  <1> QED
    BY <1>2, <1>3, <1>4

\* A process that moves on leaves the others where they are, and its copy but for the state.
LEMMA AdvanceFrame ==
  ASSUME RedemptionInv, NEW p \in Procs, pc[p] # "idle", NEW st, NEW place, Advance(p, st, place)
  PROVE  /\ Others(p)
         /\ pc'[p] = place
         /\ job'[p].state = st
         /\ job'[p].key = job[p].key
         /\ job'[p].amount = job[p].amount
         /\ job'[p].at = job[p].at
  <1>1. RedemptionTypeOK
    BY DEF RedemptionInv
  <1>2. job[p] \in Copies /\ job \in [Procs -> Copies \cup {NoCopy}] /\ pc \in [Procs -> Places]
    BY <1>1 DEF RedemptionTypeOK
  <1>3. /\ job' = [job EXCEPT ![p] = [job[p] EXCEPT !.state = st]]
        /\ pc' = [pc EXCEPT ![p] = place]
    BY DEF Advance
  <1>4. Others(p) /\ pc'[p] = place /\ job'[p] = [job[p] EXCEPT !.state = st]
    BY <1>2, <1>3 DEF Others
  <1> QED
    BY <1>2, <1>4 DEF Copies

\* The clocks where a step does not move them.
LEMMA ClocksStay ==
  ASSUME RedemptionInv, now' = now, ledgerNow' = ledgerNow
  PROVE  Clocks
  BY DEF RedemptionInv, StampsAgree, Clocks, RedemptionTypeOK, TreasuryTypeOK

\* A step that touches no row, no escrow record and no late call.
LEMMA QuietStep ==
  ASSUME RedemptionInv, RedemptionTypeOK', Clocks,
         redemptions' = redemptions, escrows' = escrows, late' = late,
         \A q \in Procs : HoldsRedemption(q)' \/ (pc'[q] = pc[q] /\ job'[q] = job[q]),
         OneRequester',
         WireFollowsEscrow' \/ payouts' = payouts
  PROVE  RedemptionInv'
  <1>1. \A k \in Key : Quiet(k)
    BY DEF Quiet, LateCall
  <1> QED
    BY <1>1, Assemble

\* A step of one process about one redemption.
LEMMA OneKeyStep ==
  ASSUME RedemptionInv, RedemptionTypeOK', now' = now, ledgerNow' = ledgerNow,
         NEW p \in Procs, Others(p), HoldsRedemption(p)', OneRequester',
         payouts' = payouts,
         NEW k \in Key, KeyStep(k), KeyInv(k)',
         \A j \in Key : j # k => Quiet(j),
         \A q \in Procs : q # p /\ AtEscrow(q) /\ job[q].key = k => Calm(k)
  PROVE  RedemptionInv'
  <1>1. Clocks
    BY ClocksStay
  <1>2. \A j \in Key : Quiet(j) \/ (KeyStep(j) /\ KeyInv(j)')
    OBVIOUS
  <1>3. \A q \in Procs :
           \/ HoldsRedemption(q)'
           \/ /\ pc'[q] = pc[q]
              /\ job'[q] = job[q]
              /\ \A j \in Key : AtEscrow(q) /\ job[q].key = j => Quiet(j) \/ Calm(j)
    BY DEF Others
  <1> QED
    BY <1>1, <1>2, <1>3, Assemble

-----------------------------------------------------------------------------
\* What each writer does to the redemption it names.

\* The copy a process holds, and what the invariant says of it.
LEMMA Holding ==
  ASSUME RedemptionInv, NEW p \in Procs, pc[p] # "idle"
  PROVE  \E k \in Key :
           /\ k = job[p].key
           /\ KeyInv(k)
           /\ job[p].amount \in Nat /\ job[p].at \in Nat
           /\ Row(k) \in RedemptionStates
           /\ HoldsRedemption(p)
  <1>1. \A k \in Key : KeyInv(k)
    BY DEF RedemptionInv, RowsMatchEscrows, LateCallsAgree, StampsAgree, KeyInv
  <1>2. HoldsRedemption(p) /\ RedemptionTypeOK
    BY DEF RedemptionInv
  <1>3. job[p] \in Copies
    BY <1>2 DEF RedemptionTypeOK
  <1>4. job[p].key \in Key /\ job[p].amount \in Nat /\ job[p].at \in Nat
    BY <1>3 DEF Copies
  <1>5. \A k \in Key : Row(k) \in RedemptionStates
    BY <1>2 DEF RedemptionTypeOK, RedemptionRows, Row
  <1> QED
    BY <1>1, <1>2, <1>4, <1>5

\* Only one requester is between the insert and the second write of a redemption,
\* and none is once it is past its escrow or before its insert.
LEMMA NoOtherRequester ==
  ASSUME RedemptionInv, NEW p \in Procs, NEW k \in Key, k = job[p].key,
         AtEscrow(p) \/ Row(k) # "requested"
  PROVE  \A q \in Procs : ~(q # p /\ AtEscrow(q) /\ job[q].key = k)
  <1> SUFFICES ASSUME NEW q \in Procs, q # p, AtEscrow(q), job[q].key = k
               PROVE  FALSE
    OBVIOUS
  <1>1. Row(k) = "requested"
    BY DEF RedemptionInv, HoldsRedemption
  <1> QED
    BY <1>1 DEF RedemptionInv, OneRequester

\* The row appears, Requested, under a key nobody else has.
LEMMA InsertStep ==
  ASSUME RedemptionInv, RedemptionTypeOK', NEW q \in Procs, InsertRow(q)
  PROVE  RedemptionInv'
  <1>a. pc[q] = "insert" /\ RedemptionTypeOK
    BY DEF InsertRow, RedemptionInv
  <1>b. PICK k \in Key :
           /\ k = job[q].key
           /\ KeyInv(k)
           /\ job[q].amount \in Nat /\ job[q].at \in Nat
           /\ Row(k) \in RedemptionStates
           /\ HoldsRedemption(q)
    BY <1>a, Holding
  <1>c. /\ Row(k) = "none"
        /\ redemptions' = [redemptions EXCEPT ![k] = [state |-> job[q].state,
                             amount |-> job[q].amount, at |-> job[q].at]]
        /\ pc' = [pc EXCEPT ![q] = "escrow"]
        /\ job' = job /\ payouts' = payouts /\ late' = late
        /\ now' = now /\ ledgerNow' = ledgerNow /\ escrows' = escrows
    BY <1>b DEF InsertRow, WriteBack, treasuryVars, clockVars, ledgerVars
  <1>d. job[q].state = "requested"
    BY <1>a, <1>b DEF HoldsRedemption
  <1>1. /\ redemptions'[k].state = "requested" /\ redemptions'[k].amount = job[q].amount
        /\ \A j \in Key : j # k => redemptions'[j] = redemptions[j]
    BY <1>a, <1>c, <1>d DEF RedemptionTypeOK
  <1>2. \A op : LateCall(op, k)' <=> LateCall(op, k)
    BY <1>c DEF LateCall
  <1>3. escrows[k].status = "none" /\ ~LateCall("escrow", k) /\ ~LateCall("reclaim", k)
    BY <1>b, <1>c DEF KeyInv, PostEscrow
  <1>4. KeyStep(k) /\ KeyInv(k)'
    BY <1>c, <1>1, <1>2, <1>3 DEF KeyStep, KeyInv, Row, PostEscrow
  <1>5. \A j \in Key : j # k => Quiet(j)
    BY <1>c, <1>1 DEF Quiet, LateCall
  <1>6. Others(q) /\ pc'[q] = "escrow" /\ job'[q].key = k
    BY <1>a, <1>b, <1>c DEF Others, RedemptionTypeOK
  <1>7. HoldsRedemption(q)'
    BY <1>b, <1>c, <1>1, <1>2, <1>3, <1>6 DEF HoldsRedemption, AtEscrow, Carries, Row
  <1>8. \A p \in Procs : ~(p # q /\ AtEscrow(p) /\ job[p].key = k)
    BY <1>b, <1>c, NoOtherRequester
  <1>9. OneRequester'
    <2> SUFFICES ASSUME NEW p \in Procs, NEW r \in Procs,
                        AtEscrow(p)', AtEscrow(r)', job'[p].key = job'[r].key, p # r
                 PROVE  FALSE
      BY DEF OneRequester
    <2>1. \A s \in Procs : s # q => AtEscrow(s)' = AtEscrow(s) /\ job'[s].key = job[s].key
      BY <1>6 DEF Others, AtEscrow
    <2> QED
      BY <1>6, <1>8, <2>1 DEF RedemptionInv, OneRequester
  <1> HIDE DEF Others
  <1> QED
    BY <1>c, <1>4, <1>5, <1>6, <1>7, <1>8, <1>9, OneKeyStep

\* The ledger's record appears under a row that is still Requested.
LEMMA EscrowStep ==
  ASSUME RedemptionInv, RedemptionTypeOK', NEW q \in Procs, EscrowConfirmed(q)
  PROVE  RedemptionInv'
  <1>a. pc[q] = "escrow" /\ RedemptionTypeOK
    BY DEF EscrowConfirmed, RedemptionInv
  <1>b. PICK k \in Key :
           /\ k = job[q].key
           /\ KeyInv(k)
           /\ job[q].amount \in Nat /\ job[q].at \in Nat
           /\ Row(k) \in RedemptionStates
           /\ HoldsRedemption(q)
    BY <1>a, Holding
  <1>c. /\ escrows' = [escrows EXCEPT ![k] = [status |-> "held", amount |-> job[q].amount,
                                            at |-> ledgerNow]]
        /\ escrows[k].status = "none"
        /\ job' = [job EXCEPT ![q] = [job[q] EXCEPT !.state = "escrowed", !.at = now]]
        /\ pc' = [pc EXCEPT ![q] = "saveEscrow"]
        /\ redemptions' = redemptions /\ payouts' = payouts /\ late' = late
        /\ now' = now /\ ledgerNow' = ledgerNow
    BY <1>b DEF EscrowConfirmed, LedgerEscrow, clockVars
  <1>1. /\ escrows'[k].status = "held" /\ escrows'[k].amount = job[q].amount
        /\ escrows'[k].at = ledgerNow
        /\ \A j \in Key : j # k => escrows'[j] = escrows[j]
    BY <1>a, <1>c DEF RedemptionTypeOK, TreasuryTypeOK
  <1>2. \A op : LateCall(op, k)' <=> LateCall(op, k)
    BY <1>c DEF LateCall
  <1>3. /\ Row(k) = "requested" /\ ~LateCall("escrow", k)
        /\ redemptions[k].amount = job[q].amount
    BY <1>a, <1>b DEF HoldsRedemption, AtEscrow
  <1>4. KeyStep(k) /\ KeyInv(k)'
    BY <1>b, <1>c, <1>1, <1>2, <1>3 DEF KeyStep, KeyInv, Row, PostEscrow
  <1>5. \A j \in Key : j # k => Quiet(j)
    BY <1>c, <1>1 DEF Quiet, LateCall
  <1>6. /\ Others(q) /\ pc'[q] = "saveEscrow"
        /\ job'[q] = [job[q] EXCEPT !.state = "escrowed", !.at = now]
    BY <1>a, <1>b, <1>c DEF Others, RedemptionTypeOK
  <1>7. job'[q].key = k /\ job'[q].state = "escrowed" /\ job'[q].amount = job[q].amount
        /\ job'[q].at = now
    BY <1>a, <1>b, <1>6 DEF RedemptionTypeOK, Copies
  <1>8. ledgerNow <= now
    BY DEF RedemptionInv, StampsAgree
  <1>9. HoldsRedemption(q)'
    BY <1>b, <1>c, <1>1, <1>2, <1>3, <1>6, <1>7, <1>8
       DEF HoldsRedemption, AtEscrow, Carries, Row
  <1>10. \A p \in Procs : ~(p # q /\ AtEscrow(p) /\ job[p].key = k)
    BY <1>a, <1>b, NoOtherRequester DEF AtEscrow
  <1>11. OneRequester'
    BY <1>a, <1>b, <1>6, <1>7, OneRequesterStays DEF Others, AtEscrow, RedemptionInv
  <1> HIDE DEF Others
  <1> QED
    BY <1>c, <1>4, <1>5, <1>6, <1>9, <1>10, <1>11, OneKeyStep

\* Submitted: the row stays Requested, and the escrow may still land.
LEMMA SubmitStep ==
  ASSUME RedemptionInv, RedemptionTypeOK', NEW q \in Procs, EscrowSubmitted(q)
  PROVE  RedemptionInv'
  <1>a. pc[q] = "escrow" /\ RedemptionTypeOK
    BY DEF EscrowSubmitted, RedemptionInv
  <1>b. PICK k \in Key :
           /\ k = job[q].key
           /\ KeyInv(k)
           /\ job[q].amount \in Nat /\ job[q].at \in Nat
           /\ Row(k) \in RedemptionStates
           /\ HoldsRedemption(q)
    BY <1>a, Holding
  <1>c. /\ late' = late \cup {[op |-> "escrow", key |-> k]}
        /\ redemptions' = redemptions /\ payouts' = payouts /\ escrows' = escrows
        /\ now' = now /\ ledgerNow' = ledgerNow
    BY <1>b DEF EscrowSubmitted, treasuryVars, clockVars, ledgerVars
  <1>1. /\ Others(q) /\ pc'[q] = "saveEscrow"
        /\ job'[q].state = "requested" /\ job'[q].key = k /\ job'[q].amount = job[q].amount
    BY <1>a, <1>b, AdvanceFrame DEF EscrowSubmitted
  <1>2. LateCall("reclaim", k)' => LateCall("reclaim", k)
    BY <1>c DEF LateCall
  <1>3. Row(k) = "requested" /\ redemptions[k].amount = job[q].amount
    BY <1>a, <1>b DEF HoldsRedemption, AtEscrow
  <1>4. KeyStep(k) /\ KeyInv(k)'
    BY <1>b, <1>c, <1>2, <1>3 DEF KeyStep, KeyInv, Row, PostEscrow
  <1>5. \A j \in Key : j # k => Quiet(j)
    BY <1>c DEF Quiet, LateCall
  <1>6. HoldsRedemption(q)'
    BY <1>c, <1>1, <1>3 DEF HoldsRedemption, AtEscrow, Carries, Row
  <1>7. \A p \in Procs : ~(p # q /\ AtEscrow(p) /\ job[p].key = k)
    BY <1>a, <1>b, NoOtherRequester DEF AtEscrow
  <1>8. OneRequester'
    BY <1>a, <1>b, <1>1, OneRequesterStays DEF Others, AtEscrow, RedemptionInv
  <1> HIDE DEF Others
  <1> QED
    BY <1>c, <1>1, <1>4, <1>5, <1>6, <1>7, <1>8, OneKeyStep

\* A step that ends its call and changes nothing else the invariant reads.
LEMMA DoneStep ==
  ASSUME RedemptionInv, RedemptionTypeOK', NEW p \in Procs, Done(p),
         UNCHANGED treasuryVars, redemptions' = redemptions, late' = late,
         WireFollowsEscrow' \/ payouts' = payouts
  PROVE  RedemptionInv'
  <1>1. now' = now /\ ledgerNow' = ledgerNow /\ escrows' = escrows
    BY DEF treasuryVars, clockVars, ledgerVars
  <1>2. Clocks
    BY <1>1, ClocksStay
  <1>3. \A q \in Procs : HoldsRedemption(q)' \/ (pc'[q] = pc[q] /\ job'[q] = job[q])
    BY DoneFrame DEF Others
  <1> QED
    BY <1>1, <1>2, <1>3, DoneFrame, QuietStep

\* A failed escrow keeps the invariant.
LEMMA FailStep ==
  ASSUME RedemptionInv, RedemptionTypeOK', NEW q \in Procs, EscrowFailed(q)
  PROVE  RedemptionInv'
  <1>a. pc[q] = "escrow" /\ RedemptionTypeOK
    BY DEF EscrowFailed, RedemptionInv
  <1>b. PICK k \in Key :
           /\ k = job[q].key
           /\ KeyInv(k)
           /\ job[q].amount \in Nat /\ job[q].at \in Nat
           /\ Row(k) \in RedemptionStates
           /\ HoldsRedemption(q)
    BY <1>a, Holding
  <1>c. /\ redemptions' = redemptions /\ payouts' = payouts /\ escrows' = escrows
        /\ late' = late /\ now' = now /\ ledgerNow' = ledgerNow
    BY DEF EscrowFailed, treasuryVars, clockVars, ledgerVars
  <1>1. CASE Done(q)
    BY <1>1, DoneStep DEF EscrowFailed
  <1>2. CASE Advance(q, "failed", "saveEscrow")
    <2>1. /\ Others(q) /\ pc'[q] = "saveEscrow"
          /\ job'[q].state = "failed" /\ job'[q].key = k /\ job'[q].amount = job[q].amount
      BY <1>a, <1>b, <1>2, AdvanceFrame
    <2>2. /\ Row(k) = "requested" /\ redemptions[k].amount = job[q].amount
          /\ escrows[k].status = "none" /\ ~LateCall("escrow", k)
      BY <1>a, <1>b DEF HoldsRedemption, AtEscrow
    <2>3. HoldsRedemption(q)'
      BY <1>c, <2>1, <2>2 DEF HoldsRedemption, AtEscrow, Carries, Row, LateCall
    <2>4. OneRequester'
      BY <1>a, <1>b, <2>1, OneRequesterStays DEF Others, AtEscrow, RedemptionInv
    <2>5. \A p \in Procs : HoldsRedemption(p)' \/ (pc'[p] = pc[p] /\ job'[p] = job[p])
      BY <2>1, <2>3 DEF Others
    <2> QED
      BY <1>c, <2>4, <2>5, ClocksStay, QuietStep
  <1> QED
    BY <1>1, <1>2 DEF EscrowFailed

\* The row takes the escrow's outcome, with a stamp no earlier than the ledger's.
LEMMA SaveEscrowStep ==
  ASSUME RedemptionInv, RedemptionTypeOK', NEW q \in Procs, SaveEscrow(q)
  PROVE  RedemptionInv'
  <1>a. pc[q] = "saveEscrow" /\ RedemptionTypeOK
    BY DEF SaveEscrow, RedemptionInv
  <1>b. PICK k \in Key :
           /\ k = job[q].key
           /\ KeyInv(k)
           /\ job[q].amount \in Nat /\ job[q].at \in Nat
           /\ Row(k) \in RedemptionStates
           /\ HoldsRedemption(q)
    BY <1>a, Holding
  <1>c. PICK t \in job[q].at .. now :
           redemptions' = [redemptions EXCEPT ![k] =
                             [state |-> job[q].state, amount |-> job[q].amount, at |-> t]]
    BY <1>b DEF SaveEscrow
  <1>d. /\ payouts' = payouts /\ escrows' = escrows /\ late' = late
        /\ now' = now /\ ledgerNow' = ledgerNow
    BY DEF SaveEscrow, treasuryVars, clockVars, ledgerVars
  <1>1. /\ redemptions'[k].state = job[q].state /\ redemptions'[k].amount = job[q].amount
        /\ redemptions'[k].at = t
        /\ \A j \in Key : j # k => redemptions'[j] = redemptions[j]
    BY <1>a, <1>c DEF RedemptionTypeOK
  <1>2. \A op : LateCall(op, k)' <=> LateCall(op, k)
    BY <1>d DEF LateCall
  <1>3. /\ Row(k) = "requested" /\ redemptions[k].amount = job[q].amount
        /\ job[q].state \in {"requested", "escrowed", "failed"}
        /\ job[q].state # "requested" => ~LateCall("escrow", k)
        /\ job[q].state = "escrowed" => /\ escrows[k].status \in {"held", "burned"}
                                       /\ escrows[k].at <= job[q].at
        /\ job[q].state = "failed" => escrows[k].status = "none"
    BY <1>a, <1>b DEF HoldsRedemption, AtEscrow
  <1>4. job[q].at <= t /\ escrows[k].at \in Nat /\ t \in Nat
    BY <1>a, <1>b, <1>c DEF RedemptionTypeOK, TreasuryTypeOK, EscrowRecords
  <1>5. job[q].state = "escrowed" => escrows[k].at <= t
    BY <1>b, <1>3, <1>4
  <1>6. KeyStep(k) /\ KeyInv(k)'
    BY <1>b, <1>d, <1>1, <1>2, <1>3, <1>5 DEF KeyStep, KeyInv, Row, PostEscrow
  <1>7. \A j \in Key : j # k => Quiet(j)
    BY <1>d, <1>1 DEF Quiet, LateCall
  <1>8. \A p \in Procs : ~(p # q /\ AtEscrow(p) /\ job[p].key = k)
    BY <1>a, <1>b, NoOtherRequester DEF AtEscrow
  <1>9. Others(q) /\ HoldsRedemption(q)' /\ OneRequester'
    BY DoneFrame DEF SaveEscrow
  <1> HIDE DEF Others
  <1> QED
    BY <1>d, <1>6, <1>7, <1>8, <1>9, OneKeyStep

\* A copy made after the escrow was recorded, written back over its row.
LEMMA WriteBackKey ==
  ASSUME RedemptionInv, NEW p \in Procs, WriteBack(p), Carries(p),
         NEW k \in Key, k = job[p].key,
         escrows' = escrows, late' = late, now' = now,
         job[p].state \in {"payout_queued", "confirmed", "reclaimed"},
         job[p].state = "confirmed" => escrows[k].status = "burned",
         job[p].state = "reclaimed" => escrows[k].status = "none"
  PROVE  /\ KeyStep(k) /\ KeyInv(k)'
         /\ \A j \in Key : j # k => Quiet(j)
         /\ Row(k)' = job[p].state /\ redemptions'[k].amount = job[p].amount
         /\ redemptions'[k].at = job[p].at
         /\ \A q \in Procs : ~(q # p /\ AtEscrow(q) /\ job[q].key = k)
  <1>a. /\ RedemptionTypeOK /\ HoldsRedemption(p) /\ KeyInv(k)
    BY DEF RedemptionInv, RowsMatchEscrows, LateCallsAgree, StampsAgree, KeyInv
  <1>b. pc[p] \notin {"idle", "insert"}
    BY DEF Carries
  <1>c. /\ Row(k) \in PostEscrow /\ redemptions[k].at = job[p].at
        /\ redemptions[k].amount = job[p].amount
    BY <1>a, <1>b DEF HoldsRedemption
  <1>d. redemptions' = [redemptions EXCEPT ![k] = [state |-> job[p].state,
                          amount |-> job[p].amount, at |-> job[p].at]]
    BY DEF WriteBack
  <1>1. /\ redemptions'[k].state = job[p].state /\ redemptions'[k].amount = job[p].amount
        /\ redemptions'[k].at = job[p].at
        /\ \A j \in Key : j # k => redemptions'[j] = redemptions[j]
    BY <1>a, <1>d DEF RedemptionTypeOK
  <1>2. \A op : LateCall(op, k)' <=> LateCall(op, k)
    BY DEF LateCall
  <1>3. KeyStep(k)
    BY <1>c, <1>1 DEF KeyStep, Row, PostEscrow
  <1>4. KeyInv(k)'
    BY <1>a, <1>c, <1>1, <1>2 DEF KeyInv, Row, PostEscrow
  <1>5. \A j \in Key : j # k => Quiet(j)
    BY <1>1 DEF Quiet, LateCall
  <1>6. \A q \in Procs : ~(q # p /\ AtEscrow(q) /\ job[q].key = k)
    BY <1>c, NoOtherRequester DEF PostEscrow
  <1> QED
    BY <1>1, <1>3, <1>4, <1>5, <1>6 DEF Row

\* Recording PayoutQueued keeps the invariant.
LEMMA SavePayoutStep ==
  ASSUME RedemptionInv, RedemptionTypeOK', NEW o \in Procs, SavePayout(o)
  PROVE  RedemptionInv'
  <1>a. pc[o] = "savePayout" /\ RedemptionTypeOK /\ Carries(o)
    BY DEF SavePayout, RedemptionInv, Carries
  <1>b. PICK k \in Key :
           /\ k = job[o].key
           /\ KeyInv(k)
           /\ job[o].amount \in Nat /\ job[o].at \in Nat
           /\ Row(k) \in RedemptionStates
           /\ HoldsRedemption(o)
    BY <1>a, Holding
  <1>c. /\ WriteBack(o) /\ pc' = [pc EXCEPT ![o] = "enqueue"] /\ job' = job
        /\ payouts' = payouts /\ escrows' = escrows /\ late' = late
        /\ now' = now /\ ledgerNow' = ledgerNow
    BY DEF SavePayout, treasuryVars, clockVars, ledgerVars
  <1>d. job[o].state = "payout_queued"
    BY <1>a, <1>b DEF HoldsRedemption
  <1>1. /\ KeyStep(k) /\ KeyInv(k)'
        /\ \A j \in Key : j # k => Quiet(j)
        /\ Row(k)' = job[o].state /\ redemptions'[k].amount = job[o].amount
        /\ redemptions'[k].at = job[o].at
        /\ \A q \in Procs : ~(q # o /\ AtEscrow(q) /\ job[q].key = k)
    BY <1>a, <1>b, <1>c, <1>d, WriteBackKey
  <1>2. Others(o) /\ pc'[o] = "enqueue" /\ job'[o] = job[o]
    BY <1>a, <1>c DEF Others, RedemptionTypeOK
  <1>3. HoldsRedemption(o)'
    BY <1>b, <1>d, <1>1, <1>2 DEF HoldsRedemption, AtEscrow, Carries, Row, PostEscrow
  <1>4. OneRequester'
    BY <1>2, OneRequesterStays DEF Others, AtEscrow, RedemptionInv
  <1> HIDE DEF Others
  <1> QED
    BY <1>c, <1>1, <1>2, <1>3, <1>4, OneKeyStep

\* Recording Confirmed keeps the invariant.
LEMMA SaveConfirmStep ==
  ASSUME RedemptionInv, RedemptionTypeOK', NEW o \in Procs, SaveConfirm(o)
  PROVE  RedemptionInv'
  <1>a. pc[o] = "saveConfirm" /\ Carries(o)
    BY DEF SaveConfirm, Carries
  <1>b. PICK k \in Key :
           /\ k = job[o].key
           /\ KeyInv(k)
           /\ job[o].amount \in Nat /\ job[o].at \in Nat
           /\ Row(k) \in RedemptionStates
           /\ HoldsRedemption(o)
    BY <1>a, Holding
  <1>c. /\ WriteBack(o) /\ Done(o)
        /\ payouts' = payouts /\ escrows' = escrows /\ late' = late
        /\ now' = now /\ ledgerNow' = ledgerNow
    BY DEF SaveConfirm, treasuryVars, clockVars, ledgerVars
  <1>d. job[o].state = "confirmed" /\ escrows[k].status = "burned"
    BY <1>a, <1>b DEF HoldsRedemption
  <1>1. /\ KeyStep(k) /\ KeyInv(k)'
        /\ \A j \in Key : j # k => Quiet(j)
        /\ \A q \in Procs : ~(q # o /\ AtEscrow(q) /\ job[q].key = k)
    BY <1>a, <1>b, <1>c, <1>d, WriteBackKey
  <1> QED
    BY <1>c, <1>1, DoneFrame, OneKeyStep

\* Recording Reclaimed keeps the invariant.
LEMMA SaveReclaimStep ==
  ASSUME RedemptionInv, RedemptionTypeOK', NEW h \in Procs, SaveReclaim(h)
  PROVE  RedemptionInv'
  <1>a. pc[h] = "saveReclaim" /\ Carries(h)
    BY DEF SaveReclaim, Carries
  <1>b. PICK k \in Key :
           /\ k = job[h].key
           /\ KeyInv(k)
           /\ job[h].amount \in Nat /\ job[h].at \in Nat
           /\ Row(k) \in RedemptionStates
           /\ HoldsRedemption(h)
    BY <1>a, Holding
  <1>c. /\ WriteBack(h) /\ Done(h)
        /\ payouts' = payouts /\ escrows' = escrows /\ late' = late
        /\ now' = now /\ ledgerNow' = ledgerNow
    BY DEF SaveReclaim, treasuryVars, clockVars, ledgerVars
  <1>d. job[h].state = "reclaimed" /\ escrows[k].status = "none"
    BY <1>a, <1>b DEF HoldsRedemption
  <1>1. /\ KeyStep(k) /\ KeyInv(k)'
        /\ \A j \in Key : j # k => Quiet(j)
        /\ \A q \in Procs : ~(q # h /\ AtEscrow(q) /\ job[q].key = k)
    BY <1>a, <1>b, <1>c, <1>d, WriteBackKey
  <1> QED
    BY <1>c, <1>1, DoneFrame, OneKeyStep

\* A burn, whoever waits for it.
LEMMA BurnKey ==
  ASSUME RedemptionInv, NEW k \in Key, LedgerBurn(k),
         redemptions' = redemptions, late' \subseteq late
  PROVE  /\ KeyStep(k) /\ KeyInv(k)' /\ Calm(k)
         /\ \A j \in Key : j # k => Quiet(j)
         /\ escrows'[k].status = "burned"
         /\ now' = now /\ ledgerNow' = ledgerNow
  <1>a. RedemptionTypeOK /\ KeyInv(k)
    BY DEF RedemptionInv, RowsMatchEscrows, LateCallsAgree, StampsAgree, KeyInv
  <1>b. /\ escrows[k].status = "held" /\ escrows[k] \in EscrowRecords
        /\ escrows' = [escrows EXCEPT ![k] = [escrows[k] EXCEPT !.status = "burned"]]
        /\ now' = now /\ ledgerNow' = ledgerNow
    BY <1>a DEF LedgerBurn, clockVars, RedemptionTypeOK, TreasuryTypeOK
  <1>c. /\ escrows'[k] = [escrows[k] EXCEPT !.status = "burned"]
        /\ \A j \in Key : j # k => escrows'[j] = escrows[j]
    BY <1>a, <1>b DEF RedemptionTypeOK, TreasuryTypeOK
  <1>1. /\ escrows'[k].status = "burned" /\ escrows'[k].amount = escrows[k].amount
        /\ escrows'[k].at = escrows[k].at
    BY <1>b, <1>c DEF EscrowRecords
  <1>2. /\ \A op : LateCall(op, k)' => LateCall(op, k)
        /\ Row(k)' = Row(k)
    BY DEF LateCall, Row
  <1>3. KeyStep(k) /\ Calm(k)
    BY <1>b, <1>1, <1>2 DEF KeyStep, Calm
  <1>4. KeyInv(k)'
    BY <1>a, <1>b, <1>1, <1>2 DEF KeyInv
  <1>5. \A j \in Key : j # k => Quiet(j)
    BY <1>c DEF Quiet, LateCall
  <1> QED
    BY <1>b, <1>1, <1>3, <1>4, <1>5

\* A reclaim, whoever waits for it: its row is past its escrow.
LEMMA ReclaimKey ==
  ASSUME RedemptionInv, NEW k \in Key, LedgerReclaim(k), Row(k) \in PostEscrow,
         redemptions' = redemptions, late' \subseteq late
  PROVE  /\ KeyStep(k) /\ KeyInv(k)'
         /\ \A j \in Key : j # k => Quiet(j)
         /\ escrows'[k].status = "none"
         /\ now' = now /\ ledgerNow' = ledgerNow
         /\ \A q \in Procs : ~(AtEscrow(q) /\ job[q].key = k)
  <1>a. RedemptionTypeOK /\ KeyInv(k)
    BY DEF RedemptionInv, RowsMatchEscrows, LateCallsAgree, StampsAgree, KeyInv
  <1>b. /\ escrows[k].status = "held"
        /\ escrows' = [escrows EXCEPT ![k] = NoEscrow]
        /\ now' = now /\ ledgerNow' = ledgerNow
    BY DEF LedgerReclaim, clockVars
  <1>1. /\ escrows'[k].status = "none"
        /\ \A j \in Key : j # k => escrows'[j] = escrows[j]
    BY <1>a, <1>b DEF RedemptionTypeOK, TreasuryTypeOK, NoEscrow
  <1>2. /\ \A op : LateCall(op, k)' => LateCall(op, k)
        /\ Row(k)' = Row(k)
    BY DEF LateCall, Row
  <1>3. KeyStep(k)
    BY <1>b, <1>1, <1>2 DEF KeyStep, PostEscrow
  <1>4. KeyInv(k)'
    BY <1>a, <1>b, <1>1, <1>2 DEF KeyInv
  <1>5. \A j \in Key : j # k => Quiet(j)
    BY <1>1 DEF Quiet, LateCall
  <1>6. ASSUME NEW q \in Procs, AtEscrow(q), job[q].key = k
        PROVE  FALSE
    <2>1. HoldsRedemption(q)
      BY DEF RedemptionInv
    <2>2. Row(k) = "requested"
      BY <1>6, <2>1 DEF HoldsRedemption
    <2> QED
      BY <2>2 DEF PostEscrow
  <1> QED
    BY <1>b, <1>1, <1>3, <1>4, <1>5, <1>6

\* A burn the service waited for keeps the invariant.
LEMMA BurnStep ==
  ASSUME RedemptionInv, RedemptionTypeOK', NEW o \in Procs, BurnConfirmed(o)
  PROVE  RedemptionInv'
  <1>a. pc[o] = "burn" /\ RedemptionTypeOK
    BY DEF BurnConfirmed, RedemptionInv
  <1>b. PICK k \in Key :
           /\ k = job[o].key
           /\ KeyInv(k)
           /\ job[o].amount \in Nat /\ job[o].at \in Nat
           /\ Row(k) \in RedemptionStates
           /\ HoldsRedemption(o)
    BY <1>a, Holding
  <1>c. /\ LedgerBurn(k) /\ redemptions' = redemptions /\ payouts' = payouts /\ late' = late
    BY <1>b DEF BurnConfirmed
  <1>1. /\ KeyStep(k) /\ KeyInv(k)' /\ Calm(k)
        /\ \A j \in Key : j # k => Quiet(j)
        /\ escrows'[k].status = "burned"
        /\ now' = now /\ ledgerNow' = ledgerNow
    BY <1>c, BurnKey
  <1>2. Others(o) /\ HoldsRedemption(o)' /\ OneRequester'
    <2>1. CASE Done(o)
      BY <2>1, DoneFrame
    <2>2. CASE job[o].state \in Pending /\ Advance(o, "confirmed", "saveConfirm")
      <3>1. /\ Others(o) /\ pc'[o] = "saveConfirm"
            /\ job'[o].state = "confirmed" /\ job'[o].key = k
            /\ job'[o].amount = job[o].amount /\ job'[o].at = job[o].at
        BY <1>a, <1>b, <2>2, AdvanceFrame
      <3>2. /\ Row(k) \in PostEscrow /\ redemptions[k].at = job[o].at
            /\ redemptions[k].amount = job[o].amount
        BY <1>a, <1>b, <2>2 DEF HoldsRedemption, Carries
      <3>3. HoldsRedemption(o)'
        BY <1>c, <1>1, <3>1, <3>2 DEF HoldsRedemption, AtEscrow, Carries, Row, PostEscrow
      <3>4. OneRequester'
        BY <3>1, OneRequesterStays DEF Others, AtEscrow, RedemptionInv
      <3> QED
        BY <3>1, <3>3, <3>4
    <2> QED
      BY <2>1, <2>2 DEF BurnConfirmed
  <1> QED
    BY <1>c, <1>1, <1>2, OneKeyStep

\* A reclaim the service waited for keeps the invariant.
LEMMA ReclaimStep ==
  ASSUME RedemptionInv, RedemptionTypeOK', NEW h \in Procs, ReclaimConfirmed(h)
  PROVE  RedemptionInv'
  <1>a. pc[h] = "reclaim" /\ RedemptionTypeOK /\ Carries(h)
    BY DEF ReclaimConfirmed, RedemptionInv, Carries
  <1>b. PICK k \in Key :
           /\ k = job[h].key
           /\ KeyInv(k)
           /\ job[h].amount \in Nat /\ job[h].at \in Nat
           /\ Row(k) \in RedemptionStates
           /\ HoldsRedemption(h)
    BY <1>a, Holding
  <1>c. /\ LedgerReclaim(k) /\ redemptions' = redemptions /\ payouts' = payouts /\ late' = late
    BY <1>b DEF ReclaimConfirmed
  <1>d. /\ Row(k) \in PostEscrow /\ redemptions[k].at = job[h].at
        /\ redemptions[k].amount = job[h].amount
    BY <1>a, <1>b DEF HoldsRedemption
  <1>1. /\ KeyStep(k) /\ KeyInv(k)'
        /\ \A j \in Key : j # k => Quiet(j)
        /\ escrows'[k].status = "none"
        /\ now' = now /\ ledgerNow' = ledgerNow
        /\ \A q \in Procs : ~(AtEscrow(q) /\ job[q].key = k)
    BY <1>c, <1>d, ReclaimKey
  <1>2. /\ Others(h) /\ pc'[h] = "saveReclaim"
        /\ job'[h].state = "reclaimed" /\ job'[h].key = k
        /\ job'[h].amount = job[h].amount /\ job'[h].at = job[h].at
    BY <1>a, <1>b, AdvanceFrame DEF ReclaimConfirmed
  <1>3. HoldsRedemption(h)'
    BY <1>c, <1>d, <1>1, <1>2 DEF HoldsRedemption, AtEscrow, Carries, Row, PostEscrow
  <1>4. OneRequester'
    BY <1>2, OneRequesterStays DEF Others, AtEscrow, RedemptionInv
  <1> QED
    BY <1>c, <1>1, <1>2, <1>3, <1>4, OneKeyStep

\* A burn nobody waits for any more puts no obligation on its row.
LEMMA BurnUnansweredStep ==
  ASSUME RedemptionInv, RedemptionTypeOK', NEW o \in Procs, BurnUnanswered(o)
  PROVE  RedemptionInv'
  <1>a. pc[o] = "burn"
    BY DEF BurnUnanswered
  <1>b. PICK k \in Key :
           /\ k = job[o].key
           /\ KeyInv(k)
           /\ job[o].amount \in Nat /\ job[o].at \in Nat
           /\ Row(k) \in RedemptionStates
           /\ HoldsRedemption(o)
    BY <1>a, Holding
  <1>c. /\ late' \in {late, late \cup {[op |-> "burn", key |-> k]}} /\ Done(o)
        /\ redemptions' = redemptions /\ payouts' = payouts /\ escrows' = escrows
        /\ now' = now /\ ledgerNow' = ledgerNow
    BY <1>b DEF BurnUnanswered, treasuryVars, clockVars, ledgerVars
  <1>1. /\ LateCall("reclaim", k)' => LateCall("reclaim", k)
        /\ LateCall("escrow", k)' => LateCall("escrow", k)
        /\ Row(k)' = Row(k)
    BY <1>c DEF LateCall, Row
  <1>2. KeyStep(k) /\ KeyInv(k)' /\ Calm(k)
    BY <1>b, <1>c, <1>1 DEF KeyStep, KeyInv, Calm
  <1>3. \A j \in Key : j # k => Quiet(j)
    BY <1>c DEF Quiet, LateCall
  <1> QED
    BY <1>c, <1>2, <1>3, DoneFrame, OneKeyStep

\* A reclaim nobody waits for any more has passed the service's delta.
LEMMA ReclaimUnansweredStep ==
  ASSUME RedemptionInv, RedemptionTypeOK', NEW h \in Procs, ReclaimUnanswered(h)
  PROVE  RedemptionInv'
  <1>a. pc[h] = "reclaim" /\ Carries(h)
    BY DEF ReclaimUnanswered, Carries
  <1>b. PICK k \in Key :
           /\ k = job[h].key
           /\ KeyInv(k)
           /\ job[h].amount \in Nat /\ job[h].at \in Nat
           /\ Row(k) \in RedemptionStates
           /\ HoldsRedemption(h)
    BY <1>a, Holding
  <1>c. /\ late' \in {late, late \cup {[op |-> "reclaim", key |-> k]}} /\ Done(h)
        /\ redemptions' = redemptions /\ payouts' = payouts /\ escrows' = escrows
        /\ now' = now /\ ledgerNow' = ledgerNow
    BY <1>b DEF ReclaimUnanswered, treasuryVars, clockVars, ledgerVars
  <1>d. Row(k) \in PostEscrow /\ now - redemptions[k].at >= Delta
    BY <1>a, <1>b DEF HoldsRedemption
  <1>1. /\ LateCall("escrow", k)' => LateCall("escrow", k)
        /\ Row(k)' = Row(k)
    BY <1>c DEF LateCall, Row
  <1>2. KeyStep(k) /\ KeyInv(k)' /\ Calm(k)
    BY <1>b, <1>c, <1>d, <1>1 DEF KeyStep, KeyInv, Calm
  <1>3. \A j \in Key : j # k => Quiet(j)
    BY <1>c DEF Quiet, LateCall
  <1> QED
    BY <1>c, <1>2, <1>3, DoneFrame, OneKeyStep

\* A wire carries its copy's amount, which is the row's, and is the key's only one.
LEMMA EnqueueStep ==
  ASSUME RedemptionInv, RedemptionTypeOK', NEW o \in Procs, Enqueue(o)
  PROVE  RedemptionInv'
  <1>a. pc[o] = "enqueue" /\ Carries(o) /\ WireFollowsEscrow
    BY DEF Enqueue, Carries, RedemptionInv
  <1>b. PICK k \in Key :
           /\ k = job[o].key
           /\ KeyInv(k)
           /\ job[o].amount \in Nat /\ job[o].at \in Nat
           /\ Row(k) \in RedemptionStates
           /\ HoldsRedemption(o)
    BY <1>a, Holding
  <1>c. Row(k) \in PostEscrow /\ redemptions[k].amount = job[o].amount
    BY <1>a, <1>b DEF HoldsRedemption
  <1>d. redemptions' = redemptions /\ late' = late /\ Done(o) /\ UNCHANGED treasuryVars
    BY DEF Enqueue
  <1>1. CASE \E w \in payouts : w[1] = k
    <2>1. payouts' = payouts
      BY <1>b, <1>1 DEF Enqueue
    <2> QED
      BY <1>d, <2>1, DoneStep
  <1>2. CASE ~ \E w \in payouts : w[1] = k
    <2>1. payouts' = payouts \cup {<<k, job[o].amount>>}
      BY <1>b, <1>2 DEF Enqueue
    <2>2. WireFollowsEscrow'
      <3> SUFFICES ASSUME NEW w \in payouts'
                   PROVE  /\ Row(w[1])' \notin {"none", "requested", "failed"}
                          /\ w[2] = redemptions'[w[1]].amount
                          /\ \A v \in payouts' : v[1] = w[1] => v = w
        BY DEF WireFollowsEscrow, Row
      <3>1. CASE w \in payouts
        <4>1. /\ redemptions[w[1]].state \notin {"none", "requested", "failed"}
              /\ w[2] = redemptions[w[1]].amount
              /\ \A v \in payouts : v[1] = w[1] => v = w
          BY <1>a, <3>1 DEF WireFollowsEscrow, Row
        <4> QED
          BY <1>2, <1>d, <2>1, <3>1, <4>1 DEF Row
      <3>2. CASE w = <<k, job[o].amount>>
        BY <1>2, <1>c, <1>d, <2>1, <3>2 DEF Row, PostEscrow
      <3> QED
        BY <2>1, <3>1, <3>2
    <2> QED
      BY <1>d, <2>2, DoneStep
  <1> QED
    BY <1>1, <1>2

\* A late escrow lands under a row that is still Requested, and no requester is
\* waiting at the ledger for it.
LEMMA LandStep ==
  ASSUME RedemptionInv, RedemptionTypeOK', NEW l \in late, Land(l)
  PROVE  RedemptionInv'
  <1>a. RedemptionTypeOK /\ OneRequester
    BY DEF RedemptionInv
  <1>b. PICK k \in Key : k = l.key
    BY <1>a DEF RedemptionTypeOK
  <1>c. /\ redemptions' = redemptions /\ pc' = pc /\ job' = job /\ payouts' = payouts
        /\ late' = late \ {l}
    BY DEF Land
  <1>d. KeyInv(k)
    BY DEF RedemptionInv, RowsMatchEscrows, LateCallsAgree, StampsAgree, KeyInv
  <1>e. \A op : LateCall(op, k)' => LateCall(op, k)
    BY <1>c DEF LateCall
  <1>1. OneRequester'
    BY <1>a, <1>c, OneRequesterStays DEF AtEscrow
  <1>2. ASSUME now' = now, ledgerNow' = ledgerNow, \A j \in Key : j # k => Quiet(j),
               KeyStep(k), KeyInv(k)',
               \A q \in Procs : AtEscrow(q) /\ job[q].key = k => Calm(k)
        PROVE  RedemptionInv'
    <2>1. Clocks
      BY <1>2, ClocksStay
    <2>2. \A j \in Key : Quiet(j) \/ (KeyStep(j) /\ KeyInv(j)')
      BY <1>2
    <2>3. \A q \in Procs :
             /\ pc'[q] = pc[q]
             /\ job'[q] = job[q]
             /\ \A j \in Key : AtEscrow(q) /\ job[q].key = j => Quiet(j) \/ Calm(j)
      BY <1>2, <1>c
    <2> QED
      BY <1>c, <1>1, <2>1, <2>2, <2>3, Assemble
  <1>3. CASE l.op = "escrow" /\ LedgerEscrow(k, redemptions[k].amount)
    <2>1. l = [op |-> "escrow", key |-> k]
      BY <1>a, <1>b, <1>3 DEF RedemptionTypeOK
    <2>2. Row(k) = "requested" /\ LateCall("escrow", k)
      BY <1>d, <2>1 DEF KeyInv, LateCall
    <2>3. /\ escrows' = [escrows EXCEPT ![k] = [status |-> "held",
                           amount |-> redemptions[k].amount, at |-> ledgerNow]]
          /\ escrows[k].status = "none"
          /\ now' = now /\ ledgerNow' = ledgerNow
      BY <1>3 DEF LedgerEscrow, clockVars
    <2>4. /\ escrows'[k].status = "held" /\ escrows'[k].amount = redemptions[k].amount
          /\ \A j \in Key : j # k => escrows'[j] = escrows[j]
      BY <1>a, <2>3 DEF RedemptionTypeOK, TreasuryTypeOK
    <2>5. KeyStep(k) /\ KeyInv(k)' /\ Calm(k)
      BY <1>c, <1>d, <1>e, <2>2, <2>3, <2>4 DEF KeyStep, KeyInv, Calm, Row, PostEscrow
    <2>6. \A j \in Key : j # k => Quiet(j)
      BY <1>c, <2>4 DEF Quiet, LateCall
    <2> QED
      BY <1>2, <2>3, <2>5, <2>6
  <1>4. CASE l.op = "burn" /\ LedgerBurn(k)
    <2>1. late' \subseteq late
      BY <1>c
    <2> QED
      BY <1>2, <1>4, <1>c, <2>1, BurnKey
  <1>5. CASE l.op = "reclaim" /\ LedgerReclaim(k)
    <2>1. l = [op |-> "reclaim", key |-> k]
      BY <1>a, <1>b, <1>5 DEF RedemptionTypeOK
    <2>2. Row(k) \in PostEscrow
      BY <1>d, <2>1 DEF KeyInv, LateCall
    <2>3. late' \subseteq late
      BY <1>c
    <2> QED
      BY <1>2, <1>5, <1>c, <2>2, <2>3, ReclaimKey
  <1>6. CASE UNCHANGED treasuryVars
    <2>1. now' = now /\ ledgerNow' = ledgerNow /\ escrows' = escrows
      BY <1>6 DEF treasuryVars, clockVars, ledgerVars
    <2>2. \A j \in Key : Quiet(j)
      BY <1>c, <2>1 DEF Quiet, LateCall
    <2>3. \A q \in Procs :
             /\ pc'[q] = pc[q]
             /\ job'[q] = job[q]
             /\ \A j \in Key : AtEscrow(q) /\ job[q].key = j => Quiet(j) \/ Calm(j)
      BY <1>c, <2>2
    <2>4. Clocks
      BY <2>1, ClocksStay
    <2> QED
      BY <1>c, <1>1, <2>2, <2>3, <2>4, Assemble
  <1> QED
    BY <1>b, <1>3, <1>4, <1>5, <1>6 DEF Land

\* A process that takes a copy of a row it may act on.
LEMMA TakeStep ==
  ASSUME RedemptionInv, RedemptionTypeOK', NEW p \in Procs, NEW k \in Key,
         \/ StartPayout(p, k) \/ StartConfirm(p, k) \/ StartReclaim(p, k)
  PROVE  RedemptionInv'
  <1>a. RedemptionTypeOK
    BY DEF RedemptionInv
  <1>b. /\ UNCHANGED treasuryVars /\ redemptions' = redemptions /\ payouts' = payouts
        /\ late' = late
    BY DEF StartPayout, StartConfirm, StartReclaim
  <1>c. now' = now /\ ledgerNow' = ledgerNow /\ escrows' = escrows
    BY <1>b DEF treasuryVars, clockVars, ledgerVars
  <1>d. ASSUME NEW st, NEW place, Take(p, k, st, place)
        PROVE  /\ Others(p) /\ pc'[p] = place /\ job'[p].key = k /\ job'[p].state = st
               /\ job'[p].amount = redemptions[k].amount /\ job'[p].at = redemptions[k].at
    BY <1>a, <1>d DEF Take, Others, RedemptionTypeOK
  <1>1. ASSUME Others(p), HoldsRedemption(p)', pc'[p] \notin {"escrow", "saveEscrow"}
        PROVE  RedemptionInv'
    <2>1. \A q \in Procs : HoldsRedemption(q)' \/ (pc'[q] = pc[q] /\ job'[q] = job[q])
      BY <1>1 DEF Others
    <2>2. OneRequester'
      BY <1>1, OneRequesterStays DEF Others, AtEscrow, RedemptionInv
    <2> QED
      BY <1>b, <1>c, <2>1, <2>2, ClocksStay, QuietStep
  <1>2. CASE StartPayout(p, k)
    <2>1. /\ Others(p) /\ pc'[p] = "savePayout" /\ job'[p].key = k
          /\ job'[p].state = "payout_queued"
          /\ job'[p].amount = redemptions[k].amount /\ job'[p].at = redemptions[k].at
      BY <1>2, <1>d DEF StartPayout
    <2>2. Row(k) = "escrowed"
      BY <1>2 DEF StartPayout
    <2>3. HoldsRedemption(p)'
      BY <1>b, <2>1, <2>2 DEF HoldsRedemption, AtEscrow, Carries, Row, PostEscrow
    <2> QED
      BY <1>1, <2>1, <2>3
  <1>3. CASE StartConfirm(p, k)
    <2>1. /\ Others(p) /\ pc'[p] = "burn" /\ job'[p].key = k /\ job'[p].state = Row(k)
          /\ job'[p].amount = redemptions[k].amount /\ job'[p].at = redemptions[k].at
      BY <1>3, <1>a DEF StartConfirm, Take, Others, RedemptionTypeOK
    <2>2. Row(k) # "none"
      BY <1>3 DEF StartConfirm
    <2>3. HoldsRedemption(p)'
      BY <1>b, <2>1, <2>2 DEF HoldsRedemption, AtEscrow, Carries, Row, PostEscrow, Pending
    <2> QED
      BY <1>1, <2>1, <2>3
  <1>4. CASE StartReclaim(p, k)
    <2>1. /\ Others(p) /\ pc'[p] = "reclaim" /\ job'[p].key = k
          /\ job'[p].state = "reclaimed"
          /\ job'[p].amount = redemptions[k].amount /\ job'[p].at = redemptions[k].at
      BY <1>4, <1>d DEF StartReclaim
    <2>2. Row(k) \in {"escrowed", "payout_queued"} /\ now - redemptions[k].at >= Delta
      BY <1>4 DEF StartReclaim, IsReclaimable, Pending
    <2>3. HoldsRedemption(p)'
      BY <1>b, <1>c, <2>1, <2>2 DEF HoldsRedemption, AtEscrow, Carries, Row, PostEscrow
    <2> QED
      BY <1>1, <2>1, <2>3
  <1> QED
    BY <1>2, <1>3, <1>4

\* Starting a request keeps the invariant.
LEMMA ReadSeqStep ==
  ASSUME RedemptionInv, RedemptionTypeOK', NEW q \in Procs,
         NEW u \in Account, NEW a \in Amounts, ReadSeq(q, u, a)
  PROVE  RedemptionInv'
  <1>a. RedemptionTypeOK
    BY DEF RedemptionInv
  <1>b. /\ redemptions' = redemptions /\ payouts' = payouts /\ late' = late
        /\ now' = now /\ ledgerNow' = ledgerNow /\ escrows' = escrows
    BY DEF ReadSeq, treasuryVars, clockVars, ledgerVars
  <1>1. Others(q) /\ pc'[q] = "insert" /\ job'[q].state = "requested"
    <2> HIDE DEF NextSeq
    <2> QED
      BY <1>a DEF ReadSeq, Others, RedemptionTypeOK
  <1>2. HoldsRedemption(q)'
    BY <1>1 DEF HoldsRedemption, AtEscrow, Carries
  <1>3. OneRequester'
    BY <1>1, OneRequesterStays DEF Others, AtEscrow, RedemptionInv
  <1>4. \A p \in Procs : HoldsRedemption(p)' \/ (pc'[p] = pc[p] /\ job'[p] = job[p])
    BY <1>1, <1>2 DEF Others
  <1> QED
    BY <1>b, <1>3, <1>4, ClocksStay, QuietStep

\* The on-ramp and the clock.
LEMMA EnvironmentStep ==
  ASSUME RedemptionInv, RedemptionTypeOK', OnRamp \/ Elapse
  PROVE  RedemptionInv'
  <1>a. /\ redemptions' = redemptions /\ pc' = pc /\ job' = job /\ payouts' = payouts
        /\ late' = late
    BY DEF OnRamp, Elapse
  <1>b. RedemptionTypeOK /\ ledgerNow <= now /\ OneRequester
    BY DEF RedemptionInv, StampsAgree
  <1>1. CASE OnRamp
    <2>1. now' = now /\ ledgerNow' = ledgerNow /\ escrows' = escrows
      BY <1>1 DEF OnRamp, LedgerIssue, clockVars
    <2> QED
      BY <1>a, <1>b, <2>1, ClocksStay, OneRequesterStays, QuietStep DEF AtEscrow
  <1>2. CASE Elapse
    <2>1. /\ now' = now + 1 /\ escrows' = escrows
          /\ ledgerNow' = IF LedgerClockRuns THEN now + 1 ELSE ledgerNow
      BY <1>2 DEF Elapse, Tick, ledgerVars
    <2>2. Clocks
      BY <1>b, <2>1 DEF Clocks, RedemptionTypeOK, TreasuryTypeOK
    <2> QED
      BY <1>a, <1>b, <2>1, <2>2, OneRequesterStays, QuietStep DEF AtEscrow
  <1> QED
    BY <1>1, <1>2

\* With no row and no call, the invariant holds.
LEMMA InitInv == RedemptionInit => RedemptionInv
  <1> SUFFICES ASSUME RedemptionInit PROVE RedemptionInv
    OBVIOUS
  <1>1. RedemptionTypeOK
    BY InitTyping
  <1>2. \A k \in Key : Row(k) = "none" /\ escrows[k].status = "none"
    BY DEF RedemptionInit, TreasuryInit, NoRedemption, NoEscrow, Row
  <1>3. \A p \in Procs : pc[p] = "idle"
    BY DEF RedemptionInit
  <1>4. \A p \in Procs : HoldsRedemption(p)
    BY <1>3 DEF HoldsRedemption, AtEscrow, Carries
  <1>5. RowsMatchEscrows /\ LateCallsAgree /\ OneRequester
    BY <1>2, <1>3
       DEF RowsMatchEscrows, LateCallsAgree, OneRequester, AtEscrow, LateCall, RedemptionInit
  <1>6. WireFollowsEscrow
    BY DEF WireFollowsEscrow, RedemptionInit
  <1>7. StampsAgree
    BY <1>2 DEF StampsAgree, RedemptionInit, TreasuryInit, PostEscrow
  <1> QED
    BY <1>1, <1>4, <1>5, <1>6, <1>7 DEF RedemptionInv

\* Every step keeps the invariant.
LEMMA StepInv == RedemptionInv /\ [RedemptionNext]_redemptionVars => RedemptionInv'
  <1> SUFFICES ASSUME RedemptionInv, [RedemptionNext]_redemptionVars
               PROVE  RedemptionInv'
    OBVIOUS
  <1>a. RedemptionTypeOK'
    BY StepTyping DEF RedemptionInv
  <1>b. /\ \A q \in Requesters : q \in Procs
        /\ \A o \in Operators : o \in Procs
        /\ \A h \in Holders : h \in Procs
    BY DEF Procs
  <1>1. ASSUME NEW q \in Requesters, Request(q)
        PROVE  RedemptionInv'
    <2>1. CASE InsertConflict(q)
      BY <1>a, <1>b, <2>1, DoneStep DEF InsertConflict
    <2>2. CASE EscrowRefused(q)
      BY <1>a, <1>b, <2>2, DoneStep DEF EscrowRefused, LedgerEscrowRefused
    <2> QED
      BY <1>a, <1>b, <1>1, <2>1, <2>2, InsertStep, EscrowStep, SubmitStep, FailStep,
         SaveEscrowStep DEF Request
  <1>2. ASSUME NEW o \in Operators, Operate(o)
        PROVE  RedemptionInv'
    <2>1. CASE EnqueueRefused(o)
      BY <1>a, <1>b, <2>1, DoneStep DEF EnqueueRefused
    <2>2. CASE BurnRefused(o)
      BY <1>a, <1>b, <2>2, DoneStep DEF BurnRefused, LedgerBurnRefused
    <2> QED
      BY <1>a, <1>b, <1>2, <2>1, <2>2, SavePayoutStep, EnqueueStep, BurnStep,
         BurnUnansweredStep, SaveConfirmStep DEF Operate
  <1>3. ASSUME NEW h \in Holders, Reclaim(h)
        PROVE  RedemptionInv'
    <2>1. CASE ReclaimRefused(h)
      BY <1>a, <1>b, <2>1, DoneStep DEF ReclaimRefused, LedgerReclaimRefused
    <2> QED
      BY <1>a, <1>b, <1>3, <2>1, ReclaimStep, ReclaimUnansweredStep, SaveReclaimStep
         DEF Reclaim
  <1>4. ASSUME NEW p \in Procs, DropCall(p)
        PROVE  RedemptionInv'
    BY <1>a, <1>4, DoneStep DEF DropCall
  <1>5. CASE UNCHANGED redemptionVars
    <2>1. /\ redemptions' = redemptions /\ pc' = pc /\ job' = job /\ payouts' = payouts
          /\ late' = late /\ now' = now /\ ledgerNow' = ledgerNow /\ escrows' = escrows
      BY <1>5 DEF redemptionVars, treasuryVars, clockVars, ledgerVars
    <2>2. OneRequester
      BY DEF RedemptionInv
    <2> QED
      BY <1>a, <2>1, <2>2, ClocksStay, OneRequesterStays, QuietStep DEF AtEscrow
  <1> QED
    BY <1>a, <1>b, <1>1, <1>2, <1>3, <1>4, <1>5, ReadSeqStep, TakeStep, LandStep,
       EnvironmentStep DEF RedemptionNext, OffRampNext

\* Every state the off-ramp reaches satisfies RedemptionInv: the rows and the
\* escrow records agree, and every suspended process and unanswered call still
\* stands on what it was told.
THEOREM RedemptionInvariance == RedemptionSpec => []RedemptionInv
  <1>1. RedemptionInit => RedemptionInv
    BY InitInv
  <1>2. RedemptionInv /\ [RedemptionNext]_redemptionVars => RedemptionInv'
    BY StepInv
  <1> QED
    BY <1>1, <1>2, PTL DEF RedemptionSpec

\* F2 and F7, the half the rows promise: Confirmed only over burned tokens,
\* Reclaimed or Failed only where the ledger holds nothing, and the recorded
\* amount in escrow or none, for every interleaving of the four calls.
THEOREM RowsMatchEscrowsAlways == RedemptionSpec => []RowsMatchEscrows
  <1>1. RedemptionInv => RowsMatchEscrows
    BY DEF RedemptionInv
  <1> QED
    BY <1>1, RedemptionInvariance, PTL

\* F4: a wire stands only for a redemption whose escrow the ledger confirmed,
\* for its amount, once.
THEOREM WireFollowsEscrowAlways == RedemptionSpec => []WireFollowsEscrow
  <1>1. RedemptionInv => WireFollowsEscrow
    BY DEF RedemptionInv
  <1> QED
    BY <1>1, RedemptionInvariance, PTL

-----------------------------------------------------------------------------
\* What a step may do to a row: the writers, and what each finds there.
RowStep(k) ==
  \/ redemptions'[k] = redemptions[k]
  \/ Row(k) = "none" /\ Row(k)' = "requested"
  \/ /\ Row(k) = "requested" /\ Row(k)' \in {"requested", "escrowed", "failed"}
     /\ redemptions'[k].amount = redemptions[k].amount
     /\ Row(k)' = "escrowed" => /\ escrows[k].status \in {"held", "burned"}
                                /\ redemptions'[k].at >= escrows[k].at
  \/ /\ Row(k) \in PostEscrow /\ Row(k)' \in {"payout_queued", "confirmed", "reclaimed"}
     /\ redemptions'[k].amount = redemptions[k].amount

\* What a requester's second write does to its row.
LEMMA SaveEscrowRow ==
  ASSUME RedemptionInv, NEW q \in Procs, SaveEscrow(q), NEW k \in Key
  PROVE  RowStep(k)
  <1>a. pc[q] = "saveEscrow" /\ RedemptionTypeOK
    BY DEF SaveEscrow, RedemptionInv
  <1>b. PICK j \in Key :
           /\ j = job[q].key
           /\ KeyInv(j)
           /\ job[q].amount \in Nat /\ job[q].at \in Nat
           /\ Row(j) \in RedemptionStates
           /\ HoldsRedemption(q)
    BY <1>a, Holding
  <1>c. PICK t \in job[q].at .. now :
           redemptions' = [redemptions EXCEPT ![j] =
                             [state |-> job[q].state, amount |-> job[q].amount, at |-> t]]
    BY <1>b DEF SaveEscrow
  <1>1. CASE k # j
    BY <1>1, <1>a, <1>c DEF RowStep, RedemptionTypeOK
  <1>2. CASE k = j
    <2>1. /\ redemptions'[k].state = job[q].state /\ redemptions'[k].amount = job[q].amount
          /\ redemptions'[k].at = t
      BY <1>2, <1>a, <1>c DEF RedemptionTypeOK
    <2>2. /\ Row(k) = "requested" /\ redemptions[k].amount = job[q].amount
          /\ job[q].state \in {"requested", "escrowed", "failed"}
          /\ job[q].state = "escrowed" => /\ escrows[k].status \in {"held", "burned"}
                                         /\ escrows[k].at <= job[q].at
      BY <1>2, <1>a, <1>b DEF HoldsRedemption, AtEscrow
    <2>3. job[q].at <= t /\ escrows[k].at \in Nat /\ t \in Nat
      BY <1>a, <1>b, <1>c DEF RedemptionTypeOK, TreasuryTypeOK, EscrowRecords
    <2>4. job[q].state = "escrowed" => t >= escrows[k].at
      BY <1>b, <2>2, <2>3
    <2> QED
      BY <2>1, <2>2, <2>4 DEF RowStep, Row
  <1> QED
    BY <1>1, <1>2

\* What an insert or any other write-back does to its row.
LEMMA WriteBackRow ==
  ASSUME RedemptionInv, NEW p \in Procs, WriteBack(p), NEW k \in Key,
         \/ pc[p] = "insert" /\ redemptions[job[p].key].state = "none"
         \/ pc[p] \in {"savePayout", "saveConfirm", "saveReclaim"}
  PROVE  RowStep(k)
  <1>a. RedemptionTypeOK /\ pc[p] # "idle"
    BY DEF RedemptionInv
  <1>b. PICK j \in Key :
           /\ j = job[p].key
           /\ KeyInv(j)
           /\ job[p].amount \in Nat /\ job[p].at \in Nat
           /\ Row(j) \in RedemptionStates
           /\ HoldsRedemption(p)
    BY <1>a, Holding
  <1>c. redemptions' = [redemptions EXCEPT ![j] = [state |-> job[p].state,
                          amount |-> job[p].amount, at |-> job[p].at]]
    BY <1>b DEF WriteBack
  <1>1. CASE k # j
    BY <1>1, <1>a, <1>c DEF RowStep, RedemptionTypeOK
  <1>2. CASE k = j /\ pc[p] = "insert"
    <2>1. Row(k)' = job[p].state
      BY <1>2, <1>a, <1>c DEF RedemptionTypeOK, Row
    <2> QED
      BY <1>2, <1>b, <2>1 DEF RowStep, HoldsRedemption, Row
  <1>3. CASE k = j /\ pc[p] \in {"savePayout", "saveConfirm", "saveReclaim"}
    <2>1. redemptions'[k].state = job[p].state /\ redemptions'[k].amount = job[p].amount
      BY <1>3, <1>a, <1>c DEF RedemptionTypeOK
    <2>2. /\ Row(k) \in PostEscrow /\ redemptions[k].amount = job[p].amount
          /\ job[p].state \in {"payout_queued", "confirmed", "reclaimed"}
      BY <1>3, <1>b DEF HoldsRedemption, Carries
    <2> QED
      BY <2>1, <2>2 DEF RowStep, Row
  <1> QED
    BY <1>b, <1>1, <1>2, <1>3 DEF Row

\* What any step may do to a row.
LEMMA StepRow ==
  ASSUME RedemptionInv, [RedemptionNext]_redemptionVars, NEW k \in Key
  PROVE  RowStep(k)
  <1>1. CASE redemptions' = redemptions
    BY <1>1 DEF RowStep
  <1>2. CASE \E p \in Procs : InsertRow(p) \/ SavePayout(p) \/ SaveConfirm(p) \/ SaveReclaim(p)
    BY <1>2, WriteBackRow DEF InsertRow, SavePayout, SaveConfirm, SaveReclaim, Row
  <1>3. CASE \E p \in Procs : SaveEscrow(p)
    BY <1>3, SaveEscrowRow
  <1>4. /\ \A q \in Requesters : q \in Procs
        /\ \A o \in Operators : o \in Procs
        /\ \A h \in Holders : h \in Procs
    BY DEF Procs
  <1>5. redemptions' = redemptions
        \/ \E p \in Procs : InsertRow(p) \/ SavePayout(p) \/ SaveConfirm(p)
                              \/ SaveReclaim(p) \/ SaveEscrow(p)
    <2>1. ASSUME NEW q \in Requesters, Request(q)
          PROVE  redemptions' = redemptions \/ InsertRow(q) \/ SaveEscrow(q)
      BY <2>1 DEF Request, InsertConflict, EscrowConfirmed, EscrowRefused, EscrowSubmitted,
                  EscrowFailed
    <2>2. ASSUME NEW o \in Operators, Operate(o)
          PROVE  redemptions' = redemptions \/ SavePayout(o) \/ SaveConfirm(o)
      BY <2>2 DEF Operate, Enqueue, EnqueueRefused, BurnConfirmed, BurnRefused, BurnUnanswered
    <2>3. ASSUME NEW h \in Holders, Reclaim(h)
          PROVE  redemptions' = redemptions \/ SaveReclaim(h)
      BY <2>3 DEF Reclaim, ReclaimConfirmed, ReclaimRefused, ReclaimUnanswered
    <2>4. ASSUME \/ \E q \in Requesters, u \in Account, a \in Amounts : ReadSeq(q, u, a)
                 \/ \E o \in Operators, j \in Key : StartPayout(o, j) \/ StartConfirm(o, j)
                 \/ \E h \in Holders, j \in Key : StartReclaim(h, j)
                 \/ \E l \in late : Land(l)
                 \/ \E p \in Procs : DropCall(p)
                 \/ OnRamp \/ Elapse \/ UNCHANGED redemptionVars
          PROVE  redemptions' = redemptions
      BY <2>4 DEF ReadSeq, StartPayout, StartConfirm, StartReclaim, Land, DropCall, OnRamp,
                  Elapse, redemptionVars
    <2> QED
      BY <1>4, <2>1, <2>2, <2>3, <2>4 DEF RedemptionNext, OffRampNext
  <1> QED
    BY <1>1, <1>2, <1>3, <1>5

\* What a step off Requested finds at the ledger.
LEMMA StepHeld ==
  ASSUME RedemptionInv, [RedemptionNext]_redemptionVars, NEW k \in Key,
         Row(k) = "requested", Row(k)' \notin {"requested", "failed"}
  PROVE  escrows[k].status \in {"held", "burned"} /\ redemptions'[k].at >= escrows[k].at
  <1>1. RowStep(k)
    BY StepRow
  <1> QED
    BY <1>1 DEF RowStep, Row, PostEscrow

\* Submitted grants nothing: a row leaves Requested, other than for Failed, only
\* over tokens the ledger holds or has burned, and dated no earlier than they.
THEOREM EscrowedIsHeldAlways == RedemptionSpec => EscrowedIsHeld
  <1>1. RedemptionInv /\ [RedemptionNext]_redemptionVars =>
          [\A k \in Key :
             Row(k) = "requested" /\ Row(k)' \notin {"requested", "failed"} =>
               /\ escrows[k].status \in {"held", "burned"}
               /\ redemptions'[k].at >= escrows[k].at]_redemptionVars
    BY StepHeld
  <1> QED
    BY <1>1, RedemptionInvariance, PTL DEF RedemptionSpec, EscrowedIsHeld

\* What any step leaves of a row that exists.
LEMMA StepOnce ==
  ASSUME RedemptionInv, [RedemptionNext]_redemptionVars, NEW k \in Key
  PROVE  /\ Row(k) # "none" => redemptions'[k].amount = redemptions[k].amount
         /\ Row(k) \notin {"none", "requested"} /\ Row(k)' # Row(k)
              => Row(k)' \in {"payout_queued", "confirmed", "reclaimed"}
  <1>1. RowStep(k)
    BY StepRow
  <1> QED
    BY <1>1 DEF RowStep, Row

\* No copy reopens a redemption: a row keeps its amount and never goes back to
\* Requested, Escrowed or Failed once it has left Requested.
THEOREM RequestedOnceAlways == RedemptionSpec => RequestedOnce
  <1>1. RedemptionInv /\ [RedemptionNext]_redemptionVars =>
          [\A k \in Key :
             /\ Row(k) # "none" => redemptions'[k].amount = redemptions[k].amount
             /\ Row(k) \notin {"none", "requested"} /\ Row(k)' # Row(k)
                  => Row(k)' \in {"payout_queued", "confirmed", "reclaimed"}]_redemptionVars
    BY StepOnce
  <1> QED
    BY <1>1, RedemptionInvariance, PTL DEF RedemptionSpec, RequestedOnce

-----------------------------------------------------------------------------
\* Tokens leave escrow for their holder in a reclaim alone, and every reclaim that
\* can still land was started on a row whose own delta had passed.
LEMMA ReclaimMature ==
  ASSUME RedemptionInv, NEW k \in Key, escrows[k].status = "held",
         Row(k) \in PostEscrow, now - redemptions[k].at >= Delta
  PROVE  now - escrows[k].at >= Delta
  <1>1. escrows[k].at <= redemptions[k].at
    BY DEF RedemptionInv, StampsAgree
  <1>2. /\ escrows[k].at \in Nat /\ redemptions[k].at \in Nat /\ now \in Nat /\ Delta \in Nat
    BY RedemptionAssumption
       DEF RedemptionInv, RedemptionTypeOK, TreasuryTypeOK, EscrowRecords, RedemptionRows
  <1> QED
    BY <1>1, <1>2

\* What a step does to an escrow record, and which steps do it.
LEMMA StepEscrow ==
  ASSUME RedemptionInv, [RedemptionNext]_redemptionVars, NEW k \in Key
  PROVE  \/ escrows'[k] = escrows[k]
         \/ escrows'[k].status # "none"
         \/ \E h \in Holders : pc[h] = "reclaim" /\ job[h].key = k
         \/ LateCall("reclaim", k)
  <1>a. RedemptionTypeOK
    BY DEF RedemptionInv
  <1>b. ASSUME NEW j \in Key, NEW a, LedgerEscrow(j, a)
        PROVE  escrows'[k] = escrows[k] \/ escrows'[k].status = "held"
    BY <1>a, <1>b DEF LedgerEscrow, RedemptionTypeOK, TreasuryTypeOK
  <1>c. ASSUME NEW j \in Key, LedgerBurn(j)
        PROVE  escrows'[k] = escrows[k] \/ escrows'[k].status = "burned"
    <2>1. /\ escrows[j] \in EscrowRecords
          /\ escrows' = [escrows EXCEPT ![j] = [escrows[j] EXCEPT !.status = "burned"]]
      BY <1>a, <1>c DEF LedgerBurn, RedemptionTypeOK, TreasuryTypeOK
    <2>2. [escrows[j] EXCEPT !.status = "burned"].status = "burned"
      BY <2>1 DEF EscrowRecords
    <2> QED
      BY <1>a, <2>1, <2>2 DEF RedemptionTypeOK, TreasuryTypeOK
  <1>d. ASSUME NEW j \in Key, LedgerReclaim(j)
        PROVE  escrows'[k] = escrows[k] \/ k = j
    BY <1>a, <1>d DEF LedgerReclaim, RedemptionTypeOK, TreasuryTypeOK
  <1>e. \A p \in Procs : pc[p] # "idle" => job[p].key \in Key
    BY <1>a DEF RedemptionTypeOK, Copies
  <1>f. /\ \A q \in Requesters : q \in Procs
        /\ \A o \in Operators : o \in Procs
        /\ \A h \in Holders : h \in Procs
    BY DEF Procs
  <1>g. UNCHANGED treasuryVars => escrows' = escrows
    BY DEF treasuryVars, ledgerVars
  <1>1. ASSUME NEW q \in Requesters, Request(q)
        PROVE  escrows'[k] = escrows[k] \/ escrows'[k].status # "none"
    <2>1. CASE EscrowConfirmed(q)
      <3>1. PICK j \in Key : j = job[q].key
        BY <1>e, <1>f, <2>1 DEF EscrowConfirmed
      <3>2. LedgerEscrow(j, job[q].amount)
        BY <2>1, <3>1 DEF EscrowConfirmed
      <3> QED
        BY <1>a, <3>2 DEF LedgerEscrow, RedemptionTypeOK, TreasuryTypeOK
    <2> QED
      BY <1>1, <1>g, <2>1
         DEF Request, InsertRow, InsertConflict, EscrowRefused, LedgerEscrowRefused,
             EscrowSubmitted, EscrowFailed, SaveEscrow
  <1>2. ASSUME NEW o \in Operators, Operate(o)
        PROVE  escrows'[k] = escrows[k] \/ escrows'[k].status # "none"
    <2>1. CASE BurnConfirmed(o)
      <3>1. PICK j \in Key : j = job[o].key
        BY <1>e, <1>f, <2>1 DEF BurnConfirmed
      <3>2. LedgerBurn(j)
        BY <2>1, <3>1 DEF BurnConfirmed
      <3> QED
        BY <1>c, <3>2
    <2> QED
      BY <1>2, <1>g, <2>1
         DEF Operate, SavePayout, Enqueue, EnqueueRefused, BurnRefused, LedgerBurnRefused,
             BurnUnanswered, SaveConfirm
  <1>3. ASSUME NEW h \in Holders, Reclaim(h)
        PROVE  escrows'[k] = escrows[k] \/ (pc[h] = "reclaim" /\ job[h].key = k)
    <2>1. CASE ReclaimConfirmed(h)
      <3>1. PICK j \in Key : j = job[h].key
        BY <1>e, <1>f, <2>1 DEF ReclaimConfirmed
      <3>2. LedgerReclaim(j) /\ pc[h] = "reclaim"
        BY <2>1, <3>1 DEF ReclaimConfirmed
      <3> QED
        BY <1>d, <3>1, <3>2
    <2> QED
      BY <1>3, <1>g, <2>1
         DEF Reclaim, ReclaimRefused, LedgerReclaimRefused, ReclaimUnanswered, SaveReclaim
  <1>4. ASSUME NEW l \in late, Land(l)
        PROVE  \/ escrows'[k] = escrows[k]
               \/ escrows'[k].status # "none"
               \/ LateCall("reclaim", k)
    <2>1. PICK j \in Key : j = l.key
      BY <1>a DEF RedemptionTypeOK
    <2>2. CASE l.op = "escrow" /\ LedgerEscrow(j, redemptions[j].amount)
      BY <1>a, <2>2 DEF LedgerEscrow, RedemptionTypeOK, TreasuryTypeOK
    <2>3. CASE l.op = "burn" /\ LedgerBurn(j)
      BY <1>c, <2>3
    <2>4. CASE l.op = "reclaim" /\ LedgerReclaim(j)
      <3>1. l = [op |-> "reclaim", key |-> j]
        BY <1>a, <2>1, <2>4 DEF RedemptionTypeOK
      <3>2. LateCall("reclaim", j)
        BY <3>1 DEF LateCall
      <3> QED
        BY <1>d, <2>4, <3>2
    <2>5. CASE UNCHANGED treasuryVars
      BY <1>g, <2>5
    <2> QED
      BY <1>4, <2>1, <2>2, <2>3, <2>4, <2>5 DEF Land
  <1>5. ASSUME \/ \E q \in Requesters, u \in Account, a \in Amounts : ReadSeq(q, u, a)
               \/ \E o \in Operators, j \in Key : StartPayout(o, j) \/ StartConfirm(o, j)
               \/ \E h \in Holders, j \in Key : StartReclaim(h, j)
               \/ \E p \in Procs : DropCall(p)
               \/ UNCHANGED redemptionVars
        PROVE  escrows' = escrows
    BY <1>5, <1>g
       DEF ReadSeq, StartPayout, StartConfirm, StartReclaim, DropCall, redemptionVars
  <1>6. ASSUME OnRamp \/ Elapse
        PROVE  escrows' = escrows
    BY <1>6 DEF OnRamp, LedgerIssue, Elapse, Tick, ledgerVars
  <1> QED
    BY <1>1, <1>2, <1>3, <1>4, <1>5, <1>6 DEF RedemptionNext, OffRampNext

\* What a step that gives held tokens back finds on the clock.
LEMMA StepDelta ==
  ASSUME RedemptionInv, [RedemptionNext]_redemptionVars, NEW k \in Key,
         escrows[k].status = "held", escrows'[k].status = "none"
  PROVE  now - escrows[k].at >= Delta
  <1>1. (\E h \in Holders : pc[h] = "reclaim" /\ job[h].key = k) \/ LateCall("reclaim", k)
    BY StepEscrow
  <1>2. CASE \E h \in Holders : pc[h] = "reclaim" /\ job[h].key = k
    <2>1. PICK h \in Holders : pc[h] = "reclaim" /\ job[h].key = k
      BY <1>2
    <2>2. HoldsRedemption(h) /\ Carries(h)
      BY <2>1 DEF RedemptionInv, Procs, Carries
    <2>3. Row(k) \in PostEscrow /\ now - redemptions[k].at >= Delta
      BY <2>1, <2>2 DEF HoldsRedemption
    <2> QED
      BY <2>3, ReclaimMature
  <1>3. CASE LateCall("reclaim", k)
    BY <1>3, ReclaimMature DEF RedemptionInv, LateCallsAgree
  <1> QED
    BY <1>1, <1>2, <1>3

\* The delta clock: the ledger gives held tokens back only when it has held them
\* for the service's whole delta, whichever reclaim asked and whenever it lands.
THEOREM ReclaimHonoursDeltaAlways == RedemptionSpec => ReclaimHonoursDelta
  <1>1. RedemptionInv /\ [RedemptionNext]_redemptionVars =>
          [\A k \in Key :
             escrows[k].status = "held" /\ escrows'[k].status = "none"
               => now - escrows[k].at >= Delta]_redemptionVars
    BY StepDelta
  <1> QED
    BY <1>1, RedemptionInvariance, PTL DEF RedemptionSpec, ReclaimHonoursDelta

-----------------------------------------------------------------------------
\* The off-ramp implements EscrowPromise.

\* What a step does to the tokens and the wires, and what the row says when it does.
RowsStay == UNCHANGED <<redemptions, payouts>>

Effect ==
  \/ UNCHANGED <<supply, balances, escrows, payouts>>
  \/ \E k \in Key : Row(k) = "requested" /\ LedgerEscrow(k, redemptions[k].amount) /\ RowsStay
  \/ \E k \in Key : LedgerBurn(k) /\ RowsStay
  \/ \E k \in Key : Row(k) \in PostEscrow /\ LedgerReclaim(k) /\ RowsStay
  \/ \E k \in Key : /\ Row(k) \in PostEscrow
                    /\ \A w \in payouts : w[1] # k
                    /\ payouts' = payouts \cup {<<k, redemptions[k].amount>>}
                    /\ UNCHANGED <<supply, balances, escrows, redemptions>>
  \/ \E w \in Account, a \in Nat, r \in Ref : LedgerIssue(w, a, r) /\ RowsStay

\* Every step has one of these effects.
LEMMA StepEffect ==
  ASSUME RedemptionInv, [RedemptionNext]_redemptionVars
  PROVE  Effect
  <1>a. RedemptionTypeOK /\ Amounts \subseteq Nat
    BY TreasuryAssumption DEF RedemptionInv
  <1>b. ASSUME NEW p \in Procs, pc[p] # "idle"
        PROVE  /\ job[p].key \in Key /\ HoldsRedemption(p)
    BY <1>a, <1>b DEF RedemptionTypeOK, RedemptionInv, Copies
  <1>c. UNCHANGED treasuryVars => UNCHANGED <<supply, balances, escrows>>
    BY DEF treasuryVars, ledgerVars
  <1>d. /\ \A q \in Requesters : q \in Procs
        /\ \A o \in Operators : o \in Procs
        /\ \A h \in Holders : h \in Procs
    BY DEF Procs
  <1>1. ASSUME NEW q \in Requesters, Request(q)
        PROVE  Effect
    <2>1. CASE EscrowConfirmed(q)
      <3>1. PICK k \in Key : k = job[q].key
        BY <1>b, <1>d, <2>1 DEF EscrowConfirmed
      <3>2. Row(k) = "requested" /\ redemptions[k].amount = job[q].amount
        BY <1>b, <1>d, <2>1, <3>1 DEF EscrowConfirmed, HoldsRedemption, AtEscrow
      <3> QED
        BY <2>1, <3>1, <3>2 DEF EscrowConfirmed, Effect, RowsStay
    <2> QED
      BY <1>1, <1>c, <2>1
         DEF Request, InsertRow, InsertConflict, EscrowRefused, LedgerEscrowRefused,
             EscrowSubmitted, EscrowFailed, SaveEscrow, Effect
  <1>2. ASSUME NEW o \in Operators, Operate(o)
        PROVE  Effect
    <2>1. CASE BurnConfirmed(o)
      <3>1. PICK k \in Key : k = job[o].key
        BY <1>b, <1>d, <2>1 DEF BurnConfirmed
      <3> QED
        BY <2>1, <3>1 DEF BurnConfirmed, Effect, RowsStay
    <2>2. CASE Enqueue(o)
      <3>1. PICK k \in Key : k = job[o].key
        BY <1>b, <1>d, <2>2 DEF Enqueue
      <3>2. Row(k) \in PostEscrow /\ redemptions[k].amount = job[o].amount
        BY <1>b, <1>d, <2>2, <3>1 DEF Enqueue, HoldsRedemption, Carries
      <3>3. CASE \E w \in payouts : w[1] = k
        BY <1>c, <2>2, <3>1, <3>3 DEF Enqueue, Effect
      <3>4. CASE ~\E w \in payouts : w[1] = k
        BY <1>c, <2>2, <3>1, <3>2, <3>4 DEF Enqueue, Effect
      <3> QED
        BY <3>3, <3>4
    <2> QED
      BY <1>2, <1>c, <2>1, <2>2
         DEF Operate, SavePayout, EnqueueRefused, BurnRefused, LedgerBurnRefused,
             BurnUnanswered, SaveConfirm, Effect
  <1>3. ASSUME NEW h \in Holders, Reclaim(h)
        PROVE  Effect
    <2>1. CASE ReclaimConfirmed(h)
      <3>1. PICK k \in Key : k = job[h].key
        BY <1>b, <1>d, <2>1 DEF ReclaimConfirmed
      <3>2. Row(k) \in PostEscrow
        BY <1>b, <1>d, <2>1, <3>1 DEF ReclaimConfirmed, HoldsRedemption, Carries
      <3> QED
        BY <2>1, <3>1, <3>2 DEF ReclaimConfirmed, Effect, RowsStay
    <2> QED
      BY <1>3, <1>c, <2>1
         DEF Reclaim, ReclaimRefused, LedgerReclaimRefused, ReclaimUnanswered, SaveReclaim, Effect
  <1>4. ASSUME NEW l \in late, Land(l)
        PROVE  Effect
    <2>1. PICK k \in Key : k = l.key
      BY <1>a DEF RedemptionTypeOK
    <2>2. RowsStay
      BY <1>4 DEF Land, RowsStay
    <2>3. CASE l.op = "escrow" /\ LedgerEscrow(k, redemptions[k].amount)
      <3>1. LateCall("escrow", k)
        BY <1>a, <2>1, <2>3 DEF LateCall, RedemptionTypeOK
      <3>2. Row(k) = "requested"
        BY <3>1 DEF RedemptionInv, LateCallsAgree
      <3> QED
        BY <2>2, <2>3, <3>2 DEF Effect
    <2>4. CASE l.op = "burn" /\ LedgerBurn(k)
      BY <2>2, <2>4 DEF Effect
    <2>5. CASE l.op = "reclaim" /\ LedgerReclaim(k)
      <3>1. LateCall("reclaim", k)
        BY <1>a, <2>1, <2>5 DEF LateCall, RedemptionTypeOK
      <3>2. Row(k) \in PostEscrow
        BY <3>1 DEF RedemptionInv, LateCallsAgree
      <3> QED
        BY <2>2, <2>5, <3>2 DEF Effect
    <2>6. CASE UNCHANGED treasuryVars
      BY <1>c, <2>2, <2>6 DEF Effect, RowsStay
    <2> QED
      BY <1>4, <2>1, <2>3, <2>4, <2>5, <2>6 DEF Land
  <1>5. ASSUME \/ \E q \in Requesters, u \in Account, a \in Amounts : ReadSeq(q, u, a)
               \/ \E o \in Operators, j \in Key : StartPayout(o, j) \/ StartConfirm(o, j)
               \/ \E h \in Holders, j \in Key : StartReclaim(h, j)
               \/ \E p \in Procs : DropCall(p)
               \/ UNCHANGED redemptionVars
        PROVE  Effect
    BY <1>5, <1>c
       DEF ReadSeq, StartPayout, StartConfirm, StartReclaim, DropCall, redemptionVars, Effect
  <1>6. OnRamp \/ Elapse => Effect
    BY <1>a DEF OnRamp, Elapse, Tick, ledgerVars, Effect, RowsStay
  <1> QED
    BY <1>1, <1>2, <1>3, <1>4, <1>5, <1>6 DEF RedemptionNext, OffRampNext

\* A redemption whose row and record a step leaves alone stands where it stood.
LEMMA VaultStays ==
  ASSUME NEW k \in Key, redemptions'[k] = redemptions[k], escrows'[k].status = escrows[k].status
  PROVE  EscrowStage(k)' = EscrowStage(k) /\ Vault'[k] = Vault[k]
  BY DEF Vault, EscrowStage, Row

\* Where the ledger holds or burned the tokens, the vault says so.
LEMMA VaultAmount ==
  ASSUME RedemptionInv, NEW k \in Key, escrows[k].status # "none"
  PROVE  Vault[k] = [stage |-> escrows[k].status, amount |-> escrows[k].amount]
  <1>1. escrows[k].amount = redemptions[k].amount /\ escrows[k].status # "open"
    BY DEF RedemptionInv, RowsMatchEscrows, RedemptionTypeOK, TreasuryTypeOK, EscrowRecords
  <1> QED
    BY <1>1 DEF Vault, EscrowStage

\* A step that moves no token and queues no wire does not show.
LEMMA RowsDoNotShow ==
  ASSUME RedemptionInv, [RedemptionNext]_redemptionVars, UNCHANGED escrows
  PROVE  Vault' = Vault
  <1>1. ASSUME NEW k \in Key
        PROVE  Vault'[k] = Vault[k]
    <2>1. RowStep(k)
      BY StepRow
    <2>2. Row(k) = "none" => escrows[k].status = "none"
      BY DEF RedemptionInv, RowsMatchEscrows
    <2>3. /\ EscrowStage(k)' = EscrowStage(k)
          /\ EscrowStage(k) # "open" => redemptions'[k].amount = redemptions[k].amount
      BY <2>1, <2>2 DEF RowStep, EscrowStage, Row, PostEscrow
    <2> QED
      BY <2>3 DEF Vault
  <1> QED
    BY <1>1 DEF Vault

\* A step that changes one redemption's place in the vault and no other.
LEMMA VaultMoves ==
  ASSUME NEW k \in Key, NEW v, Vault'[k] = v, UNCHANGED redemptions,
         \A j \in Key \ {k} : escrows'[j] = escrows[j]
  PROVE  Vault' = [Vault EXCEPT ![k] = v]
  <1>1. \A j \in Key \ {k} : Vault'[j] = Vault[j]
    BY VaultStays
  <1> QED
    BY <1>1 DEF Vault

\* Every effect is a step of the promise, or does not show.
LEMMA EffectKeepsPromise ==
  ASSUME RedemptionInv, Effect, UNCHANGED escrows => Vault' = Vault
  PROVE  [Promise!EscrowNext]_<<Vault, payouts, supply, balances>>
  <1>a. RedemptionTypeOK /\ TreasuryTypeOK /\ Key = Promise!Keys
    BY DEF RedemptionInv, RedemptionTypeOK, Key, Promise!Keys
  <1>1. CASE UNCHANGED <<supply, balances, escrows, payouts>>
    BY <1>1
  <1>2. ASSUME NEW k \in Key, Row(k) = "requested", LedgerEscrow(k, redemptions[k].amount), RowsStay
        PROVE  Promise!EscrowNext
    <2> DEFINE a == redemptions[k].amount
    <2>1. /\ a \in Nat /\ balances[k[1]] \in Nat /\ a <= balances[k[1]]
          /\ escrows[k].status = "none"
          /\ escrows'[k] = [status |-> "held", amount |-> a, at |-> ledgerNow]
          /\ \A j \in Key \ {k} : escrows'[j] = escrows[j]
      BY <1>a, <1>2 DEF LedgerEscrow, RedemptionTypeOK, RedemptionRows, TreasuryTypeOK, Key
    <2>2. Vault[k] = Promise!Open
      BY <1>2, <2>1 DEF Vault, EscrowStage, PostEscrow, Promise!Open
    <2>3. Vault'[k] = [stage |-> "held", amount |-> a]
      BY <1>2, <2>1 DEF Vault, EscrowStage, RowsStay
    <2>4. Vault' = [Vault EXCEPT ![k] = [stage |-> "held", amount |-> a]]
      BY <1>2, <2>1, <2>3, VaultMoves DEF RowsStay
    <2>5. Promise!Hold(k, a)
      BY <1>2, <2>2, <2>4 DEF Promise!Hold, LedgerEscrow, RowsStay
    <2>6. a \in 0..balances[k[1]]
      BY <2>1
    <2> QED
      BY <1>a, <2>5, <2>6 DEF Promise!EscrowNext
  <1>3. ASSUME NEW k \in Key, LedgerBurn(k), RowsStay
        PROVE  Promise!EscrowNext
    <2>1. /\ escrows[k].status = "held" /\ escrows'[k].status = "burned"
          /\ escrows'[k].amount = escrows[k].amount
          /\ \A j \in Key \ {k} : escrows'[j] = escrows[j]
      <3>1. /\ escrows[k] \in EscrowRecords
            /\ escrows' = [escrows EXCEPT ![k] = [escrows[k] EXCEPT !.status = "burned"]]
        BY <1>a, <1>3 DEF LedgerBurn, TreasuryTypeOK
      <3>2. /\ [escrows[k] EXCEPT !.status = "burned"].status = "burned"
            /\ [escrows[k] EXCEPT !.status = "burned"].amount = escrows[k].amount
        BY <3>1 DEF EscrowRecords
      <3> QED
        BY <1>a, <1>3, <3>1, <3>2 DEF LedgerBurn, TreasuryTypeOK
    <2>2. /\ Vault[k] = [stage |-> "held", amount |-> escrows[k].amount]
          /\ Vault'[k] = [stage |-> "burned", amount |-> escrows[k].amount]
      <3>1. Vault[k] = [stage |-> "held", amount |-> escrows[k].amount]
        BY <2>1, VaultAmount
      <3>2. escrows[k].amount = redemptions[k].amount
        BY <2>1 DEF RedemptionInv, RowsMatchEscrows
      <3> QED
        BY <1>3, <2>1, <3>1, <3>2 DEF Vault, EscrowStage, RowsStay
    <2>3. Vault' = [Vault EXCEPT ![k] = [stage |-> "burned", amount |-> escrows[k].amount]]
      BY <1>3, <2>1, <2>2, VaultMoves DEF RowsStay
    <2>4. Promise!Burn(k)
      BY <1>3, <2>2, <2>3 DEF Promise!Burn, LedgerBurn, RowsStay
    <2> QED
      BY <1>a, <2>4 DEF Promise!EscrowNext
  <1>4. ASSUME NEW k \in Key, Row(k) \in PostEscrow, LedgerReclaim(k), RowsStay
        PROVE  Promise!EscrowNext
    <2>1. /\ escrows[k].status = "held" /\ escrows'[k].status = "none"
          /\ \A j \in Key \ {k} : escrows'[j] = escrows[j]
      BY <1>a, <1>4 DEF LedgerReclaim, TreasuryTypeOK, NoEscrow
    <2>2. /\ Vault[k] = [stage |-> "held", amount |-> escrows[k].amount]
          /\ Vault'[k] = [stage |-> "returned", amount |-> escrows[k].amount]
      <3>1. Vault[k] = [stage |-> "held", amount |-> escrows[k].amount]
        BY <2>1, VaultAmount
      <3>2. escrows[k].amount = redemptions[k].amount
        BY <2>1 DEF RedemptionInv, RowsMatchEscrows
      <3> QED
        BY <1>4, <2>1, <3>1, <3>2 DEF Vault, EscrowStage, Row, RowsStay
    <2>3. Vault' = [Vault EXCEPT ![k] = [stage |-> "returned", amount |-> escrows[k].amount]]
      BY <1>4, <2>1, <2>2, VaultMoves DEF RowsStay
    <2>4. Promise!Return(k)
      BY <1>4, <2>2, <2>3 DEF Promise!Return, LedgerReclaim, RowsStay
    <2> QED
      BY <1>a, <2>4 DEF Promise!EscrowNext
  <1>5. ASSUME NEW k \in Key, Row(k) \in PostEscrow, \A w \in payouts : w[1] # k,
               payouts' = payouts \cup {<<k, redemptions[k].amount>>},
               UNCHANGED <<supply, balances, escrows, redemptions>>
        PROVE  Promise!EscrowNext
    <2>1. EscrowStage(k) # "open"
      BY <1>a, <1>5 DEF EscrowStage, TreasuryTypeOK, EscrowRecords
    <2>2. Vault[k] # Promise!Open /\ Vault[k].amount = redemptions[k].amount
      BY <2>1 DEF Vault, Promise!Open
    <2>3. Promise!Wire(k)
      BY <1>5, <2>2 DEF Promise!Wire
    <2> QED
      BY <1>a, <2>3 DEF Promise!EscrowNext
  <1>6. ASSUME NEW w \in Account, NEW a \in Nat, NEW r \in Ref, LedgerIssue(w, a, r), RowsStay
        PROVE  Promise!EscrowNext
    <2>1. supply \in Nat /\ a > 0 /\ supply' = supply + a /\ UNCHANGED escrows
      BY <1>a, <1>6 DEF LedgerIssue, MayIssue, TreasuryTypeOK
    <2>2. supply' \in Nat /\ supply' > supply /\ supply' - supply = a
      BY <2>1
    <2>3. Promise!Credit(w)
      BY <1>6, <2>1, <2>2 DEF Promise!Credit, LedgerIssue, RowsStay
    <2> QED
      BY <2>3 DEF Promise!EscrowNext
  <1> QED
    BY <1>1, <1>2, <1>3, <1>4, <1>5, <1>6 DEF Effect

\* F4 and F7 as a refinement: from outside, a redemption's tokens are held once, then
\* burned or returned once, and its wire is queued at most once, for what was held.
THEOREM RedemptionKeepsPromise == RedemptionSpec => KeepsEscrowPromise
  <1>1. RedemptionInit => Promise!EscrowInit
    BY DEF RedemptionInit, TreasuryInit, NoEscrow, NoRedemption, Promise!EscrowInit, Promise!Open,
           Promise!Keys, Key, Vault, EscrowStage, Row, PostEscrow
  <1>2. RedemptionInv /\ [RedemptionNext]_redemptionVars
          => [Promise!EscrowNext]_Promise!escrowVars
    BY StepEffect, RowsDoNotShow, EffectKeepsPromise DEF Promise!escrowVars
  <1> QED
    BY <1>1, <1>2, RedemptionInvariance, PTL
       DEF RedemptionSpec, KeepsEscrowPromise, Promise!EscrowSpec
=============================================================================
