------------------------------ MODULE Issuance ------------------------------
(***************************************************************************)
(* The on-ramp: IssuanceService over a DepositRepository and a ledger, and *)
(* ReserveService::attest, which publishes the ceiling it issues against.  *)
(*                                                                         *)
(* handle_deposit runs once per webhook delivery, on any number of tokio   *)
(* tasks; retry_all_held runs in the reconciler loop.  Both suspend at     *)
(* every port call, so each action below is the code from one port call's  *)
(* effect to the next, and a process keeps in `job', `at' and `snap' the   *)
(* locals it carries across.  Repository::update overwrites the row with   *)
(* the caller's copy, whatever state the row has reached meanwhile.        *)
(*                                                                         *)
(* Processes: Handlers deliver webhooks, Sweep retries held deposits,      *)
(* Attestors call attest.  A ledger whose reply can be lost (Lossy) may    *)
(* answer Submitted and mint later or never; the simulated ledger answers  *)
(* in the call.                                                            *)
(***************************************************************************)
EXTENDS Treasury

CONSTANTS
  Handlers,     \* concurrent webhook deliveries
  Sweep,        \* the reconciler task
  Attestors,    \* concurrent attest calls
  Nobody,       \* neither a Ref nor an Account: the fields of an absent record
  Lossy,        \* TRUE: issue may reply Submitted, Failed or a transport error
  MaxCrashes    \* bound on dropped handlers and restarts

Procs == Handlers \cup {Sweep}

ASSUME IssuanceAssumption ==
  /\ Sweep \notin Handlers
  /\ Nobody \notin Ref
  /\ Nobody \notin Account
  /\ Lossy \in BOOLEAN
  /\ MaxCrashes \in Nat

VARIABLES
  deposits,   \* DepositRepository: a row per Ref, "none" where there is no row
  pc,         \* where each process is suspended; an outcome when it has returned
  job,        \* the process's Deposit: [ref, wallet, amount]
  at,         \* the `now' the process captured
  snap,       \* the snapshot half of effective_reserve
  todo,       \* deposits the sweep has listed and not yet retried
  inflight,   \* mints the ledger accepted but has not answered
  pending,    \* attest calls between total_encumbered and update_attestation
  crashes

rowVars == <<deposits, todo, inflight>>
procVars == <<pc, job, at, snap>>
issuanceVars == <<treasuryVars, rowVars, procVars, pending, crashes>>

DepositStates == {"none", "observed", "screened", "attested", "issued", "encumbered"}
Outcomes == {"Issued", "AlreadyIssued", "Encumbered", "Held", "Error"}
Told == {"Issued", "AlreadyIssued", "Encumbered"}
Suspended == {"find", "screen", "snapshot", "check", "saveAttested", "issue", "saveIssued"}

Jobs == [ref: Ref, wallet: Account, amount: Nat]
Rows == [state: DepositStates \ {"none"}, wallet: Account, amount: Nat]
NoRow == [state |-> "none", wallet |-> Nobody, amount |-> 0]
NoJob == [ref |-> Nobody, wallet |-> Nobody, amount |-> 0]
NoSnap == [att |-> [reserve |-> 0, ts |-> 0], supply |-> 0]
NoAttest == [busy |-> FALSE, reserve |-> 0, enc |-> 0]

IssuanceTypeOK ==
  /\ TreasuryTypeOK
  /\ deposits \in [Ref -> Rows \cup {NoRow}]
  /\ pc \in [Procs -> {"idle"} \cup Suspended \cup Outcomes]
  /\ job \in [Procs -> Jobs \cup {NoJob}]
  /\ \A p \in Procs : pc[p] \in Suspended \cup Told => job[p] \in Jobs
  /\ at \in [Procs -> Nat]
  /\ snap \in [Procs -> [att: [reserve: Nat, ts: Nat], supply: Nat]]
  /\ todo \subseteq Ref
  /\ inflight \subseteq Ref
  /\ pending \in [Attestors -> [busy: BOOLEAN, reserve: Nat, enc: Nat]]
  /\ crashes \in Nat

IssuanceInit ==
  /\ TreasuryInit
  /\ deposits = [r \in Ref |-> NoRow]
  /\ pc = [p \in Procs |-> "idle"]
  /\ job = [p \in Procs |-> NoJob]
  /\ at = [p \in Procs |-> 0]
  /\ snap = [p \in Procs |-> NoSnap]
  /\ todo = {}
  /\ inflight = {}
  /\ pending = [a \in Attestors |-> NoAttest]
  /\ crashes = 0

-----------------------------------------------------------------------------
State(r) == deposits[r].state

\* SUM(amount) over the encumbering rows (Deposit::is_encumbering).
RecordedAmount == [r \in Ref |-> deposits[r].amount]
Encumbering == {r \in Ref : State(r) = "encumbered"}
TotalEncumbered == SumFunctionOnSet(RecordedAmount, Encumbering)

\* Repository::update: the caller's whole Deposit replaces the row.
Save(p, state) ==
  deposits' = [deposits EXCEPT ![job[p].ref] =
                 [state |-> state, wallet |-> job[p].wallet, amount |-> job[p].amount]]

Free(p) == pc[p] \notin Suspended

Goto(p, place) ==
  /\ pc' = [pc EXCEPT ![p] = place]
  /\ UNCHANGED <<job, at, snap>>

\* A process returns: its locals are dropped, but for the job an outcome is about.
Return(p, outcome) ==
  /\ pc' = [pc EXCEPT ![p] = outcome]
  /\ job' = [job EXCEPT ![p] = IF outcome \in Told THEN @ ELSE NoJob]
  /\ at' = [at EXCEPT ![p] = 0]
  /\ snap' = [snap EXCEPT ![p] = NoSnap]

-----------------------------------------------------------------------------
\* handle_deposit, up to the compliance screen.

\* Mutant: the insert is an upsert.
MutDeliverUpserts(h, r, w, a) ==
  /\ Free(h)
  /\ job' = [job EXCEPT ![h] = [ref |-> r, wallet |-> w, amount |-> a]]
  /\ at' = [at EXCEPT ![h] = now]
  /\ snap' = [snap EXCEPT ![h] = NoSnap]
  /\ deposits' = [deposits EXCEPT ![r] = [state |-> "observed", wallet |-> w, amount |-> a]]
  /\ pc' = [pc EXCEPT ![h] = "screen"]
  /\ UNCHANGED <<treasuryVars, todo, inflight, pending, crashes>>

\* Deposit::observe and DepositRepository::insert: the row is created, or the
\* insert conflicts with the row an earlier delivery created.
Deliver(h, r, w, a) ==
  /\ Free(h)
  /\ job' = [job EXCEPT ![h] = [ref |-> r, wallet |-> w, amount |-> a]]
  /\ at' = [at EXCEPT ![h] = now]
  /\ snap' = [snap EXCEPT ![h] = NoSnap]
  /\ \/ /\ State(r) = "none"
        /\ deposits' = [deposits EXCEPT ![r] = [state |-> "observed", wallet |-> w, amount |-> a]]
        /\ pc' = [pc EXCEPT ![h] = "screen"]
     \/ /\ State(r) # "none"
        /\ pc' = [pc EXCEPT ![h] = "find"]
        /\ UNCHANGED deposits
  /\ UNCHANGED <<treasuryVars, todo, inflight, pending, crashes>>

\* Mutant: a deposit that was attested is reported as issued.
MutReplayPriorEarly(h) ==
  /\ pc[h] = "find"
  /\ Return(h, CASE State(job[h].ref) \in {"attested", "issued"} -> "AlreadyIssued"
                 [] State(job[h].ref) = "encumbered" -> "Encumbered"
                 [] OTHER -> "Held")
  /\ UNCHANGED <<treasuryVars, rowVars, pending, crashes>>

\* A duplicate bank_ref is answered with the prior outcome, never re-run.
ReplayPrior(h) ==
  /\ pc[h] = "find"
  /\ Return(h, CASE State(job[h].ref) = "issued" -> "AlreadyIssued"
                 [] State(job[h].ref) = "encumbered" -> "Encumbered"
                 [] OTHER -> "Held")
  /\ UNCHANGED <<treasuryVars, rowVars, pending, crashes>>

ScreenPass(h) ==
  /\ pc[h] = "screen"
  /\ Save(h, "screened")
  /\ Goto(h, "snapshot")
  /\ UNCHANGED <<treasuryVars, todo, inflight, pending, crashes>>

ScreenFail(h) ==
  /\ pc[h] = "screen"
  /\ Save(h, "encumbered")
  /\ Return(h, "Encumbered")
  /\ UNCHANGED <<treasuryVars, todo, inflight, pending, crashes>>

\* compliance.screen(..).await? : the row stays as the insert left it.
ScreenError(h) ==
  /\ pc[h] = "screen"
  /\ Return(h, "Error")
  /\ UNCHANGED <<treasuryVars, rowVars, pending, crashes>>

-----------------------------------------------------------------------------
\* retry_all_held, up to where retry_held joins handle_deposit's path.

\* Mutant: the query for held deposits names the wrong state.
MutListHeldObserved ==
  /\ Free(Sweep)
  /\ todo = {}
  /\ todo' = {r \in Ref : State(r) = "observed"}
  /\ todo' # {}
  /\ UNCHANGED <<treasuryVars, deposits, inflight, procVars, pending, crashes>>

\* DepositRepository::held.
ListHeld ==
  /\ Free(Sweep)
  /\ todo = {}
  /\ todo' = {r \in Ref : State(r) = "screened"}
  /\ todo' # {}
  /\ UNCHANGED <<treasuryVars, deposits, inflight, procVars, pending, crashes>>

\* retry_held re-reads the row and retries it only if it is still Screened.
RetryHeld(r) ==
  /\ Free(Sweep)
  /\ r \in todo
  /\ todo' = todo \ {r}
  /\ \/ /\ State(r) = "screened"
        /\ pc' = [pc EXCEPT ![Sweep] = "snapshot"]
        /\ job' = [job EXCEPT ![Sweep] =
                     [ref |-> r, wallet |-> deposits[r].wallet, amount |-> deposits[r].amount]]
        /\ at' = [at EXCEPT ![Sweep] = now]
        /\ UNCHANGED snap
     \/ /\ State(r) # "screened"
        /\ UNCHANGED procVars
  /\ UNCHANGED <<treasuryVars, deposits, inflight, pending, crashes>>

-----------------------------------------------------------------------------
\* The path both share: check the ceiling, record Attested, ask for the mint.

\* effective_reserve reads the ledger first ...
TakeSnapshot(p) ==
  /\ pc[p] = "snapshot"
  /\ snap' = [snap EXCEPT ![p] = [att |-> attested, supply |-> supply]]
  /\ pc' = [pc EXCEPT ![p] = "check"]
  /\ UNCHANGED <<treasuryVars, rowVars, job, at, pending, crashes>>

\* ... then its own encumbrance, and checks against the `now' captured at entry.
ServiceAllows(p) ==
  MayIssue(snap[p].att, TotalEncumbered, snap[p].supply, job[p].amount, at[p])

\* Mutant: the mint is asked for before Attested is recorded.
MutCheckReserveSkipsSave(p) ==
  /\ pc[p] = "check"
  /\ ServiceAllows(p)
  /\ pc' = [pc EXCEPT ![p] = "issue"]
  /\ snap' = [snap EXCEPT ![p] = NoSnap]
  /\ UNCHANGED <<treasuryVars, rowVars, job, at, pending, crashes>>

CheckReserve(p) ==
  /\ pc[p] = "check"
  /\ ServiceAllows(p)
  /\ pc' = [pc EXCEPT ![p] = "saveAttested"]
  /\ snap' = [snap EXCEPT ![p] = NoSnap]
  /\ UNCHANGED <<treasuryVars, rowVars, job, at, pending, crashes>>

HoldDeposit(p) ==
  /\ pc[p] = "check"
  /\ ~ServiceAllows(p)
  /\ Return(p, "Held")
  /\ UNCHANGED <<treasuryVars, rowVars, pending, crashes>>

SaveAttested(p) ==
  /\ pc[p] = "saveAttested"
  /\ Save(p, "attested")
  /\ Goto(p, "issue")
  /\ UNCHANGED <<treasuryVars, todo, inflight, pending, crashes>>

IssueConfirmed(p) ==
  /\ pc[p] = "issue"
  /\ LedgerIssue(job[p].wallet, job[p].amount, job[p].ref)
  /\ Goto(p, "saveIssued")
  /\ UNCHANGED <<rowVars, pending, crashes>>

\* ledger.issue(..).await? : F3, F5 or F1 refused it; the row stays Attested.
IssueRefused(p) ==
  /\ pc[p] = "issue"
  /\ LedgerIssueRefused(job[p].amount, job[p].ref)
  /\ Return(p, "Error")
  /\ UNCHANGED <<rowVars, pending, crashes>>

\* Mutant: accept-on-send.
MutIssueSubmittedCounts(p) ==
  /\ Lossy
  /\ pc[p] = "issue"
  /\ inflight' = inflight \cup {job[p].ref}
  /\ Goto(p, "saveIssued")
  /\ UNCHANGED <<treasuryVars, deposits, todo, pending, crashes>>

\* The request is with the ledger and its answer is not with us: Submitted, or
\* the transport failed after the request was stored.
IssueSubmitted(p) ==
  /\ Lossy
  /\ pc[p] = "issue"
  /\ inflight' = inflight \cup {job[p].ref}
  /\ \E outcome \in {"Held", "Error"} : Return(p, outcome)
  /\ UNCHANGED <<treasuryVars, deposits, todo, pending, crashes>>

\* Failed, or a transport error before the request was stored: no mint.
IssueFailed(p) ==
  /\ Lossy
  /\ pc[p] = "issue"
  /\ \E outcome \in {"Held", "Error"} : Return(p, outcome)
  /\ UNCHANGED <<treasuryVars, rowVars, pending, crashes>>

SaveIssued(p) ==
  /\ pc[p] = "saveIssued"
  /\ Save(p, "issued")
  /\ Return(p, "Issued")
  /\ UNCHANGED <<treasuryVars, todo, inflight, pending, crashes>>

\* A submitted mint lands, or is dropped; its process has long returned.
Land(r) ==
  /\ r \in inflight
  /\ inflight' = inflight \ {r}
  /\ \/ LedgerIssue(deposits[r].wallet, deposits[r].amount, r)
     \/ UNCHANGED treasuryVars
  /\ UNCHANGED <<deposits, todo, procVars, pending, crashes>>

-----------------------------------------------------------------------------
\* ReserveService::attest: the encumbrance is read, then published.

\* Mutant: what is read is the free backing, and it does not saturate.
MutAttestReadBacking(a, reserve) ==
  /\ ~pending[a].busy
  /\ pending' = [pending EXCEPT ![a] =
                   [busy |-> TRUE, reserve |-> reserve, enc |-> reserve - TotalEncumbered]]
  /\ UNCHANGED <<treasuryVars, rowVars, procVars, crashes>>

AttestRead(a, reserve) ==
  /\ ~pending[a].busy
  /\ pending' = [pending EXCEPT ![a] =
                   [busy |-> TRUE, reserve |-> reserve, enc |-> TotalEncumbered]]
  /\ UNCHANGED <<treasuryVars, rowVars, procVars, crashes>>

\* Mutant: the two figures are swapped.
MutAttestPublishSwapped(a) ==
  /\ pending[a].busy
  /\ LedgerAttest(pending[a].enc, pending[a].reserve)
  /\ pending' = [pending EXCEPT ![a] = NoAttest]
  /\ UNCHANGED <<rowVars, procVars, crashes>>

AttestPublish(a) ==
  /\ pending[a].busy
  /\ LedgerAttest(pending[a].reserve, pending[a].enc)
  /\ pending' = [pending EXCEPT ![a] = NoAttest]
  /\ UNCHANGED <<rowVars, procVars, crashes>>

\* An attestation carries no idempotency key: a message delivered again is
\* written again.
AttestAgain(a) ==
  /\ Lossy
  /\ pending[a].busy
  /\ LedgerAttest(pending[a].reserve, pending[a].enc)
  /\ UNCHANGED <<rowVars, procVars, pending, crashes>>

\* update_attestation answered Failed, or its request was lost: attest is an error.
AttestLost(a) ==
  /\ Lossy
  /\ pending[a].busy
  /\ pending' = [pending EXCEPT ![a] = NoAttest]
  /\ UNCHANGED <<treasuryVars, rowVars, procVars, crashes>>

-----------------------------------------------------------------------------
\* A client that disconnects drops its handler's future at the await it is
\* suspended at; a restart drops every future.  Rows and ledger survive.

DropHandler(h) ==
  /\ crashes < MaxCrashes
  /\ pc[h] \in Suspended
  /\ crashes' = crashes + 1
  /\ Return(h, "Error")
  /\ UNCHANGED <<treasuryVars, rowVars, pending>>

Restart ==
  /\ crashes < MaxCrashes
  /\ crashes' = crashes + 1
  /\ pc' = [p \in Procs |-> "idle"]
  /\ job' = [p \in Procs |-> NoJob]
  /\ at' = [p \in Procs |-> 0]
  /\ snap' = [p \in Procs |-> NoSnap]
  /\ todo' = {}
  /\ pending' = [a \in Attestors |-> NoAttest]
  /\ UNCHANGED <<treasuryVars, deposits, inflight>>

Elapse == Tick /\ UNCHANGED <<rowVars, procVars, pending, crashes>>

-----------------------------------------------------------------------------
Process(p) ==
  \/ TakeSnapshot(p) \/ CheckReserve(p) \/ HoldDeposit(p) \/ SaveAttested(p)
  \/ IssueConfirmed(p) \/ IssueRefused(p) \/ IssueSubmitted(p) \/ IssueFailed(p)
  \/ SaveIssued(p)

Handler(h) ==
  \/ \E r \in Ref, w \in Account, a \in Amounts : Deliver(h, r, w, a)
  \/ ReplayPrior(h) \/ ScreenPass(h) \/ ScreenFail(h) \/ ScreenError(h) \/ DropHandler(h)

\* The service's own steps; a restart and the clock are its environment's.
OnRampNext ==
  \/ \E h \in Handlers : Handler(h)
  \/ ListHeld
  \/ \E r \in Ref : RetryHeld(r) \/ Land(r)
  \/ \E p \in Procs : Process(p)
  \/ \E a \in Attestors :
       AttestPublish(a) \/ AttestAgain(a) \/ AttestLost(a) \/ \E r \in Reserves : AttestRead(a, r)

IssuanceNext == OnRampNext \/ Restart \/ Elapse

IssuanceSpec == IssuanceInit /\ [][IssuanceNext]_issuanceVars

\* tokio polls a task whose port call has completed, so a suspended process
\* takes its next step; the reconciler loop keeps sweeping; a submitted mint is
\* eventually resolved by the ledger.  Nothing obliges the bank to redeliver,
\* the attestor to attest or the clock to be at any particular time.
Fairness ==
  /\ \A p \in Procs : WF_issuanceVars(Process(p))
  /\ \A h \in Handlers :
       /\ WF_issuanceVars(ScreenPass(h) \/ ScreenFail(h) \/ ScreenError(h))
       /\ WF_issuanceVars(ReplayPrior(h))
  /\ WF_issuanceVars(ListHeld)
  /\ \A r \in Ref : WF_issuanceVars(RetryHeld(r)) /\ WF_issuanceVars(Land(r))
  /\ \A a \in Attestors : WF_issuanceVars(AttestPublish(a) \/ AttestLost(a))

FairIssuanceSpec == IssuanceSpec /\ Fairness

-----------------------------------------------------------------------------
\* F2, the half the records can promise: a row says Issued only when the ledger
\* minted for that bank_ref, and a bank_ref the ledger minted for has a row that
\* at least reached Attested -- through every overwrite, lost reply and crash.
RecordsMatchMints ==
  \A r \in Ref :
    /\ State(r) = "issued" => r \in nullifiers
    /\ r \in nullifiers => State(r) \in {"attested", "issued"}

\* F3 as a sum: supply is exactly the recorded amounts of the bank_refs minted
\* for, so no delivery, sweep or late landing minted a second time or minted an
\* amount other than the one recorded first.
SupplyIsMintedOnce == supply = SumFunctionOnSet(RecordedAmount, nullifiers)

\* What a partner is told is true of the ledger: Issued and AlreadyIssued mean
\* minted, Encumbered means refused and never to be minted.
HonestOutcome ==
  \A p \in Procs :
    /\ pc[p] \in {"Issued", "AlreadyIssued"} => job[p].ref \in nullifiers
    /\ pc[p] = "Encumbered" => /\ State(job[p].ref) = "encumbered"
                               /\ job[p].ref \notin nullifiers
                               /\ job[p].ref \notin inflight

\* The encumbrance the ledger enforces is never more than the deposit records
\* hold: a stale attest may understate it, nothing overstates it, so a deposit
\* the service could back is not refused for fiat that is not encumbered.
PublishedEncumbranceIsRecorded == encumbered <= TotalEncumbered

\* "Replaying a deposit that previously failed KYC must not get a second
\* screen" (handle_deposit): whatever copy a process writes back, a row keeps
\* the wallet and amount it was created with, leaves Observed once, and never
\* returns to Screened.  An Encumbered row is final.  The one step back the code
\* does allow, from Issued to Attested, is IssuedIsTerminal's subject.
RowAdvances(r) ==
  \/ deposits'[r] = deposits[r]
  \/ State(r) = "none" /\ State(r)' = "observed"
  \/ /\ deposits'[r] = [deposits[r] EXCEPT !.state = State(r)']
     /\ \/ State(r) = "observed" /\ State(r)' \in {"screened", "encumbered"}
        \/ State(r) \in {"screened", "attested"} /\ State(r)' = "attested"
        \/ State(r) \in {"attested", "issued"} /\ State(r)' \in {"attested", "issued"}

RowsAdvance == [][\A r \in Ref : RowAdvances(r)]_issuanceVars

\* A mint is preceded by the recorded attestation check (spec 5.2's barrier),
\* pays the recorded wallet the recorded amount, and happens once per bank_ref.
MintFollowsRecord ==
  [][supply' # supply =>
       \E r \in Ref \ nullifiers :
         /\ nullifiers' = nullifiers \cup {r}
         /\ State(r) \in {"attested", "issued"}
         /\ supply' = supply + deposits[r].amount
         /\ balances' = [balances EXCEPT ![deposits[r].wallet] = @ + deposits[r].amount]
    ]_issuanceVars

\* What a row and its nullifier say of a transfer, seen from outside.
Stage(r) ==
  CASE State(r) = "none" -> "unheard"
    [] State(r) \in {"observed", "screened"} -> "promised"
    [] State(r) = "encumbered" -> "refused"
    [] OTHER -> IF r \in nullifiers THEN "minted" ELSE "cleared"

Book == [r \in Ref |->
           [stage |-> Stage(r), wallet |-> deposits[r].wallet, amount |-> deposits[r].amount]]

Promise == INSTANCE MintPromise WITH book <- Book

\* F2 and F3 as one promise (invariant.rs): through every copy written back, retry,
\* late landing and restart, a transfer is heard once, refused or cleared once, and
\* minted once, after it was cleared, to the wallet and for the amount heard first.
KeepsMintPromise == Promise!MintSpec

\* Why the above hold: what a suspended process may rely on about the row it
\* will overwrite, and the inductive strengthening the proofs use.
Driving == Suspended \ {"find"}

HoldsRow(p) ==
  LET r == job[p].ref IN
  /\ pc[p] \in Driving =>
       deposits[r].wallet = job[p].wallet /\ deposits[r].amount = job[p].amount
  /\ pc[p] = "screen" => State(r) = "observed"
  /\ pc[p] \in {"snapshot", "check", "saveAttested"} =>
       State(r) \in {"screened", "attested", "issued"}
  /\ pc[p] = "issue" => State(r) \in {"attested", "issued"}
  /\ pc[p] \in {"saveIssued", "Issued", "AlreadyIssued"} => r \in nullifiers
  /\ pc[p] = "Encumbered" => State(r) = "encumbered"

InflightIsAttested == \A r \in inflight : State(r) \in {"attested", "issued"}

OneScreener ==
  \A p, q \in Procs :
    pc[p] = "screen" /\ pc[q] = "screen" /\ job[p].ref = job[q].ref => p = q

IssuanceInv ==
  /\ IssuanceTypeOK
  /\ RecordsMatchMints
  /\ InflightIsAttested
  /\ OneScreener
  /\ \A p \in Procs : HoldsRow(p)

\* A Screened deposit is not forgotten: unless the ceiling keeps closing on it,
\* the sweep carries it to an issue request, whatever crashed in between.
Open(r) == MayIssue(attested, TotalEncumbered, supply, deposits[r].amount, now)
HeldIsReleased ==
  \A r \in Ref : <>[]Open(r) => <>[](State(r) # "screened")

-----------------------------------------------------------------------------
\* What the documentation says and the code does not do: each is checked by a
\* run that expects TLC to refute it.

\* "Terminal, and irreversible" (deposit.rs, DepositState::Issued).
IssuedIsTerminal ==
  [][\A r \in Ref : State(r) = "issued" => State(r)' = "issued"]_issuanceVars

\* "The deposit stays in `attested` and the reconciler resolves it"
\* (issuance.rs, after a Submitted reply).
AttestedIsResolved ==
  \A r \in Ref : State(r) = "attested" ~> State(r) # "attested"

\* Held deposits are "retried after the next attestation refresh": a row a
\* duplicate delivery is told is held does not wait in Observed forever.
ObservedIsScreened ==
  \A r \in Ref : State(r) = "observed" ~> State(r) # "observed"

\* A confirmed attest is a refresh: the attestation it wrote is fresh by the
\* clock issuance is checked against.
RefreshIsFresh ==
  [][\A a \in Attestors :
       pending[a].busy /\ ~pending'[a].busy /\ crashes' = crashes
         => Fresh(attested'.ts, now)]_issuanceVars

\* "The chain's copy is as fresh as the last attestation" (reserve.rs, current):
\* an encumbrance the ledger was told of is not untold by a later attestation.
EncumbranceIsKept == [][encumbered' >= encumbered]_issuanceVars
=============================================================================
