------------------------------- MODULE Service -------------------------------
(***************************************************************************)
(* The process thbc-service: its configuration, the order in which it      *)
(* starts, what it keeps across a restart, the bank's webhook as far as    *)
(* the record it leaves, and the reconciler task.                          *)
(*                                                                         *)
(* A deployment is a fixed environment, under which the process starts,    *)
(* fails, serves, stops and starts again.  Postgres and the chain outlive  *)
(* it; the in-memory repositories and the simulated ledger do not.  What   *)
(* a deposit does between its record and its mint is Issuance; here it is  *)
(* one step with every place it can stop at.                               *)
(***************************************************************************)
EXTENDS Integers, Sequences, FiniteSets, FiniteSetsExt

CONSTANTS
  Urls,        \* [database, query]: what a Postgres URL names, and its query split at "/"
  NoUrl,       \* the variable is unset
  Shared,      \* the database `gridtokenx', which other services own
  Seconds,     \* values of the settings counted in seconds
  Raws,        \* bank_ref as webhooks spell it: sequences of characters
  Upper,       \* to_ascii_uppercase, character by character
  Blank,       \* white space
  MaxHeard     \* bound on the spellings a run delivers

ASSUME ServiceAssumption ==
  /\ NoUrl \notin Urls
  /\ Seconds \subseteq Int
  /\ Raws \subseteq Seq(DOMAIN Upper)
  /\ \A c \in DOMAIN Upper : Upper[c] = Blank <=> c = Blank
  /\ MaxHeard \in Nat

VARIABLES
  env,       \* the environment variables of the deployment
  stage,     \* how far `main' has come
  schemas,   \* the databases in which the service has created its tables
  rows,      \* deposit rows: the state of each normalised bank_ref
  minted,    \* the bank_refs the ledger has minted for
  loop,      \* where the reconciler task is
  quiet,     \* its unsupported_reported
  heard,     \* history: the spellings a webhook was answered for, since the rows began
  firsts     \* history: those that created a row

serviceVars == <<env, stage, schemas, rows, minted, loop, quiet, heard, firsts>>

Modes == {"chain-bridge", "simulated", "unrecognised"}
Environments ==
  [mode: Modes, database: Urls \cup {NoUrl}, migration: Urls \cup {NoUrl},
   delta: Seconds, ttl: Seconds, interval: Seconds \cap Nat, addressed: BOOLEAN]
Stages == {"down", "loaded", "migrated", "stored", "wired", "serving"}
Places == {"off", "tick", "reconcile", "retry", "sweep"}
DepositStates == {"observed", "screened", "encumbered", "attested", "issued"}

Durable == env.database # NoUrl
Simulated == env.mode = "simulated"

-----------------------------------------------------------------------------
\* BankRef::new: trim, then upper case.

Inked(s) == {i \in DOMAIN s : s[i] # Blank}
Trim(s) == IF Inked(s) = {} THEN <<>> ELSE SubSeq(s, Min(Inked(s)), Max(Inked(s)))

\* Mutant: the end is trimmed and the start is not.
MutNormaliseTrimsEnd(raw) ==
  LET t == IF Inked(raw) = {} THEN <<>> ELSE SubSeq(raw, 1, Max(Inked(raw)))
  IN  [i \in 1..Len(t) |-> Upper[t[i]]]

Normalise(raw) == [i \in 1..Len(Trim(raw)) |-> Upper[Trim(raw)[i]]]

Refs == {Normalise(raw) : raw \in Raws} \ {<<>>}

ServiceTypeOK ==
  /\ env \in Environments
  /\ stage \in Stages
  /\ schemas \subseteq {url.database : url \in Urls}
  /\ \E known \in SUBSET Refs : rows \in [known -> DepositStates]
  /\ minted \subseteq Refs
  /\ loop \in Places
  /\ quiet \in BOOLEAN
  /\ heard \subseteq Raws
  /\ firsts \subseteq heard

-----------------------------------------------------------------------------
\* Config::from_env and Config::validate.

\* database_name: the text after the last "/", up to a "?".  A query with a "/" of
\* its own comes last.
DatabaseName(url) ==
  IF Len(url.query) > 1 THEN url.query[Len(url.query)] ELSE url.database

\* Mutant: the runtime URL is checked and the migration alias is not.
MutOwnsRuntimeOnly(e) == e.database # NoUrl => DatabaseName(e.database) # Shared

OwnsItsDatabase(e) ==
  \A url \in {e.database, e.migration} \ {NoUrl} : DatabaseName(url) # Shared

\* Mutant: the in-memory repositories are allowed behind the Chain Bridge.
MutValidWithoutDatabase(e) ==
  /\ e.mode \in {"chain-bridge", "simulated"}
  /\ e.delta > 0
  /\ e.ttl > 0
  /\ OwnsItsDatabase(e)

\* LedgerMode::parse accepts two modes.
Valid(e) ==
  /\ e.mode \in {"chain-bridge", "simulated"}
  /\ e.delta > 0
  /\ e.ttl > 0
  /\ e.mode = "chain-bridge" => e.database # NoUrl
  /\ OwnsItsDatabase(e)

-----------------------------------------------------------------------------
\* main, up to where it serves.  Any step of it can fail: Exit.

ServiceInit ==
  /\ env \in Environments
  /\ stage = "down"
  /\ schemas = {}
  /\ rows = [ref \in {} |-> "observed"]
  /\ minted = {}
  /\ loop = "off"
  /\ quiet = FALSE
  /\ heard = {}
  /\ firsts = {}

LoadConfig ==
  /\ stage = "down"
  /\ Valid(env)
  /\ stage' = "loaded"
  /\ UNCHANGED <<env, schemas, rows, minted, loop, quiet, heard, firsts>>

\* run_migrations, on a pool of its own.
RunMigrations ==
  /\ stage = "loaded"
  /\ Durable
  /\ stage' = "migrated"
  /\ schemas' = schemas \cup {IF env.migration # NoUrl THEN env.migration.database
                              ELSE env.database.database}
  /\ UNCHANGED <<env, rows, minted, loop, quiet, heard, firsts>>

\* build_repositories: the pool the service runs on, or three empty repositories.
BuildRepositories ==
  /\ \/ stage = "migrated"
     \/ stage = "loaded" /\ ~Durable
  /\ stage' = "stored"
  /\ UNCHANGED <<env, schemas, rows, minted, loop, quiet, heard, firsts>>

\* build: the ledger is connected or created, the services are wired, and
\* spawn_reconciler starts the loop -- before the listener is bound.
Build ==
  /\ stage = "stored"
  /\ stage' = "wired"
  /\ loop' = IF env.interval = 0 THEN "off" ELSE "tick"
  /\ quiet' = FALSE
  /\ UNCHANGED <<env, schemas, rows, minted, heard, firsts>>

Bind ==
  /\ stage = "wired"
  /\ stage' = "serving"
  /\ UNCHANGED <<env, schemas, rows, minted, loop, quiet, heard, firsts>>

\* Start-up fails, the process is stopped, or it dies: what is in memory is gone.
Exit ==
  /\ stage # "down"
  /\ stage' = "down"
  /\ loop' = "off"
  /\ quiet' = FALSE
  /\ rows' = IF Durable THEN rows ELSE [ref \in {} |-> "observed"]
  /\ heard' = IF Durable THEN heard ELSE {}
  /\ firsts' = IF Durable THEN firsts ELSE {}
  /\ minted' = IF Simulated THEN {} ELSE minted
  /\ UNCHANGED <<env, schemas>>

-----------------------------------------------------------------------------
\* The bank's webhook: handle_deposit as the states it can leave the row in.

\* Mutant: the stub screens whatever the mode.
MutScreensAlways == TRUE

\* The screen of a simulation answers; the other refuses every subject.
Screens == Simulated

\* A mint that the row does not show yet, or is not answered, leaves it attested.
Deposit(ref) ==
  \E state \in IF Screens THEN DepositStates ELSE {"observed"} :
    /\ rows' = [r \in DOMAIN rows \cup {ref} |-> IF r = ref THEN state ELSE rows[r]]
    /\ minted' \in (IF state = "issued" THEN {} ELSE {minted})
                   \cup (IF state \in {"attested", "issued"} THEN {minted \cup {ref}} ELSE {})

\* A spelling of white space only is refused; a known bank_ref is answered from its row.
Webhook(raw) ==
  /\ stage = "serving"
  /\ raw \notin heard
  /\ Cardinality(heard) < MaxHeard
  /\ Normalise(raw) # <<>>
  /\ heard' = heard \cup {raw}
  /\ \/ /\ Normalise(raw) \notin DOMAIN rows
        /\ Deposit(Normalise(raw))
        /\ firsts' = firsts \cup {raw}
     \/ /\ Normalise(raw) \in DOMAIN rows
        /\ UNCHANGED <<rows, minted, firsts>>
  /\ UNCHANGED <<env, stage, schemas, loop, quiet>>

-----------------------------------------------------------------------------
\* spawn_reconciler: a tick, then three calls whose failures the loop outlives.

Turn(from, to) ==
  /\ loop = from
  /\ loop' = to
  /\ UNCHANGED <<env, stage, schemas, heard, firsts>>

Tick == Turn("tick", "reconcile") /\ UNCHANGED <<rows, minted, quiet>>

\* A bridge without addresses cannot take a snapshot.
Observable == Simulated \/ env.addressed

RunDone ==
  /\ Observable
  /\ Turn("reconcile", "retry")
  /\ quiet' = FALSE
  /\ UNCHANGED <<rows, minted>>

\* Mutant: a run that is unavailable ends the turn.
MutRunUnavailableContinues ==
  /\ ~Observable
  /\ Turn("reconcile", "tick")
  /\ quiet' = TRUE
  /\ UNCHANGED <<rows, minted>>

\* Reported once, until it changes.
RunUnavailable ==
  /\ ~Observable
  /\ Turn("reconcile", "retry")
  /\ quiet' = TRUE
  /\ UNCHANGED <<rows, minted>>

RunFailed == Turn("reconcile", "retry") /\ UNCHANGED <<rows, minted, quiet>>

\* retry_all_held: the ceiling lets some of the held deposits through, each as far
\* as its mint is answered; a bridge without addresses lets none.
Held == {ref \in DOMAIN rows : rows[ref] = "screened"}

RetryHeld ==
  /\ Turn("retry", "sweep")
  /\ \E issued \in SUBSET Held : \E attested \in SUBSET (Held \ issued) :
     \E landed \in SUBSET attested :
       /\ Observable \/ issued \cup attested = {}
       /\ rows' = [ref \in DOMAIN rows |->
                     IF ref \in issued THEN "issued"
                     ELSE IF ref \in attested THEN "attested" ELSE rows[ref]]
       /\ minted' = minted \cup issued \cup landed
  /\ UNCHANGED quiet

SweepReclaimable == Turn("sweep", "tick") /\ UNCHANGED <<rows, minted, quiet>>

Reconciler == Tick \/ RunDone \/ RunUnavailable \/ RunFailed \/ RetryHeld \/ SweepReclaimable

-----------------------------------------------------------------------------
ServiceNext ==
  \/ LoadConfig \/ RunMigrations \/ BuildRepositories \/ Build \/ Bind \/ Exit
  \/ \E raw \in Raws : Webhook(raw)
  \/ Reconciler

ServiceSpec == ServiceInit /\ [][ServiceNext]_serviceVars

\* The interval ticks and every call of a turn returns (the ports time out).
\* Nothing obliges the process to be started or to stay up.
FairServiceSpec == ServiceSpec /\ WF_serviceVars(Reconciler)

-----------------------------------------------------------------------------
\* "A casing/whitespace variant must not defeat F3" (bank_ref.rs), nor may two
\* transfers be taken for one.  Ground truth, without normalising: two spellings
\* are of one transfer when one can be slid over the other so that their letters
\* agree but for case.
SameTransfer(x, y) ==
  \E d \in -Len(x)..Len(y) :
    /\ \A i \in Inked(x) : i + d \in Inked(y) /\ Upper[x[i]] = Upper[y[i + d]]
    /\ \A j \in Inked(y) : j - d \in Inked(x)

\* Over any spellings, restarts and sweeps, a transfer has one row and no transfer
\* is swallowed by another's.
OneRowPerTransfer ==
  /\ \A x, y \in firsts : SameTransfer(x, y) => x = y
  /\ \A x \in heard : \E y \in firsts : SameTransfer(x, y)

\* "This service owns its database" (validate), on both URLs: its tables are never
\* created in the shared one -- unless a URL's query has a "/" of its own, which is
\* TablesAreItsOwn's subject.
MigratesItsOwn ==
  Shared \in schemas =>
    \E url \in {env.database, env.migration} \ {NoUrl} : Len(url.query) > 1

\* Behind the real ledger nothing is pretended and nothing recorded is forgotten:
\* no test double passes a deposit to it, and a bank_ref that was once recorded is
\* there, as it was left, after every restart.
NothingPretended ==
  [][env.mode = "chain-bridge" =>
       /\ minted' = {}
       /\ \A r \in DOMAIN rows : r \in DOMAIN rows' /\ rows'[r] = rows[r]]_serviceVars

\* "Failures are logged and the loop continues" (spawn_reconciler): a turn that has
\* begun reaches both sweeps whatever its reconciliation came to, or the process
\* has stopped.
SweepsGoOn == loop = "reconcile" ~> loop \in {"sweep", "off"}

\* What they rest on: whatever runs was let start, every table is where the check
\* let it be, and behind the bridge every row is as its webhook left it.
ServiceInv ==
  /\ stage # "down" \/ loop # "off" => Valid(env)
  /\ MigratesItsOwn
  /\ env.mode = "chain-bridge" =>
       minted = {} /\ \A ref \in DOMAIN rows : rows[ref] = "observed"

-----------------------------------------------------------------------------
\* What the documentation says and the code does not do.

\* "Pointing this variable at `gridtokenx' is rejected at startup" (README.md).
TablesAreItsOwn == Shared \notin schemas

\* In-memory repositories lose "the whole F2 tally" on a restart and a database
\* keeps it (.env.example): with one, a row that says issued is minted.
TallyOutlivesRestart ==
  Durable => \A r \in DOMAIN rows : rows[r] = "issued" => r \in minted
=============================================================================
