---------------------------- MODULE ServiceProofs ----------------------------
(***************************************************************************)
(* What configuration promises, for any set of environments, any URLs and  *)
(* any number of restarts, webhooks and turns of the loop.                 *)
(***************************************************************************)
EXTENDS Service, SequenceTheorems, Sums

\* The name that is checked is the database's, where a query has no "/" of its own.
LEMMA CheckedIsOwn ==
  ASSUME NEW e, OwnsItsDatabase(e), NEW url \in {e.database, e.migration},
         url # NoUrl, url.database = Shared
  PROVE  Len(url.query) > 1
BY DEF OwnsItsDatabase, DatabaseName

\* The initial state satisfies the invariant.
LEMMA InitInv == ServiceInit => ServiceInv
BY DEF ServiceInit, ServiceInv, MigratesItsOwn

\* Every step keeps the invariant.
LEMMA StepInv == ServiceInv /\ [ServiceNext]_serviceVars => ServiceInv'
<1> SUFFICES ASSUME ServiceInv, [ServiceNext]_serviceVars PROVE ServiceInv'
  OBVIOUS
<1> USE DEF ServiceInv, MigratesItsOwn
<1>1. CASE LoadConfig
  BY <1>1 DEF LoadConfig
<1>2. CASE RunMigrations
  <2> DEFINE url == IF env.migration # NoUrl THEN env.migration ELSE env.database
  <2>1. Valid(env) /\ env' = env /\ url # NoUrl /\ url \in {env.database, env.migration}
    BY <1>2 DEF RunMigrations, Durable
  <2>2. Shared \in schemas' => Shared \in schemas \/ url.database = Shared
    BY <1>2 DEF RunMigrations
  <2>3. url.database = Shared => Len(url.query) > 1
    BY <2>1, CheckedIsOwn DEF Valid
  <2>4. MigratesItsOwn'
    BY <2>1, <2>2, <2>3
  <2> QED
    BY <1>2, <2>1, <2>4 DEF RunMigrations
<1>3. CASE BuildRepositories
  BY <1>3 DEF BuildRepositories
<1>4. CASE Build
  BY <1>4 DEF Build
<1>5. CASE Bind
  BY <1>5 DEF Bind
<1>6. CASE Exit
  <2>1. env.mode = "chain-bridge" => Durable /\ ~Simulated
    BY <1>6 DEF Exit, Valid, Durable, Simulated
  <2> QED
    BY <1>6, <2>1 DEF Exit
<1>7. CASE \E raw \in Raws : Webhook(raw)
  <2> PICK raw \in Raws : Webhook(raw)
    BY <1>7
  <2>1. UNCHANGED <<env, stage, schemas, loop>>
    BY DEF Webhook
  <2>2. ASSUME env.mode = "chain-bridge", Deposit(Normalise(raw))
        PROVE  minted' = {} /\ \A ref \in DOMAIN rows' : rows'[ref] = "observed"
    BY <2>2 DEF Deposit, Screens, Simulated
  <2>3. Deposit(Normalise(raw)) \/ UNCHANGED <<rows, minted>>
    BY DEF Webhook
  <2> QED
    BY <2>1, <2>2, <2>3
<1>8. CASE Reconciler
  <2>1. UNCHANGED <<env, stage, schemas>> /\ Valid(env)
    <3>1. loop # "off"
      BY <1>8 DEF Reconciler, Tick, RunDone, RunUnavailable, RunFailed, RetryHeld,
                  SweepReclaimable, Turn
    <3> QED
      BY <1>8, <3>1 DEF Reconciler, Tick, RunDone, RunUnavailable, RunFailed, RetryHeld,
                  SweepReclaimable, Turn
  <2>2. ASSUME env.mode = "chain-bridge", RetryHeld
        PROVE  UNCHANGED minted /\ \A ref \in DOMAIN rows' : rows'[ref] = "observed"
    <3>1. Held = {}
      BY <2>2 DEF Held
    <3> QED
      BY <2>2, <3>1 DEF RetryHeld
  <2>3. RetryHeld \/ UNCHANGED <<rows, minted>>
    BY <1>8 DEF Reconciler, Tick, RunDone, RunUnavailable, RunFailed, SweepReclaimable
  <2> QED
    BY <2>1, <2>2, <2>3
<1>9. CASE UNCHANGED serviceVars
  BY <1>9 DEF serviceVars
<1> QED
  BY <1>1, <1>2, <1>3, <1>4, <1>5, <1>6, <1>7, <1>8, <1>9 DEF ServiceNext

\* Nothing runs under a configuration that validate refuses, and behind the bridge
\* no row has gone past observed (Config::validate, RefusingCompliance).
THEOREM ServiceInvariance == ServiceSpec => []ServiceInv
BY InitInv, StepInv, PTL DEF ServiceSpec

\* For any URLs, the shared database gets the service's tables only through a URL
\* whose query has a "/" of its own (Config::validate, run_migrations).
THEOREM MigratesItsOwnAlways == ServiceSpec => []MigratesItsOwn
<1>1. ServiceInv => MigratesItsOwn
  BY DEF ServiceInv
<1> QED
  BY <1>1, ServiceInvariance, PTL

\* A step behind the bridge mints nothing by itself and changes or drops no row.
LEMMA StepPretendsNothing ==
  ASSUME ServiceInv, ServiceInv', ServiceNext, env.mode = "chain-bridge"
  PROVE  minted' = {} /\ \A r \in DOMAIN rows : r \in DOMAIN rows' /\ rows'[r] = rows[r]
<1>1. minted' = {}
  <2>1. env' = env
    BY DEF ServiceNext, LoadConfig, RunMigrations, BuildRepositories, Build, Bind, Exit,
           Webhook, Reconciler, Tick, RunDone, RunUnavailable, RunFailed, RetryHeld,
           SweepReclaimable, Turn
  <2> QED
    BY <2>1 DEF ServiceInv
<1>2. \A r \in DOMAIN rows : r \in DOMAIN rows' /\ rows'[r] = rows[r]
  <2>1. CASE Exit
    BY <2>1 DEF Exit, ServiceInv, Valid, Durable
  <2>2. CASE \E raw \in Raws : Webhook(raw)
    BY <2>2 DEF Webhook, Deposit
  <2>3. CASE RetryHeld
    <3>1. Held = {}
      BY DEF Held, ServiceInv
    <3> QED
      BY <2>3, <3>1 DEF RetryHeld
  <2>4. ASSUME ~Exit, ~(\E raw \in Raws : Webhook(raw)), ~RetryHeld PROVE rows' = rows
    BY <2>4 DEF ServiceNext, LoadConfig, RunMigrations, BuildRepositories, Build, Bind,
                Reconciler, Tick, RunDone, RunUnavailable, RunFailed, SweepReclaimable
  <2> QED
    BY <2>1, <2>2, <2>3, <2>4
<1> QED
  BY <1>1, <1>2

\* Behind the real ledger no test double passes a deposit and no restart forgets a
\* row (RefusingCompliance, the database that validate requires).
THEOREM NothingPretendedAlways == ServiceSpec => NothingPretended
<1> DEFINE P == env.mode = "chain-bridge" =>
                  /\ minted' = {}
                  /\ \A r \in DOMAIN rows : r \in DOMAIN rows' /\ rows'[r] = rows[r]
<1>1. ServiceInv /\ ServiceInv' /\ [ServiceNext]_serviceVars => [P]_serviceVars
  BY StepPretendsNothing
<1> QED
  BY <1>1, ServiceInvariance, PTL DEF ServiceSpec, NothingPretended

-----------------------------------------------------------------------------
\* One row per transfer.

\* A non-empty finite set of integers has a least and a greatest element.
LEMMA Extremes ==
  ASSUME NEW S, IsFiniteSet(S), \A i \in S : i \in Int, S # {}
  PROVE  /\ Min(S) \in S /\ \A i \in S : Min(S) <= i
         /\ Max(S) \in S /\ \A i \in S : i <= Max(S)
<1> DEFINE below(m) == {i \in S : i <= m}
           above(m) == {i \in S : i >= m}
           B == {below(m) : m \in S}
           A == {above(m) : m \in S}
<1>1. \E m \in S : \A i \in S : m <= i
  <2>1. B \in SUBSET (SUBSET S)
    OBVIOUS
  <2>0. B # {}
    OBVIOUS
  <2>2. PICK b \in B : \A u \in B : u \subseteq b => u = b
    <3> HIDE DEF below, above, A, B
    <3> QED BY <2>0, <2>1, MinimalSubset
  <2>3. PICK m \in S : b = below(m)
    OBVIOUS
  <2>4. ASSUME NEW i \in S, ~(m <= i) PROVE FALSE
    <3>1. below(i) \in B
      OBVIOUS
    <3>a. i \in Int /\ m \in Int
      OBVIOUS
    <3>b. \A j \in below(i) : j \in S /\ j \in Int /\ j <= m
      BY <2>4, <3>a
    <3>c. below(i) \subseteq b
      BY <2>3, <3>b
    <3>2. m \in below(m) /\ m \notin below(i)
      BY <2>4
    <3> QED
      BY <2>2, <2>3, <3>1, <3>c, <3>2
  <2> QED
    BY <2>4
<1>2. \E m \in S : \A i \in S : i <= m
  <2>1. A \in SUBSET (SUBSET S)
    OBVIOUS
  <2>0. A # {}
    OBVIOUS
  <2>2. PICK a \in A : \A u \in A : u \subseteq a => u = a
    <3> HIDE DEF below, above, A, B
    <3> QED BY <2>0, <2>1, MinimalSubset
  <2>3. PICK m \in S : a = above(m)
    OBVIOUS
  <2>4. ASSUME NEW i \in S, ~(i <= m) PROVE FALSE
    <3>1. above(i) \in A
      OBVIOUS
    <3>a. i \in Int /\ m \in Int
      OBVIOUS
    <3>b. \A j \in above(i) : j \in S /\ j \in Int /\ j >= m
      BY <2>4, <3>a
    <3>c. above(i) \subseteq a
      BY <2>3, <3>b
    <3>2. m \in above(m) /\ m \notin above(i)
      BY <2>4
    <3> QED
      BY <2>2, <2>3, <3>1, <3>c, <3>2
  <2> QED
    BY <2>4
<1>3. Min(S) \in S /\ \A i \in S : Min(S) <= i
  BY <1>1 DEF Min
<1>4. Max(S) \in S /\ \A i \in S : Max(S) >= i
  <2>1. \E m \in S : \A i \in S : m >= i
    BY <1>2
  <2> QED
    BY <2>1 DEF Max
<1> QED
  BY <1>3, <1>4

\* What is left of a spelling: the characters from its first letter to its last.
First(s) == Min(Inked(s))
Last(s) == Max(Inked(s))

LEMMA Trimmed ==
  ASSUME NEW s \in Raws, Inked(s) # {}
  PROVE  /\ First(s) \in Inked(s) /\ Last(s) \in Inked(s)
         /\ \A i \in Inked(s) : First(s) <= i /\ i <= Last(s)
         /\ Inked(s) \subseteq 1 .. Len(s) /\ Len(s) \in Nat
         /\ Normalise(s) = [i \in 1 .. (Last(s) - First(s) + 1) |-> Upper[s[First(s) + i - 1]]]
<1>1. /\ Len(s) \in Nat /\ DOMAIN s = 1 .. Len(s) /\ Inked(s) \subseteq 1 .. Len(s)
      /\ \A i \in 1 .. Len(s) : s[i] \in DOMAIN Upper
  BY ServiceAssumption DEF Inked
<1>2. IsFiniteSet(Inked(s))
  <2>1. IsFiniteSet(1 .. Len(s))
    BY <1>1, FS_Interval
  <2> QED
    BY <1>1, <2>1, FS_Subset
<1>3. /\ First(s) \in Inked(s) /\ Last(s) \in Inked(s)
      /\ \A i \in Inked(s) : First(s) <= i /\ i <= Last(s)
  BY <1>1, <1>2, Extremes DEF First, Last
<1>4. First(s) \in Int /\ Last(s) \in Int /\ First(s) <= Last(s)
  BY <1>1, <1>3
<1>5. Trim(s) = SubSeq(s, First(s), Last(s))
  BY DEF Trim, First, Last
<1>6. \A i \in First(s) .. Last(s) : s[i] \in DOMAIN Upper
  BY <1>1, <1>3, <1>4
<1>7. /\ Len(Trim(s)) = Last(s) - First(s) + 1
      /\ \A i \in 1 .. (Last(s) - First(s) + 1) : Trim(s)[i] = s[First(s) + i - 1]
  BY <1>4, <1>5, <1>6, SubSeqProperties
<1>8. Normalise(s) = [i \in 1 .. (Last(s) - First(s) + 1) |-> Upper[s[First(s) + i - 1]]]
  BY <1>7 DEF Normalise
<1> QED
  BY <1>1, <1>3, <1>8

\* A spelling normalises to nothing only when it is blank.
LEMMA BlankIsEmpty ==
  ASSUME NEW s \in Raws, Normalise(s) # <<>>
  PROVE  Inked(s) # {}
BY DEF Normalise, Trim

\* The case map tells white space from the rest.
LEMMA InkKept ==
  ASSUME NEW s \in Raws, NEW i \in 1 .. Len(s)
  PROVE  /\ i \in Inked(s) <=> s[i] # Blank
         /\ s[i] = Blank <=> Upper[s[i]] = Blank
<1>1. s \in Seq(DOMAIN Upper)
  BY ServiceAssumption
<1>2. i \in DOMAIN s /\ s[i] \in DOMAIN Upper
  BY <1>1
<1> QED
  BY <1>2, ServiceAssumption DEF Inked

\* Spellings with the same normal form slide over one another, first letter to first ...
LEMMA SameFormSlides ==
  ASSUME NEW x \in Raws, NEW y \in Raws, Inked(x) # {}, Inked(y) # {},
         Normalise(x) = Normalise(y)
  PROVE  SameTransfer(x, y)
<1> DEFINE n == Last(x) - First(x) + 1
           d == First(y) - First(x)
<1>1. /\ First(x) \in Inked(x) /\ Last(x) \in Inked(x)
      /\ \A i \in Inked(x) : First(x) <= i /\ i <= Last(x)
      /\ Inked(x) \subseteq 1 .. Len(x) /\ Len(x) \in Nat
      /\ Normalise(x) = [i \in 1 .. n |-> Upper[x[First(x) + i - 1]]]
  BY Trimmed
<1>2. /\ First(y) \in Inked(y) /\ Last(y) \in Inked(y)
      /\ \A j \in Inked(y) : First(y) <= j /\ j <= Last(y)
      /\ Inked(y) \subseteq 1 .. Len(y) /\ Len(y) \in Nat
      /\ Normalise(y) = [i \in 1 .. (Last(y) - First(y) + 1) |-> Upper[y[First(y) + i - 1]]]
  BY Trimmed
<1>3. /\ First(x) \in Int /\ Last(x) \in Int /\ First(y) \in Int /\ Last(y) \in Int
      /\ First(x) <= Last(x) /\ First(y) <= Last(y)
  BY <1>1, <1>2
<1>4. Last(y) - First(y) + 1 = n
  <2>1. 1 .. n = 1 .. (Last(y) - First(y) + 1)
    BY <1>1, <1>2
  <2> QED
    BY <1>3, <2>1
<1>5. \A i \in 1 .. n : Upper[x[First(x) + i - 1]] = Upper[y[First(y) + i - 1]]
  <2> SUFFICES ASSUME NEW i \in 1 .. n
               PROVE  Upper[x[First(x) + i - 1]] = Upper[y[First(y) + i - 1]]
    OBVIOUS
  <2>1. i \in 1 .. (Last(y) - First(y) + 1)
    BY <1>4
  <2>2. Normalise(x)[i] = Upper[x[First(x) + i - 1]]
    BY <1>1
  <2>3. Normalise(y)[i] = Upper[y[First(y) + i - 1]]
    BY <1>2, <2>1
  <2> QED
    BY <2>2, <2>3
<1>6. \A i \in First(x) .. Last(x) :
        i \in 1 .. Len(x) /\ i + d \in 1 .. Len(y) /\ Upper[x[i]] = Upper[y[i + d]]
  <2> SUFFICES ASSUME NEW i \in First(x) .. Last(x)
               PROVE  /\ i \in 1 .. Len(x) /\ i + d \in 1 .. Len(y)
                      /\ Upper[x[i]] = Upper[y[i + d]]
    OBVIOUS
  <2>1. i \in 1 .. Len(x) /\ i + d \in First(y) .. Last(y) /\ i + d \in 1 .. Len(y)
    BY <1>1, <1>2, <1>3, <1>4
  <2>2. i - First(x) + 1 \in 1 .. n
    BY <1>3
  <2>3. First(x) + (i - First(x) + 1) - 1 = i /\ First(y) + (i - First(x) + 1) - 1 = i + d
    BY <1>3
  <2> QED
    BY <1>5, <2>1, <2>2, <2>3
<1>7. ASSUME NEW i \in Inked(x)
      PROVE  i + d \in Inked(y) /\ Upper[x[i]] = Upper[y[i + d]]
  <2>1. i \in First(x) .. Last(x)
    BY <1>1, <1>3
  <2>2. i \in 1 .. Len(x) /\ i + d \in 1 .. Len(y) /\ Upper[x[i]] = Upper[y[i + d]]
    BY <1>6, <2>1
  <2> HIDE DEF d
  <2> QED
    BY <2>2, InkKept
<1>8. ASSUME NEW j \in Inked(y)
      PROVE  j - d \in Inked(x)
  <2>1. j - d \in First(x) .. Last(x) /\ (j - d) + d = j
    BY <1>2, <1>3, <1>4
  <2>2. j - d \in 1 .. Len(x) /\ j \in 1 .. Len(y) /\ Upper[x[j - d]] = Upper[y[j]]
    BY <1>6, <2>1
  <2> HIDE DEF d
  <2> QED
    BY <2>2, InkKept
<1>9. d \in -Len(x) .. Len(y)
  <2>1. /\ First(x) \in 1 .. Len(x) /\ First(y) \in 1 .. Len(y)
    BY <1>1, <1>2
  <2> QED
    BY <1>1, <1>2, <2>1
<1> HIDE DEF d
<1> QED
  BY <1>7, <1>8, <1>9 DEF SameTransfer

\* ... and spellings that slide over one another have the same normal form.
LEMMA SlidesSameForm ==
  ASSUME NEW x \in Raws, NEW y \in Raws, Inked(x) # {}, Inked(y) # {}, SameTransfer(x, y)
  PROVE  Normalise(x) = Normalise(y)
<1>1. /\ First(x) \in Inked(x) /\ Last(x) \in Inked(x)
      /\ \A i \in Inked(x) : First(x) <= i /\ i <= Last(x)
      /\ Inked(x) \subseteq 1 .. Len(x) /\ Len(x) \in Nat
      /\ Normalise(x) = [i \in 1 .. (Last(x) - First(x) + 1) |-> Upper[x[First(x) + i - 1]]]
  BY Trimmed
<1>2. /\ First(y) \in Inked(y) /\ Last(y) \in Inked(y)
      /\ \A j \in Inked(y) : First(y) <= j /\ j <= Last(y)
      /\ Inked(y) \subseteq 1 .. Len(y) /\ Len(y) \in Nat
      /\ Normalise(y) = [i \in 1 .. (Last(y) - First(y) + 1) |-> Upper[y[First(y) + i - 1]]]
  BY Trimmed
<1>3. PICK d \in -Len(x) .. Len(y) :
        /\ \A i \in Inked(x) : i + d \in Inked(y) /\ Upper[x[i]] = Upper[y[i + d]]
        /\ \A j \in Inked(y) : j - d \in Inked(x)
  BY DEF SameTransfer
<1>4. /\ First(x) \in Int /\ Last(x) \in Int /\ First(y) \in Int /\ Last(y) \in Int
      /\ d \in Int
  BY <1>1, <1>2
<1>5. First(y) = First(x) + d /\ Last(y) = Last(x) + d
  <2>1. First(y) <= First(x) + d /\ Last(x) + d <= Last(y)
    BY <1>1, <1>2, <1>3
  <2>2. First(x) <= First(y) - d /\ Last(y) - d <= Last(x)
    BY <1>1, <1>2, <1>3
  <2> QED
    BY <1>4, <2>1, <2>2
<1>6. ASSUME NEW i \in First(x) .. Last(x)
      PROVE  Upper[x[i]] = Upper[y[i + d]]
  <2>1. i \in 1 .. Len(x) /\ i + d \in 1 .. Len(y)
    BY <1>1, <1>2, <1>4, <1>5
  <2>2. CASE i \in Inked(x)
    BY <1>3, <2>2
  <2>3. CASE i \notin Inked(x)
    <3>1. i + d \notin Inked(y)
      <4>1. (i + d) - d = i
        BY <1>4, <2>1
      <4> QED
        BY <1>3, <2>3, <4>1
    <3>2. x[i] = Blank
      BY <2>1, <2>3, InkKept
    <3>3. y[i + d] = Blank
      BY <2>1, <3>1, InkKept
    <3> QED
      BY <3>2, <3>3
  <2> QED
    BY <2>2, <2>3
<1>7. ASSUME NEW i \in 1 .. (Last(x) - First(x) + 1)
      PROVE  Upper[x[First(x) + i - 1]] = Upper[y[First(y) + i - 1]]
  <2>1. First(x) + i - 1 \in First(x) .. Last(x)
    BY <1>4
  <2>2. (First(x) + i - 1) + d = First(y) + i - 1
    BY <1>4, <1>5
  <2> QED
    BY <1>6, <2>1, <2>2
<1>8. Last(y) - First(y) + 1 = Last(x) - First(x) + 1
  BY <1>4, <1>5
<1> QED
  BY <1>1, <1>2, <1>7, <1>8

\* The rows are those the first spellings made, one each, and no spelling that was
\* answered is without one.
RowsInv ==
  /\ firsts \subseteq heard /\ heard \subseteq Raws
  /\ \A x \in heard : Normalise(x) # <<>> /\ Normalise(x) \in DOMAIN rows
  /\ \A ref \in DOMAIN rows : \E x \in firsts : Normalise(x) = ref
  /\ \A x, y \in firsts : Normalise(x) = Normalise(y) => x = y

\* That is what OneRowPerTransfer says without normalising.
LEMMA RowsAreTransfers == RowsInv => OneRowPerTransfer
<1> SUFFICES ASSUME RowsInv PROVE OneRowPerTransfer
  OBVIOUS
<1>1. \A x \in heard : x \in Raws /\ Inked(x) # {}
  BY BlankIsEmpty DEF RowsInv
<1>2. ASSUME NEW x \in firsts, NEW y \in firsts, SameTransfer(x, y)
      PROVE  x = y
  <2>1. /\ x \in Raws /\ y \in Raws /\ Inked(x) # {} /\ Inked(y) # {}
    BY <1>1 DEF RowsInv
  <2> QED
    BY <1>2, <2>1, SlidesSameForm DEF RowsInv
<1>3. ASSUME NEW x \in heard
      PROVE  \E y \in firsts : SameTransfer(x, y)
  <2>1. PICK y \in firsts : Normalise(y) = Normalise(x)
    BY DEF RowsInv
  <2>2. /\ x \in Raws /\ y \in Raws /\ Inked(x) # {} /\ Inked(y) # {}
    BY <1>1 DEF RowsInv
  <2> QED
    BY <2>1, <2>2, SameFormSlides
<1> QED
  BY <1>2, <1>3 DEF OneRowPerTransfer

\* A webhook adds the row and the spelling that made it together, the loop moves
\* rows and adds none, and what a restart forgets it forgets of both.
LEMMA RowsStep == RowsInv /\ [ServiceNext]_serviceVars => RowsInv'
<1> SUFFICES ASSUME RowsInv, [ServiceNext]_serviceVars PROVE RowsInv'
  OBVIOUS
<1>1. CASE UNCHANGED <<heard, firsts>> /\ DOMAIN rows' = DOMAIN rows
  BY <1>1 DEF RowsInv
<1>2. CASE Exit
  BY <1>2 DEF Exit, RowsInv
<1>3. ASSUME NEW raw \in Raws, Webhook(raw)
      PROVE  RowsInv'
  <2>1. Normalise(raw) # <<>> /\ heard' = heard \cup {raw}
    BY <1>3 DEF Webhook
  <2>2. CASE Normalise(raw) \in DOMAIN rows /\ UNCHANGED <<rows, firsts>>
    BY <2>1, <2>2 DEF RowsInv
  <2>3. CASE /\ Normalise(raw) \notin DOMAIN rows
             /\ Deposit(Normalise(raw))
             /\ firsts' = firsts \cup {raw}
    <3>1. DOMAIN rows' = DOMAIN rows \cup {Normalise(raw)}
      BY <2>3 DEF Deposit
    <3>2. \A x \in firsts : Normalise(x) # Normalise(raw)
      BY <2>3 DEF RowsInv
    <3> QED
      BY <2>1, <2>3, <3>1, <3>2 DEF RowsInv
  <2> QED
    BY <1>3, <2>2, <2>3 DEF Webhook
<1>4. CASE RetryHeld
  BY <1>1, <1>4 DEF RetryHeld, Turn
<1>5. CASE \/ LoadConfig \/ RunMigrations \/ BuildRepositories \/ Build \/ Bind
           \/ Tick \/ RunDone \/ RunUnavailable \/ RunFailed \/ SweepReclaimable
           \/ UNCHANGED serviceVars
  BY <1>1, <1>5 DEF LoadConfig, RunMigrations, BuildRepositories, Build, Bind, Tick, RunDone,
                    RunUnavailable, RunFailed, SweepReclaimable, Turn, serviceVars
<1> QED
  BY <1>2, <1>3, <1>4, <1>5 DEF ServiceNext, Reconciler

\* F3 as far as the spelling reaches, for any alphabet and case map that tell white
\* space apart and spellings of any length: over restarts and turns of the loop, a
\* transfer has one row and none is swallowed by another's (BankRef::new).
THEOREM OneRowPerTransferAlways == ServiceSpec => []OneRowPerTransfer
<1>1. ServiceInit => RowsInv
  BY DEF ServiceInit, RowsInv
<1> QED
  BY <1>1, RowsStep, RowsAreTransfers, PTL DEF ServiceSpec
=============================================================================
