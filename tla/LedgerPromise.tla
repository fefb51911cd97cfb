---------------------------- MODULE LedgerPromise ----------------------------
(***************************************************************************)
(* What a service may rely on when it asks a ledger for an effect that can *)
(* happen only once (a mint per bank_ref, a burn per redemption): the      *)
(* abstract specification of LedgerPort::issue and confirm_redemption.     *)
(*                                                                         *)
(* Any number of calls may ask for the same effect.  It happens at most    *)
(* once, for a call that asked for it; Confirmed is said only after it     *)
(* has happened, and a call that was told Failed brings it about no more.  *)
(* Submitted and a transport error promise nothing: the effect may still   *)
(* come, once, or never.                                                   *)
(***************************************************************************)
CONSTANTS
  Calls,     \* the calls, by correlation id
  Effects,   \* the effects that can be asked for
  Unasked    \* what a call that has not been made asks for

VARIABLES
  asked,     \* the effect each call asked for
  told,      \* the outcome each call was told
  done       \* the effects that have happened

promiseVars == <<asked, told, done>>

Outcomes == {"Confirmed", "Submitted", "Failed", "Transient"}

PromiseInit ==
  /\ asked = [c \in Calls |-> Unasked]
  /\ told = [c \in Calls |-> "nothing"]
  /\ done = {}

Ask(c, e) ==
  /\ asked[c] = Unasked
  /\ asked' = [asked EXCEPT ![c] = e]
  /\ UNCHANGED <<told, done>>

Happen(c) ==
  /\ asked[c] \in Effects \ done
  /\ told[c] \notin {"Confirmed", "Failed"}
  /\ done' = done \cup {asked[c]}
  /\ UNCHANGED <<asked, told>>

Tell(c, o) ==
  /\ asked[c] \in Effects
  /\ told[c] = "nothing"
  /\ o = "Confirmed" => asked[c] \in done
  /\ told' = [told EXCEPT ![c] = o]
  /\ UNCHANGED <<asked, done>>

PromiseNext ==
  \E c \in Calls :
    \/ \E e \in Effects : Ask(c, e)
    \/ Happen(c)
    \/ \E o \in Outcomes : Tell(c, o)

PromiseSpec == PromiseInit /\ [][PromiseNext]_promiseVars
=============================================================================
