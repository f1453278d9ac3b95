----------------------------- MODULE Activation ------------------------------
(***************************************************************************)
(* Device activation: POST /api/licenses/activate and .../deactivate       *)
(* (handlers/sdk/license.go) against the licenses and activations tables,  *)
(* with everything else that writes those rows: fulfilment granting or     *)
(* adding slots, refunds, the admin area, erasure and voiding.             *)
(*                                                                         *)
(* A request is a sequence of SQL statements; every statement is one       *)
(* action, and statements of different requests interleave freely.  The    *)
(* activation transaction holds the license row lock (SELECT .. FOR        *)
(* UPDATE) from LockLicense to its commit; UPDATE and DELETE of that row   *)
(* wait for it, DELETE on activations does not.                            *)
(***************************************************************************)
EXTENDS Naturals, FiniteSets

CONSTANTS
  Requests,   \* handler invocations that may be in progress at once
  Licenses,   \* license ids; an id is never used twice (UUID)
  Machines,   \* machine hashes
  Grants,     \* values of the max_activations setting
  MaxCap,     \* BOUND on the slots of one license
  Nobody      \* a license row lock that is free

ASSUME GrantsAssumption == Grants \subseteq Nat \ {0}
ASSUME MachinesAssumption == IsFiniteSet(Machines)
ASSUME MaxCapAssumption == MaxCap \in Nat
ASSUME NobodyAssumption == Nobody \notin Requests

VARIABLES
  row,        \* row[l]: "none" before the purchase, "row", or "deleted"
  revoked,    \* licenses.revoked
  cap,        \* licenses.max_activations
  acts,       \* activations: the machine hashes of each license
  lock,       \* who holds the license row lock
  keyActive,  \* some signing key is active
  pc,         \* where each request stands
  lic,        \* the license a request is about
  mach,       \* the machine a request is about
  seenCap     \* maxActivations, as the request read it before its transaction

database == <<row, revoked, cap, acts, keyActive>>
locals == <<lic, mach, seenCap>>
vars == <<row, revoked, cap, acts, lock, keyActive, pc, lic, mach, seenCap>>

(* Points of runActivationTx at which the license row lock is held.        *)
Locked == {"exists", "count", "upsert"}

Activating == {"license", "lock"} \cup Locked \cup {"sign"}

Deactivating == {"find", "delete"}

TypeOK ==
  /\ row \in [Licenses -> {"none", "row", "deleted"}]
  /\ revoked \in [Licenses -> BOOLEAN]
  /\ cap \in [Licenses -> Nat]
  /\ acts \in [Licenses -> SUBSET Machines]
  /\ lock \in [Licenses -> Requests \cup {Nobody}]
  /\ keyActive \in BOOLEAN
  /\ pc \in [Requests -> {"idle"} \cup Activating \cup Deactivating]
  /\ lic \in [Requests -> Licenses]
  /\ mach \in [Requests -> Machines]
  /\ seenCap \in [Requests -> Nat]

Init ==
  /\ row = [l \in Licenses |-> "none"]
  /\ revoked = [l \in Licenses |-> FALSE]
  /\ cap = [l \in Licenses |-> 0]
  /\ acts = [l \in Licenses |-> {}]
  /\ lock = [l \in Licenses |-> Nobody]
  /\ keyActive \in BOOLEAN
  /\ pc = [r \in Requests |-> "idle"]
  /\ \E l \in Licenses, m \in Machines :
        /\ lic = [r \in Requests |-> l]
        /\ mach = [r \in Requests |-> m]
  /\ seenCap = [r \in Requests |-> 0]

Goto(r, to) == pc' = [pc EXCEPT ![r] = to]

-----------------------------------------------------------------------------
(* ActivateLicense                                                         *)

(* The guard on the signing key: without one the answer is 503 and nothing *)
(* has happened.                                                           *)
ActivateLicense(r, l, m) ==
  /\ pc[r] = "idle"
  /\ keyActive
  /\ Goto(r, "license")
  /\ lic' = [lic EXCEPT ![r] = l]
  /\ mach' = [mach EXCEPT ![r] = m]
  /\ UNCHANGED <<database, lock, seenCap>>

(* GetLicenseByKey, the revocation check and the cap, all from one read    *)
(* outside the transaction.                                                *)
ReadLicense(r) ==
  LET l == lic[r] IN
  /\ pc[r] = "license"
  /\ IF row[l] = "row" /\ ~revoked[l]
       THEN /\ Goto(r, "lock")
            /\ seenCap' = [seenCap EXCEPT ![r] = cap[l]]
       ELSE Goto(r, "idle") /\ UNCHANGED seenCap
  /\ UNCHANGED <<database, lock, lic, mach>>

(* Mutant of LockLicense: a plain SELECT.                                  *)
ReadWithoutLock(r) ==
  /\ pc[r] = "lock"
  /\ Goto(r, IF row[lic[r]] = "row" THEN "exists" ELSE "idle")
  /\ UNCHANGED <<database, lock, locals>>

(* LockLicenseForActivation.  A row that is gone by now locks nothing, and *)
(* the insert that would follow fails on its foreign key.                  *)
LockLicense(r) ==
  LET l == lic[r] IN
  /\ pc[r] = "lock"
  /\ IF row[l] = "row"
       THEN /\ lock[l] = Nobody
            /\ lock' = [lock EXCEPT ![l] = r]
            /\ Goto(r, "exists")
       ELSE Goto(r, "idle") /\ UNCHANGED lock
  /\ UNCHANGED <<database, locals>>

(* ActivationExistsForMachine: a machine that has its slot skips the count.*)
CheckExists(r) ==
  /\ pc[r] = "exists"
  /\ Goto(r, IF mach[r] \in acts[lic[r]] THEN "upsert" ELSE "count")
  /\ UNCHANGED <<database, lock, locals>>

(* Mutant of CountSlots: off by one.                                       *)
CountSlotsLoosely(r) ==
  /\ pc[r] = "count"
  /\ IF Cardinality(acts[lic[r]]) > seenCap[r]
       THEN Goto(r, "idle") /\ lock' = [lock EXCEPT ![lic[r]] = Nobody]
       ELSE Goto(r, "upsert") /\ UNCHANGED lock
  /\ UNCHANGED <<database, locals>>

(* Mutant of CountSlots: slots full returns with the transaction open.     *)
CountSlotsAndStay(r) ==
  /\ pc[r] = "count"
  /\ Goto(r, IF Cardinality(acts[lic[r]]) >= seenCap[r] THEN "idle" ELSE "upsert")
  /\ UNCHANGED <<database, lock, locals>>

(* CountActivationsForUpdate against the cap; slots full commits an empty  *)
(* transaction, which releases the lock.                                   *)
CountSlots(r) ==
  LET l == lic[r] IN
  /\ pc[r] = "count"
  /\ IF Cardinality(acts[l]) >= seenCap[r]
       THEN Goto(r, "idle") /\ lock' = [lock EXCEPT ![l] = Nobody]
       ELSE Goto(r, "upsert") /\ UNCHANGED lock
  /\ UNCHANGED <<database, locals>>

(* UpsertActivation and the commit that makes it visible.                  *)
Upsert(r) ==
  LET l == lic[r] IN
  /\ pc[r] = "upsert"
  /\ acts' = [acts EXCEPT ![l] = @ \cup {mach[r]}]
  /\ lock' = [lock EXCEPT ![l] = Nobody]
  /\ Goto(r, "sign")
  /\ UNCHANGED <<row, revoked, cap, keyActive, locals>>

(* Sign reads the active key again; with none left the answer is an error  *)
(* although the slot is taken.                                             *)
Sign(r) ==
  /\ pc[r] = "sign"
  /\ Goto(r, "idle")
  /\ UNCHANGED <<database, lock, locals>>

-----------------------------------------------------------------------------
(* DeactivateLicense                                                       *)

DeactivateLicense(r, l, m) ==
  /\ pc[r] = "idle"
  /\ Goto(r, "find")
  /\ lic' = [lic EXCEPT ![r] = l]
  /\ mach' = [mach EXCEPT ![r] = m]
  /\ UNCHANGED <<database, lock, seenCap>>

FindLicense(r) ==
  LET l == lic[r] IN
  /\ pc[r] = "find"
  /\ Goto(r, IF row[l] = "row" /\ ~revoked[l] THEN "delete" ELSE "idle")
  /\ UNCHANGED <<database, lock, locals>>

(* Mutant of DeleteOwn: the machine_hash condition is missing.             *)
DeleteAll(r) ==
  /\ pc[r] = "delete"
  /\ acts' = [acts EXCEPT ![lic[r]] = {}]
  /\ Goto(r, "idle")
  /\ UNCHANGED <<row, revoked, cap, lock, keyActive, lic, mach, seenCap>>

(* DeleteActivationByLicenseAndMachine takes no lock on the license row.   *)
DeleteOwn(r) ==
  LET l == lic[r] IN
  /\ pc[r] = "delete"
  /\ acts' = [acts EXCEPT ![l] = @ \ {mach[r]}]
  /\ Goto(r, "idle")
  /\ UNCHANGED <<row, revoked, cap, lock, keyActive, locals>>

-----------------------------------------------------------------------------
(* A request may die anywhere: the client goes away, the pool gives up, a  *)
(* statement fails, the deadlock detector picks it, the process restarts.  *)
(* Its transaction rolls back, which releases its lock.                    *)
Abort(r) ==
  /\ pc[r] # "idle"
  /\ Goto(r, "idle")
  /\ lock' = IF pc[r] \in Locked THEN [lock EXCEPT ![lic[r]] = Nobody] ELSE lock
  /\ UNCHANGED <<database, locals>>

-----------------------------------------------------------------------------
(* Everybody else who writes these rows                                    *)

(* InsertLicense, from a webhook or by an admin, with the setting's cap.   *)
InsertLicense(l, n) ==
  /\ row[l] = "none"
  /\ n <= MaxCap
  /\ row' = [row EXCEPT ![l] = "row"]
  /\ cap' = [cap EXCEPT ![l] = n]
  /\ UNCHANGED <<revoked, acts, lock, keyActive, pc, locals>>

(* Mutant of BumpCap: a top-up is taken back, below zero if need be.       *)
BumpCapDown(l, n) ==
  /\ row[l] = "row" /\ lock[l] = Nobody
  /\ cap' = [cap EXCEPT ![l] = @ - n]
  /\ UNCHANGED <<row, revoked, acts, lock, keyActive, pc, locals>>

(* BumpLicenseMaxActivations, an install_plus purchase.                    *)
BumpCap(l, n) ==
  /\ row[l] = "row" /\ lock[l] = Nobody
  /\ cap[l] + n <= MaxCap
  /\ cap' = [cap EXCEPT ![l] = @ + n]
  /\ UNCHANGED <<row, revoked, acts, lock, keyActive, pc, locals>>

(* RevokeLicenseByOrderID and UnrevokeLicense.                             *)
SetRevoked(l, b) ==
  /\ row[l] = "row" /\ lock[l] = Nobody
  /\ revoked[l] # b
  /\ revoked' = [revoked EXCEPT ![l] = b]
  /\ UNCHANGED <<row, cap, acts, lock, keyActive, pc, locals>>

(* AdminRevokeActivation deletes one activation by its id.                 *)
DeleteActivation(l, m) ==
  /\ m \in acts[l]
  /\ acts' = [acts EXCEPT ![l] = @ \ {m}]
  /\ UNCHANGED <<row, revoked, cap, lock, keyActive, pc, locals>>

(* VoidOrder and EraseUserData: the license row and, by hand or by the     *)
(* cascade, every activation under it.                                     *)
DeleteLicense(l) ==
  /\ row[l] = "row" /\ lock[l] = Nobody
  /\ row' = [row EXCEPT ![l] = "deleted"]
  /\ cap' = [cap EXCEPT ![l] = 0]
  /\ acts' = [acts EXCEPT ![l] = {}]
  /\ UNCHANGED <<revoked, lock, keyActive, pc, locals>>

(* AdminGenerateSigningKey as seen from here: a first key appears, or two  *)
(* concurrent rotations leave none (SigningKeys.tla has the steps).        *)
ToggleKey ==
  /\ keyActive' = ~keyActive
  /\ UNCHANGED <<row, revoked, cap, acts, lock, pc, locals>>

-----------------------------------------------------------------------------
Step(r) == \/ ReadLicense(r) \/ LockLicense(r) \/ CheckExists(r)
           \/ CountSlots(r) \/ Upsert(r) \/ Sign(r)
           \/ FindLicense(r) \/ DeleteOwn(r)

Request(r) == \/ Step(r) \/ Abort(r)
              \/ \E l \in Licenses, m \in Machines :
                    ActivateLicense(r, l, m) \/ DeactivateLicense(r, l, m)

Others == \/ ToggleKey
          \/ \E l \in Licenses :
                \/ \E n \in Grants : InsertLicense(l, n) \/ BumpCap(l, n)
                \/ \E b \in BOOLEAN : SetRevoked(l, b)
                \/ \E m \in Machines : DeleteActivation(l, m)
                \/ DeleteLicense(l)

Next == Others \/ \E r \in Requests : Request(r)

(* A handler keeps running, and PostgreSQL queues the waiters of a row     *)
(* lock first come first served, so a waiter that finds the lock free      *)
(* again and again gets it.  Nothing obliges a client to send a request.   *)
Fairness == \A r \in Requests : WF_vars(Step(r)) /\ SF_vars(LockLicense(r))

Spec == Init /\ [][Next]_vars

FairSpec == Spec /\ Fairness

-----------------------------------------------------------------------------
(* The device cap: whatever interleaves, a license never has more devices  *)
(* than slots ("otherwise the device cap is bypassable", license.go).      *)
CapRespected == \A l \in Licenses : Cardinality(acts[l]) <= cap[l]

(* Activating a machine never costs another machine its slot: at most one  *)
(* machine leaves a license that stays, and then none joins it.            *)
NoEviction ==
  [][\A l \in Licenses :
        row'[l] = "row" =>
          \/ acts[l] \subseteq acts'[l]
          \/ \E m \in acts[l] : acts'[l] = acts[l] \ {m}]_vars

(* The license row lock is never left behind: every request that reaches   *)
(* the database is answered, however many wait for the same license.       *)
Answered == \A r \in Requests : pc[r] # "idle" ~> pc[r] = "idle"

(* Together the statements of a request act as one atomic slot operation.  *)
Slots == INSTANCE DeviceSlots WITH cap <- cap, acts <- acts
ImplementsSlots == Slots!Spec

-----------------------------------------------------------------------------
(* The inductive invariant behind CapRespected.                            *)

LockHeld == \A l \in Licenses, r \in Requests :
               lock[l] = r <=> pc[r] \in Locked /\ lic[r] = l

LockedRowStays == \A r \in Requests : pc[r] \in Locked => row[lic[r]] = "row"

(* A license is granted more slots, never fewer, so a stale cap is safe;   *)
(* and a license that was read never becomes one that was not yet sold.    *)
SeenCapIsLow == \A r \in Requests :
  pc[r] \in {"lock"} \cup Locked =>
     \/ row[lic[r]] = "deleted"
     \/ row[lic[r]] = "row" /\ seenCap[r] <= cap[lic[r]]

(* What the exists and count statements establish survives until the       *)
(* insert, because meanwhile machines can only leave.                      *)
RoomToInsert == \A r \in Requests :
  pc[r] = "upsert" => Cardinality(acts[lic[r]] \cup {mach[r]}) <= cap[lic[r]]

AbsentIsEmpty == \A l \in Licenses : row[l] # "row" => acts[l] = {} /\ cap[l] = 0

IInv == /\ TypeOK
        /\ LockHeld
        /\ LockedRowStays
        /\ SeenCapIsLow
        /\ RoomToInsert
        /\ AbsentIsEmpty
        /\ CapRespected
=============================================================================
