-------------------------- MODULE ActivationProofs ---------------------------
(* Proofs about Activation: the device cap, no eviction, and that the      *)
(* handler implements DeviceSlots, for every number of requests, machines  *)
(* and licenses and every cap.                                             *)
EXTENDS Activation, FiniteSetTheorems, TLAPS

(* Every set of machines is finite, so its cardinality is a number.        *)
LEMMA MachineSets ==
  ASSUME NEW S \in SUBSET Machines
  PROVE  IsFiniteSet(S) /\ Cardinality(S) \in Nat
<1>1. IsFiniteSet(S)
  BY MachinesAssumption, FS_Subset
<1>. QED
  BY <1>1, FS_CardinalityType

(* Removing machines never raises the count.                               *)
LEMMA FewerMachines ==
  ASSUME NEW S \in SUBSET Machines, NEW T \in SUBSET S
  PROVE  Cardinality(T) <= Cardinality(S)
BY MachineSets, FS_Subset

LEMMA InitIInv == Init => IInv
<1>. SUFFICES ASSUME Init PROVE IInv
  OBVIOUS
<1>1. Cardinality({}) = 0
  BY FS_EmptySet
<1>2. TypeOK
  BY DEF Init, TypeOK
<1>. QED
  BY <1>1, <1>2, NobodyAssumption
  DEF Init, IInv, LockHeld, LockedRowStays, SeenCapIsLow, RoomToInsert,
      AbsentIsEmpty, CapRespected, Locked

LEMMA NextTypeOK == TypeOK /\ [Next]_vars => TypeOK'
<1>. SUFFICES ASSUME TypeOK, [Next]_vars PROVE TypeOK'
  OBVIOUS
<1>. USE GrantsAssumption DEF TypeOK, Activating, Deactivating, Locked, Goto, database, locals
<1>1. ASSUME NEW r \in Requests, Step(r) PROVE TypeOK'
  <2>1. CASE ReadLicense(r)
    BY <2>1 DEF ReadLicense
  <2>2. CASE LockLicense(r)
    BY <2>2 DEF LockLicense
  <2>3. CASE CheckExists(r)
    BY <2>3 DEF CheckExists
  <2>4. CASE CountSlots(r)
    BY <2>4 DEF CountSlots
  <2>5. CASE Upsert(r)
    BY <2>5 DEF Upsert
  <2>6. CASE Sign(r) \/ FindLicense(r) \/ DeleteOwn(r)
    BY <2>6 DEF Sign, FindLicense, DeleteOwn
  <2>. QED
    BY <1>1, <2>1, <2>2, <2>3, <2>4, <2>5, <2>6 DEF Step
<1>2. ASSUME NEW r \in Requests, Abort(r) PROVE TypeOK'
  BY <1>2 DEF Abort
<1>3. ASSUME NEW r \in Requests, NEW l \in Licenses, NEW m \in Machines,
             ActivateLicense(r, l, m) \/ DeactivateLicense(r, l, m)
      PROVE  TypeOK'
  BY <1>3 DEF ActivateLicense, DeactivateLicense
<1>4. CASE Others
  <2>1. ASSUME NEW l \in Licenses, NEW n \in Grants, InsertLicense(l, n) PROVE TypeOK'
    BY <2>1 DEF InsertLicense
  <2>2. ASSUME NEW l \in Licenses, NEW n \in Grants, BumpCap(l, n) PROVE TypeOK'
    BY <2>2 DEF BumpCap
  <2>3. ASSUME NEW l \in Licenses, NEW b \in BOOLEAN, SetRevoked(l, b) PROVE TypeOK'
    BY <2>3 DEF SetRevoked
  <2>4. ASSUME NEW l \in Licenses, NEW m \in Machines, DeleteActivation(l, m) PROVE TypeOK'
    BY <2>4 DEF DeleteActivation
  <2>5. ASSUME NEW l \in Licenses, DeleteLicense(l) PROVE TypeOK'
    BY <2>5 DEF DeleteLicense
  <2>6. CASE ToggleKey
    BY <2>6 DEF ToggleKey
  <2>. QED
    BY <1>4, <2>1, <2>2, <2>3, <2>4, <2>5, <2>6 DEF Others
<1>5. CASE UNCHANGED vars
  BY <1>5 DEF vars
<1>. QED
  BY <1>1, <1>2, <1>3, <1>4, <1>5 DEF Next, Request

(* The lock bookkeeping: whoever is inside the transaction holds the lock  *)
(* of its license, nobody else does, and the row cannot be deleted.        *)
LEMMA NextLock ==
  TypeOK /\ LockHeld /\ LockedRowStays /\ [Next]_vars
     => LockHeld' /\ LockedRowStays'
<1>. SUFFICES ASSUME TypeOK, LockHeld, LockedRowStays, [Next]_vars
              PROVE  LockHeld' /\ LockedRowStays'
  OBVIOUS
<1>. USE NobodyAssumption
     DEF TypeOK, LockHeld, LockedRowStays, Locked, Goto, database, locals
<1>1. ASSUME NEW r \in Requests, Step(r) PROVE LockHeld' /\ LockedRowStays'
  <2>1. CASE ReadLicense(r)
    BY <2>1 DEF ReadLicense
  <2>2. CASE LockLicense(r)
    BY <2>2 DEF LockLicense
  <2>3. CASE CheckExists(r)
    BY <2>3 DEF CheckExists
  <2>4. CASE CountSlots(r)
    BY <2>4 DEF CountSlots
  <2>5. CASE Upsert(r)
    BY <2>5 DEF Upsert
  <2>6. CASE Sign(r) \/ FindLicense(r) \/ DeleteOwn(r)
    BY <2>6 DEF Sign, FindLicense, DeleteOwn
  <2>. QED
    BY <1>1, <2>1, <2>2, <2>3, <2>4, <2>5, <2>6 DEF Step
<1>2. ASSUME NEW r \in Requests, Abort(r) PROVE LockHeld' /\ LockedRowStays'
  BY <1>2 DEF Abort
<1>3. ASSUME NEW r \in Requests, NEW l \in Licenses, NEW m \in Machines,
             ActivateLicense(r, l, m) \/ DeactivateLicense(r, l, m)
      PROVE  LockHeld' /\ LockedRowStays'
  BY <1>3 DEF ActivateLicense, DeactivateLicense
<1>4. ASSUME Others PROVE LockHeld' /\ LockedRowStays'
  BY <1>4 DEF Others, InsertLicense, BumpCap, SetRevoked, DeleteActivation,
              DeleteLicense, ToggleKey
<1>5. CASE UNCHANGED vars
  BY <1>5 DEF vars
<1>. QED
  BY <1>1, <1>2, <1>3, <1>4, <1>5 DEF Next, Request

(* The cap a request has read stays a lower bound of the license's cap.    *)
LEMMA NextSeenCap ==
  TypeOK /\ SeenCapIsLow /\ [Next]_vars => SeenCapIsLow'
<1>. SUFFICES ASSUME TypeOK, SeenCapIsLow, [Next]_vars PROVE SeenCapIsLow'
  OBVIOUS
<1>. USE GrantsAssumption DEF TypeOK, SeenCapIsLow, Locked, Goto, database, locals
<1>1. ASSUME NEW r \in Requests, Step(r) PROVE SeenCapIsLow'
  BY <1>1 DEF Step, ReadLicense, LockLicense, CheckExists, CountSlots, Upsert,
              Sign, FindLicense, DeleteOwn
<1>2. ASSUME NEW r \in Requests, Abort(r) PROVE SeenCapIsLow'
  BY <1>2 DEF Abort
<1>3. ASSUME NEW r \in Requests, NEW l \in Licenses, NEW m \in Machines,
             ActivateLicense(r, l, m) \/ DeactivateLicense(r, l, m)
      PROVE  SeenCapIsLow'
  BY <1>3 DEF ActivateLicense, DeactivateLicense
<1>4. ASSUME NEW l \in Licenses, NEW n \in Grants, BumpCap(l, n)
      PROVE  SeenCapIsLow'
  BY <1>4 DEF BumpCap
<1>5. ASSUME NEW l \in Licenses, NEW n \in Grants, InsertLicense(l, n)
      PROVE  SeenCapIsLow'
  BY <1>5 DEF InsertLicense
<1>6. ASSUME Others PROVE SeenCapIsLow'
  BY <1>4, <1>5, <1>6 DEF Others, SetRevoked, DeleteActivation, DeleteLicense, ToggleKey
<1>7. CASE UNCHANGED vars
  BY <1>7 DEF vars
<1>. QED
  BY <1>1, <1>2, <1>3, <1>6, <1>7 DEF Next, Request

(* From the exists or count statement to the insert there is room for the  *)
(* machine: only the holder of the lock adds one, everybody else removes.  *)
LEMMA NextRoom ==
  IInv /\ [Next]_vars => RoomToInsert' /\ CapRespected' /\ AbsentIsEmpty'
<1>. SUFFICES ASSUME IInv, [Next]_vars
              PROVE  RoomToInsert' /\ CapRespected' /\ AbsentIsEmpty'
  OBVIOUS
<1>t. TypeOK'
  BY NextTypeOK DEF IInv
<1>c. /\ \A l \in Licenses : Cardinality(acts[l]) \in Nat
      /\ \A r \in Requests : Cardinality(acts[lic[r]] \cup {mach[r]}) \in Nat
  <2>1. \A l \in Licenses : acts[l] \in SUBSET Machines
    BY DEF IInv, TypeOK
  <2>2. \A r \in Requests : acts[lic[r]] \cup {mach[r]} \in SUBSET Machines
    BY DEF IInv, TypeOK
  <2>. QED
    BY <2>1, <2>2, MachineSets
<1>. USE GrantsAssumption, NobodyAssumption
     DEF IInv, TypeOK, Locked, Goto, database, locals
<1>1. ASSUME UNCHANGED <<acts, cap, row, lic, mach>>,
             \A r \in Requests : pc'[r] = "upsert" => pc[r] = "upsert"
      PROVE  RoomToInsert' /\ CapRespected' /\ AbsentIsEmpty'
  BY <1>1 DEF RoomToInsert, CapRespected, AbsentIsEmpty
<1>2. ASSUME NEW r \in Requests, CheckExists(r)
      PROVE  RoomToInsert' /\ CapRespected' /\ AbsentIsEmpty'
  <2>1. mach[r] \in acts[lic[r]] => acts[lic[r]] \cup {mach[r]} = acts[lic[r]]
    OBVIOUS
  <2>. QED
    BY <1>2, <2>1 DEF CheckExists, RoomToInsert, CapRespected, AbsentIsEmpty
<1>3. ASSUME NEW r \in Requests, CountSlots(r)
      PROVE  RoomToInsert' /\ CapRespected' /\ AbsentIsEmpty'
  <2>. DEFINE S == acts[lic[r]]
  <2>1. IsFiniteSet(S) /\ Cardinality(S) \in Nat
    BY MachineSets
  <2>2. Cardinality(S \cup {mach[r]}) <= Cardinality(S) + 1
    <3>1. Cardinality(S \cup {mach[r]})
             = IF mach[r] \in S THEN Cardinality(S) ELSE Cardinality(S) + 1
      BY <2>1, FS_AddElement
    <3>. QED
      BY <2>1, <3>1
  <2>3. seenCap[r] <= cap[lic[r]]
    BY <1>3 DEF CountSlots, SeenCapIsLow, LockedRowStays
  <2>4. pc'[r] = "upsert" => Cardinality(S \cup {mach[r]}) <= cap[lic[r]]
    <3>1. pc'[r] = "upsert" => Cardinality(S) < seenCap[r]
      BY <1>3, <2>1 DEF CountSlots
    <3>. HIDE DEF S
    <3>. QED
      BY <1>c, <2>1, <2>2, <2>3, <3>1 DEF S
  <2>. QED
    BY <1>3, <2>4 DEF CountSlots, RoomToInsert, CapRespected, AbsentIsEmpty
<1>4. ASSUME NEW r \in Requests, Upsert(r)
      PROVE  RoomToInsert' /\ CapRespected' /\ AbsentIsEmpty'
  <2>1. \A q \in Requests : pc'[q] = "upsert" => pc[q] = "upsert" /\ lic[q] # lic[r]
    BY <1>4 DEF Upsert, LockHeld
  <2>2. RoomToInsert'
    BY <1>4, <2>1 DEF Upsert, RoomToInsert
  <2>3. CapRespected'
    BY <1>4 DEF Upsert, RoomToInsert, CapRespected
  <2>4. AbsentIsEmpty'
    BY <1>4 DEF Upsert, AbsentIsEmpty, LockedRowStays
  <2>. QED
    BY <2>2, <2>3, <2>4
<1>5. ASSUME UNCHANGED <<cap, row, lic, mach>>,
             \A r \in Requests : pc'[r] = "upsert" => pc[r] = "upsert",
             \A l \in Licenses : acts'[l] \subseteq acts[l]
      PROVE  RoomToInsert' /\ CapRespected' /\ AbsentIsEmpty'
  <2>1. ASSUME NEW l \in Licenses
        PROVE  /\ Cardinality(acts'[l]) <= Cardinality(acts[l])
               /\ Cardinality(acts'[l]) \in Nat
    <3>1. acts[l] \in SUBSET Machines /\ acts'[l] \in SUBSET acts[l]
      BY <1>5
    <3>. QED
      BY <3>1, FewerMachines, MachineSets
  <2>2. ASSUME NEW r \in Requests
        PROVE  /\ Cardinality(acts'[lic[r]] \cup {mach[r]})
                     <= Cardinality(acts[lic[r]] \cup {mach[r]})
               /\ Cardinality(acts'[lic[r]] \cup {mach[r]}) \in Nat
    <3>1. /\ acts[lic[r]] \cup {mach[r]} \in SUBSET Machines
          /\ acts'[lic[r]] \cup {mach[r]} \in SUBSET (acts[lic[r]] \cup {mach[r]})
      BY <1>5
    <3>. QED
      BY <3>1, FewerMachines, MachineSets
  <2>3. RoomToInsert'
    <3>. SUFFICES ASSUME NEW r \in Requests, pc'[r] = "upsert"
                  PROVE  Cardinality(acts'[lic[r]] \cup {mach[r]}) <= cap[lic[r]]
      BY <1>5 DEF RoomToInsert
    <3>. DEFINE before == Cardinality(acts[lic[r]] \cup {mach[r]})
                after == Cardinality(acts'[lic[r]] \cup {mach[r]})
    <3>1. before <= cap[lic[r]] /\ cap[lic[r]] \in Nat
      BY <1>5 DEF RoomToInsert
    <3>2. after <= before /\ after \in Nat /\ before \in Nat
      BY <1>c, <2>2
    <3>. HIDE DEF before, after
    <3>3. after <= cap[lic[r]]
      BY <3>1, <3>2
    <3>. QED
      BY <3>3 DEF after
  <2>4. CapRespected'
    BY <1>5, <1>c, <2>1 DEF CapRespected
  <2>5. AbsentIsEmpty'
    BY <1>5 DEF AbsentIsEmpty
  <2>. QED
    BY <2>3, <2>4, <2>5
<1>6. ASSUME NEW l \in Licenses, NEW n \in Grants, InsertLicense(l, n) \/ BumpCap(l, n)
      PROVE  RoomToInsert' /\ CapRespected' /\ AbsentIsEmpty'
  <2>1. UNCHANGED <<acts, pc, lic, mach>> /\ \A k \in Licenses : cap'[k] >= cap[k]
    BY <1>6 DEF InsertLicense, BumpCap, AbsentIsEmpty
  <2>2. \A k \in Licenses : cap[k] \in Nat /\ cap'[k] \in Nat
    BY <1>t
  <2>3. RoomToInsert' /\ CapRespected'
    BY <1>c, <2>1, <2>2 DEF RoomToInsert, CapRespected
  <2>4. AbsentIsEmpty'
    BY <1>6 DEF InsertLicense, BumpCap, AbsentIsEmpty
  <2>. QED
    BY <2>3, <2>4
<1>7. ASSUME NEW l \in Licenses, DeleteLicense(l)
      PROVE  RoomToInsert' /\ CapRespected' /\ AbsentIsEmpty'
  <2>1. Cardinality({}) = 0
    BY FS_EmptySet
  <2>. QED
    BY <1>7, <2>1 DEF DeleteLicense, RoomToInsert, CapRespected, AbsentIsEmpty, LockHeld
<1>8. ASSUME NEW r \in Requests, Step(r)
      PROVE  RoomToInsert' /\ CapRespected' /\ AbsentIsEmpty'
  BY <1>1, <1>2, <1>3, <1>4, <1>5, <1>8
  DEF Step, ReadLicense, LockLicense, Sign, FindLicense, DeleteOwn
<1>9. ASSUME NEW r \in Requests, Request(r)
      PROVE  RoomToInsert' /\ CapRespected' /\ AbsentIsEmpty'
  <2>1. ASSUME NEW l \in Licenses, NEW m \in Machines,
               ActivateLicense(r, l, m) \/ DeactivateLicense(r, l, m)
        PROVE  RoomToInsert' /\ CapRespected' /\ AbsentIsEmpty'
    BY <2>1 DEF ActivateLicense, DeactivateLicense, RoomToInsert, CapRespected,
                AbsentIsEmpty
  <2>2. CASE Abort(r)
    BY <1>1, <2>2 DEF Abort
  <2>. QED
    BY <1>8, <1>9, <2>1, <2>2 DEF Request
<1>10. ASSUME Others
       PROVE  RoomToInsert' /\ CapRespected' /\ AbsentIsEmpty'
  BY <1>1, <1>5, <1>6, <1>7, <1>10 DEF Others, SetRevoked, DeleteActivation, ToggleKey
<1>. QED
  BY <1>1, <1>9, <1>10 DEF Next, vars

LEMMA NextIInv == IInv /\ [Next]_vars => IInv'
BY NextTypeOK, NextLock, NextSeenCap, NextRoom DEF IInv

LEMMA Invariance == Spec => []IInv
<1>1. Init => IInv
  BY InitIInv
<1>2. IInv /\ [Next]_vars => IInv'
  BY NextIInv
<1>. QED
  BY <1>1, <1>2, PTL DEF Spec

(* Every reachable state has the types the tables and the handler give it. *)
THEOREM TypeCorrect == Spec => []TypeOK
<1>1. IInv => TypeOK
  BY DEF IInv
<1>. QED
  BY <1>1, Invariance, PTL

(* No interleaving of requests gives a license more devices than slots     *)
(* (runActivationTx, LockLicenseForActivation).                            *)
THEOREM DeviceCap == Spec => []CapRespected
<1>1. IInv => CapRespected
  BY DEF IInv
<1>. QED
  BY <1>1, Invariance, PTL

-----------------------------------------------------------------------------
(* What one step does to the slots, from which both NoEviction and the     *)
(* refinement follow.                                                      *)
LEMMA SlotStep == IInv /\ [Next]_vars => [Slots!Next]_(Slots!slotVars)
<1>. SUFFICES ASSUME IInv, [Next]_vars
              PROVE  Slots!Next \/ UNCHANGED <<cap, acts>>
  BY DEF Slots!slotVars
<1>. USE DEF IInv, TypeOK, database, locals
<1>1. ASSUME NEW r \in Requests, Upsert(r)
      PROVE  Slots!Next \/ UNCHANGED <<cap, acts>>
  <2>. DEFINE S == acts[lic[r]]
  <2>1. CASE mach[r] \in S
    <3>1. S \cup {mach[r]} = S
      BY <2>1
    <3>2. acts' = acts
      BY <1>1, <3>1 DEF Upsert
    <3>. QED
      BY <1>1, <3>2 DEF Upsert
  <2>2. CASE mach[r] \notin S
    <3>1. IsFiniteSet(S) /\ Cardinality(S) \in Nat
      BY MachineSets
    <3>2. Cardinality(S \cup {mach[r]}) = Cardinality(S) + 1
      BY <2>2, <3>1, FS_AddElement
    <3>3. Cardinality(S \cup {mach[r]}) <= cap[lic[r]]
      BY <1>1 DEF Upsert, RoomToInsert
    <3>. HIDE DEF S
    <3>4. Cardinality(S) < cap[lic[r]]
      BY <3>1, <3>2, <3>3
    <3>. USE DEF S
    <3>5. Slots!Cardinality(S) = Cardinality(S)
      BY Zenon DEF Cardinality, Slots!Cardinality
    <3>6. Slots!Cardinality(acts[lic[r]]) < cap[lic[r]]
      BY <3>4, <3>5
    <3>7. Slots!Take(lic[r], mach[r])
      BY <1>1, <2>2, <3>6 DEF Upsert, Slots!Take
    <3>. QED
      BY <3>7 DEF Slots!Next
  <2>. QED
    BY <2>1, <2>2
<1>2. ASSUME NEW l \in Licenses, NEW m \in Machines, UNCHANGED cap,
             acts' = [acts EXCEPT ![l] = @ \ {m}]
      PROVE  Slots!Next \/ UNCHANGED <<cap, acts>>
  <2>1. CASE m \in acts[l]
    BY <1>2, <2>1 DEF Slots!Next, Slots!Release
  <2>2. CASE m \notin acts[l]
    BY <1>2, <2>2
  <2>. QED
    BY <2>1, <2>2
<1>3. ASSUME NEW r \in Requests, DeleteOwn(r)
      PROVE  Slots!Next \/ UNCHANGED <<cap, acts>>
  BY <1>2, <1>3 DEF DeleteOwn
<1>4. ASSUME NEW r \in Requests, Request(r)
      PROVE  Slots!Next \/ UNCHANGED <<cap, acts>>
  BY <1>1, <1>3, <1>4
  DEF Request, Step, ReadLicense, LockLicense, CheckExists, CountSlots, Sign,
      FindLicense, Abort, ActivateLicense, DeactivateLicense
<1>5. ASSUME NEW l \in Licenses, NEW n \in Grants, InsertLicense(l, n) \/ BumpCap(l, n)
      PROVE  Slots!Next
  <2>1. UNCHANGED acts /\ \E k \in Nat : k > cap[l] /\ cap' = [cap EXCEPT ![l] = k]
    BY <1>5, GrantsAssumption DEF InsertLicense, BumpCap, AbsentIsEmpty
  <2>2. Slots!Grant(l)
    BY <2>1 DEF Slots!Grant
  <2>. QED
    BY <2>2 DEF Slots!Next
<1>6. ASSUME NEW l \in Licenses, DeleteLicense(l)
      PROVE  Slots!Next
  BY <1>6 DEF DeleteLicense, Slots!Next, Slots!Withdraw
<1>7. ASSUME Others
      PROVE  Slots!Next \/ UNCHANGED <<cap, acts>>
  BY <1>2, <1>5, <1>6, <1>7 DEF Others, SetRevoked, DeleteActivation, ToggleKey
<1>. QED
  BY <1>4, <1>7 DEF Next, vars

(* The statements of the handlers together act as atomic slot operations:  *)
(* activation implements DeviceSlots.                                      *)
THEOREM ActivationImplementsSlots == Spec => ImplementsSlots
<1>1. Init => Slots!Init
  BY DEF Init, Slots!Init
<1>. QED
  BY <1>1, SlotStep, Invariance, PTL DEF Spec, ImplementsSlots, Slots!Spec

(* A machine loses its slot only when it gives it back or an admin takes   *)
(* it, never because another machine activates.                            *)
THEOREM NoSlotIsStolen == Spec => NoEviction
<1>. DEFINE Kept == \A l \in Licenses :
        row'[l] = "row" =>
          \/ acts[l] \subseteq acts'[l]
          \/ \E m \in acts[l] : acts'[l] = acts[l] \ {m}
<1>1. IInv /\ [Next]_vars => [Kept]_vars
  <2>. SUFFICES ASSUME IInv, Next PROVE Kept
    OBVIOUS
  <2>. USE DEF IInv, TypeOK, database, locals
  <2>1. ASSUME NEW k \in Licenses, NEW m \in Machines,
               acts' = [acts EXCEPT ![k] = @ \ {m}]
        PROVE  Kept
    <3>. SUFFICES ASSUME NEW l \in Licenses
                  PROVE  \/ acts[l] \subseteq acts'[l]
                         \/ \E n \in acts[l] : acts'[l] = acts[l] \ {n}
      OBVIOUS
    <3>1. CASE l = k /\ m \in acts[k]
      BY <2>1, <3>1
    <3>2. CASE ~(l = k /\ m \in acts[k])
      BY <2>1, <3>2
    <3>. QED
      BY <3>1, <3>2
  <2>2. ASSUME NEW r \in Requests, Request(r) PROVE Kept
    <3>1. CASE DeleteOwn(r)
      BY <2>1, <3>1 DEF DeleteOwn
    <3>2. CASE ~DeleteOwn(r)
      BY <2>2, <3>2
      DEF Request, Step, ReadLicense, LockLicense, CheckExists, CountSlots, Upsert,
          Sign, FindLicense, Abort, ActivateLicense, DeactivateLicense
    <3>. QED
      BY <3>1, <3>2
  <2>3. ASSUME Others PROVE Kept
    <3>1. ASSUME NEW l \in Licenses, DeleteLicense(l) PROVE Kept
      BY <3>1 DEF DeleteLicense
    <3>2. ASSUME NEW l \in Licenses, NEW m \in Machines, DeleteActivation(l, m)
          PROVE  Kept
      BY <2>1, <3>2 DEF DeleteActivation
    <3>. QED
      BY <2>3, <3>1, <3>2 DEF Others, InsertLicense, BumpCap, SetRevoked, ToggleKey
  <2>. QED
    BY <2>2, <2>3 DEF Next
<1>. QED
  BY <1>1, Invariance, PTL DEF Spec, NoEviction
=============================================================================
