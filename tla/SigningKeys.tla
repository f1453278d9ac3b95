----------------------------- MODULE SigningKeys -----------------------------
(***************************************************************************)
(* Rotation of the Ed25519 signing key: AdminGenerateSigningKey            *)
(* (handlers/admin/signing_keys.go) is an INSERT, a transaction of two     *)
(* UPDATEs and a DELETE (db/queries/signing_keys.go), and nothing keeps    *)
(* two of them apart but the row locks and the unique partial index on     *)
(* signing_keys(active).  Without an active key nothing can be sold or     *)
(* activated.  Its names begin with Key where Catalog, the other part of   *)
(* the admin area, has the same (AdminProofs is about both).               *)
(***************************************************************************)
EXTENDS FiniteSets

CONSTANTS
  Rotations,  \* calls of AdminGenerateSigningKey that may run at once
  KeyIds,     \* BOUND on keys ever generated
  NoKey       \* a rotation that has none yet

VARIABLES
  keys,    \* committed rows of signing_keys
  active,  \* those with active = TRUE
  used,    \* ids generated so far
  pc,      \* where each rotation stands
  row,     \* the key it generated; later, the one its DELETE has come to
  snap,    \* rows the UPDATE or DELETE saw that it has still to come to
  locked   \* rows its open transaction has updated or deleted

keyVars == <<keys, active, used, pc, row, snap, locked>>

Steps == {"deactivate", "wait", "activate", "index", "delete", "scan", "sweep"}

KeyTypeOK ==
  /\ keys \subseteq used /\ used \subseteq KeyIds
  /\ active \subseteq keys
  /\ pc \in [Rotations -> {"idle"} \cup Steps]
  /\ row \in [Rotations -> KeyIds \cup {NoKey}]
  /\ snap \in [Rotations -> SUBSET KeyIds]
  /\ locked \in [Rotations -> SUBSET KeyIds]

KeyInit ==
  /\ keys = {} /\ active = {} /\ used = {}
  /\ pc = [h \in Rotations |-> "idle"]
  /\ row = [h \in Rotations |-> NoKey]
  /\ snap = [h \in Rotations |-> {}]
  /\ locked = [h \in Rotations |-> {}]

Move(h, to) == pc' = [pc EXCEPT ![h] = to]
Lock(h, S) == locked' = [locked EXCEPT ![h] = S]

(* The end of a rotation, and of its transaction if one is open.           *)
Leave(h) ==
  /\ Move(h, "idle")
  /\ row' = [row EXCEPT ![h] = NoKey]
  /\ snap' = [snap EXCEPT ![h] = {}]
  /\ Lock(h, {})

(* The rows a statement needs: those an UPDATE or DELETE has come to, and  *)
(* the ones whose entry in the unique index is in the way.                 *)
Wanted(h) ==
  CASE pc[h] = "wait" -> snap[h]
    [] pc[h] \in {"activate", "sweep"} -> {row[h]}
    [] pc[h] = "index" -> active \ locked[h]
    [] OTHER -> {}

(* Whose transactions it waits for.                                        *)
WaitsOn(h) == {g \in Rotations \ {h} : locked[g] \cap Wanted(h) # {}}

(* InsertSigningKey: the new key is not active yet.                        *)
Insert(h) ==
  /\ pc[h] = "idle"
  /\ \E k \in KeyIds \ used :
        /\ keys' = keys \cup {k}
        /\ used' = used \cup {k}
        /\ row' = [row EXCEPT ![h] = k]
  /\ Move(h, "deactivate")
  /\ UNCHANGED <<active, snap, locked>>

(* ActivateSigningKey, UPDATE .. active = FALSE WHERE active = TRUE: the   *)
(* rows it is about are fixed when it starts ...                           *)
Snapshot(h) ==
  /\ pc[h] = "deactivate"
  /\ snap' = [snap EXCEPT ![h] = active]
  /\ Move(h, "wait")
  /\ UNCHANGED <<keys, active, used, row, locked>>

(* Mutant of Deactivate: no transaction around the two UPDATEs.            *)
DeactivateAtOnce(h) ==
  /\ pc[h] = "wait"
  /\ active' = active \ snap[h]
  /\ Move(h, "activate")
  /\ UNCHANGED <<keys, used, row, snap, locked>>

(* Mutant of Deactivate: it never gets past a row another rotation locked. *)
DeactivateUnlessSeen(h) ==
  /\ pc[h] = "wait" /\ WaitsOn(h) = {} /\ snap[h] \subseteq active
  /\ Lock(h, snap[h])
  /\ Move(h, "activate")
  /\ UNCHANGED <<keys, active, used, row, snap>>

(* ... and, once nobody else holds them, it takes those still active.      *)
Deactivate(h) ==
  /\ pc[h] = "wait" /\ WaitsOn(h) = {}
  /\ Lock(h, snap[h] \cap active)
  /\ Move(h, "activate")
  /\ UNCHANGED <<keys, active, used, row, snap>>

(* Mutant of Activate: SET active = (id = $1), which writes every row.     *)
ActivateAll(h) ==
  /\ pc[h] = "activate" /\ row[h] \in keys /\ WaitsOn(h) = {}
  /\ Lock(h, {k \in keys : \A g \in Rotations \ {h} : k \notin locked[g]})
  /\ Move(h, "index")
  /\ UNCHANGED <<keys, active, used, row, snap>>

(* UPDATE .. active = TRUE WHERE id: a row that a clean-up is deleting is  *)
(* waited for.  If it is gone, that is no error, and COMMIT follows.       *)
Activate(h) ==
  /\ pc[h] = "activate" /\ WaitsOn(h) = {}
  /\ IF row[h] \in keys
       THEN Lock(h, locked[h] \cup {row[h]}) /\ Move(h, "index") /\ UNCHANGED active
       ELSE Lock(h, {}) /\ Move(h, "delete") /\ active' = active \ locked[h]
  /\ UNCHANGED <<keys, used, row, snap>>

(* Mutant of Commit: an upsert, which needs no row.                        *)
CommitBlindly(h) ==
  /\ pc[h] \in {"activate", "index"}
  /\ active' = {row[h]} /\ Lock(h, {}) /\ Move(h, "delete")
  /\ UNCHANGED <<keys, used, row, snap>>

(* Its entry in the unique index, and COMMIT.  Another active key is an    *)
(* error, once it is settled whether the transaction that holds it commits. *)
Commit(h) ==
  /\ pc[h] = "index" /\ WaitsOn(h) = {}
  /\ \/ /\ active \subseteq locked[h]
        /\ active' = {row[h]} /\ Lock(h, {}) /\ Move(h, "delete")
        /\ UNCHANGED <<row, snap>>
     \/ ~ active \subseteq locked[h] /\ Leave(h) /\ UNCHANGED active
  /\ UNCHANGED <<keys, used>>

(* DeleteInactiveSigningKeys: the rows that are inactive when it starts,   *)
(* keys that other rotations have just inserted among them, ...            *)
DeleteInactive(h) ==
  /\ pc[h] = "delete"
  /\ snap' = [snap EXCEPT ![h] = keys \ active]
  /\ Move(h, "scan")
  /\ UNCHANGED <<keys, active, used, row, locked>>

(* ... one after the other, in the order the table happens to have.        *)
NextRow(h) ==
  /\ pc[h] = "scan"
  /\ \E k \in snap[h] :
        row' = [row EXCEPT ![h] = k] /\ snap' = [snap EXCEPT ![h] = @ \ {k}]
  /\ Move(h, "sweep")
  /\ UNCHANGED <<keys, active, used, locked>>

(* A row is looked at again once nobody else holds it.                     *)
DeleteRow(h) ==
  /\ pc[h] = "sweep" /\ WaitsOn(h) = {}
  /\ Lock(h, locked[h] \cup ({row[h]} \cap (keys \ active)))
  /\ Move(h, "scan")
  /\ UNCHANGED <<keys, active, used, row, snap>>

(* The statement commits by itself; then 201.                              *)
EndDelete(h) ==
  /\ pc[h] = "scan" /\ snap[h] = {}
  /\ keys' = keys \ locked[h]
  /\ Leave(h)
  /\ UNCHANGED <<active, used>>

(* A statement fails, the admin's browser goes away, or the process dies.  *)
Abort(h) ==
  /\ pc[h] # "idle"
  /\ Leave(h)
  /\ UNCHANGED <<keys, active, used>>

Circle(S) == S # {} /\ \A h \in S : WaitsOn(h) \cap S # {}

(* PostgreSQL ends a circle of waits by an error for one in it.            *)
Detect(h) ==
  /\ \E S \in SUBSET Rotations :
        h \in S /\ Circle(S) /\ \A T \in SUBSET S : Circle(T) => T = S
  /\ Abort(h)

Step(h) ==
  \/ Snapshot(h) \/ Deactivate(h) \/ Activate(h) \/ Commit(h)
  \/ DeleteInactive(h) \/ NextRow(h) \/ DeleteRow(h) \/ EndDelete(h)

KeyNext == \E h \in Rotations : Insert(h) \/ Step(h) \/ Abort(h) \/ Detect(h)

(* A handler keeps running, and the database looks for circles.            *)
KeySpec ==
  /\ KeyInit /\ [][KeyNext]_keyVars
  /\ \A h \in Rotations : WF_keyVars(Step(h)) /\ WF_keyVars(Detect(h))

-----------------------------------------------------------------------------
(* The store loses its signing key in one way only: the key a rotation is  *)
(* about to activate was deleted by another rotation's clean-up.           *)
KeyLostOnlyToCleanup ==
  [][active # {} /\ active' = {} =>
        \E h \in Rotations : pc[h] = "activate" /\ row[h] \notin keys]_keyVars

(* Every rotation is answered: a wait ends with the transaction it is for, *)
(* or is in a circle that the database breaks.                             *)
RotationEnds == \A h \in Rotations : pc[h] # "idle" ~> pc[h] = "idle"

(* Rotations wait for row locks and for the unique index, but only a       *)
(* clean-up's DELETE can close a circle: the two UPDATEs of                *)
(* ActivateSigningKey, in the order they are in, never do.                 *)
CirclesNeedCleanup ==
  \A S \in SUBSET Rotations : Circle(S) => \E h \in S : pc[h] = "sweep"

(* What holds the rows that are waited for.  Until its key is active, a    *)
(* rotation holds none but the active key and its own, ...                 *)
Bare == {"idle", "deactivate", "wait", "delete"}
Pending == {"deactivate", "wait", "activate", "index"}

RowsHeld == \A h \in Rotations :
  /\ pc[h] \in Bare => locked[h] = {}
  /\ pc[h] = "activate" => locked[h] \subseteq active
  /\ pc[h] = "index" => /\ row[h] \in keys \cap locked[h]
                        /\ locked[h] \subseteq active \cup {row[h]}
  /\ pc[h] \in {"scan", "sweep"} => locked[h] \cap active = {}

(* ... and one row has one holder, one key is active, and a key that is to *)
(* be activated is one rotation's.                                         *)
LocksOK ==
  /\ \A j, k \in active : j = k
  /\ \A g, h \in Rotations : g # h => locked[g] \cap locked[h] = {}
  /\ \A h \in Rotations : pc[h] \in Pending =>
        /\ row[h] \in used \ active
        /\ \A g \in Rotations \ {h} : pc[g] \in Pending => row[g] # row[h]

(* "ActivateSigningKey sets the given key active and all others inactive,  *)
(* atomically" (db/queries/signing_keys.go).                               *)
ActivatesGiven ==
  [][\A h \in Rotations :
        pc[h] # "delete" /\ pc'[h] = "delete" => active' = {row[h]}]_keyVars
=============================================================================
