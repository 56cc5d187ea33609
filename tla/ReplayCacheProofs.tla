------------------------- MODULE ReplayCacheProofs -------------------------
(***************************************************************************)
(* Proofs about ReplayCache for any processes, calls and keys and any      *)
(* limit on entries: its types, that a reader never meets a partial entry, *)
(* that no running process has a temp file nobody cleans up, and how far   *)
(* concurrent puts may exceed the limit.                                   *)
(***************************************************************************)
EXTENDS ReplayCache, FiniteSetTheorems, TLAPS

-----------------------------------------------------------------------------
(* Types *)

(* The directory is empty and nobody is busy.                              *)
LEMMA TypeInit == Init => TypeOK
  BY CacheAssumption DEF Init, TypeOK, Content, Whole, TempNames

(* A temp file is one of the names that exist.                             *)
LEMMA TempNameType ==
  ASSUME TypeOK, NEW t \in Tasks, key[t] \in Keys
  PROVE  TempName(t) \in TempNames
  BY CacheAssumption DEF TempName, TempNames

(* A task that is busy has a key.                                          *)
LEMMA BusyKey ==
  ASSUME TypeOK, NEW t \in Tasks, pc[t] # "idle"
  PROVE  key[t] \in Keys
  BY DEF TypeOK

(* Every step keeps the types; only the files and Kill need a thought.     *)
LEMMA TypeStep == TypeOK /\ [Next]_vars => TypeOK'
<1>. SUFFICES ASSUME TypeOK, [Next]_vars
              PROVE  TypeOK'
  OBVIOUS
<1>. USE CacheAssumption
     DEF TypeOK, Content, Whole, Busy, Putting, Goto, Begin, Forget, files
<1>1. ASSUME NEW t \in Tasks, TaskStep(t)
      PROVE  TypeOK'
  <2>0. pc[t] # "idle" => TempName(t) \in TempNames
    BY TempNameType, BusyKey
  <2>1. ASSUME NEW k \in Keys, FindBad(t, k) PROVE TypeOK'
    BY <2>1 DEF FindBad
  <2>2. ASSUME NEW k \in Keys, BeginPut(t, k) PROVE TypeOK'
    <3>1. PICK S \in Victims :
            /\ victims' = [victims EXCEPT ![t] = S]
            /\ Begin(t, k, IF S = {} THEN "opening" ELSE "evicting")
      BY <2>2 DEF BeginPut
    <3>2. S \subseteq Keys
      BY DEF Victims, Entries
    <3>. QED  BY <2>2, <3>1, <3>2 DEF BeginPut
  <2>3. CASE Quarantine(t)
    BY <2>3 DEF Quarantine
  <2>4. CASE QuarantineFails(t)
    BY <2>4 DEF QuarantineFails
  <2>5. CASE Delete(t)
    BY <2>5 DEF Delete
  <2>6. CASE DeleteFails(t)
    BY <2>6 DEF DeleteFails
  <2>7. CASE Evict(t)
    BY <2>7 DEF Evict
  <2>8. CASE OpenTemp(t)
    BY <2>8 DEF OpenTemp
  <2>9. CASE WriteTemp(t)
    BY <2>9 DEF WriteTemp
  <2>10. CASE WriteFails(t)
    BY <2>10 DEF WriteFails
  <2>11. CASE Rename(t)
    BY <2>0, <2>11 DEF Rename
  <2>12. CASE RenameFails(t)
    BY <2>12 DEF RenameFails
  <2>13. CASE Clean(t)
    BY <2>13 DEF Clean
  <2>. QED
    BY <1>1, <2>1, <2>2, <2>3, <2>4, <2>5, <2>6, <2>7, <2>8, <2>9, <2>10,
       <2>11, <2>12, <2>13 DEF TaskStep
<1>2. ASSUME NEW n \in TempNames, RemoveTemp(n)
      PROVE  TypeOK'
  BY <1>2 DEF RemoveTemp
<1>3. ASSUME NEW p \in Procs, Kill(p)
      PROVE  TypeOK'
  <2>1. temp' \in [TempNames -> Content] /\ kills' \in 0 .. MaxKills
    BY <1>3 DEF Kill
  <2>2. /\ pc' = [t \in Tasks |-> IF Proc[t] = p THEN "idle" ELSE pc[t]]
        /\ key' = [t \in Tasks |-> IF Proc[t] = p THEN NoKey ELSE key[t]]
        /\ victims' =
             [t \in Tasks |-> IF Proc[t] = p THEN {} ELSE victims[t]]
        /\ enabled' = [enabled EXCEPT ![p] = TRUE]
        /\ entry' = entry
    BY <1>3 DEF Kill
  <2>. QED  BY <2>1, <2>2
<1>4. ASSUME NEW k \in Keys, Rot(k)
      PROVE  TypeOK'
  BY <1>4 DEF Rot
<1>5. CASE UNCHANGED vars
  BY <1>5 DEF vars
<1>. QED  BY <1>1, <1>2, <1>3, <1>4, <1>5 DEF Next

(* Type correctness of the cache.                                          *)
THEOREM CacheTypeCorrect == Spec => []TypeOK
<1>. QED  BY TypeInit, TypeStep, PTL DEF Spec

-----------------------------------------------------------------------------
(* Whole entries *)

(***************************************************************************)
(* Why no partial entry is read.  A temp file that is about to be renamed  *)
(* has been written to its end or removed by a sweep: nobody else opens a  *)
(* file of its name, since the name holds the process id and no two puts   *)
(* of one process have the same key.                                       *)
(***************************************************************************)
Separate ==
  \A t, u \in Tasks :
    /\ t # u /\ Proc[t] = Proc[u]
    /\ pc[t] \in Putting /\ pc[u] \in Putting
    => key[t] # key[u]

RenamesWhole ==
  \A t \in Tasks : pc[t] = "renaming" => temp[TempName(t)] # "partial"

IInv == TypeOK /\ Separate /\ RenamesWhole /\ EntriesWhole

(* Nobody puts, and there is no entry.                                     *)
LEMMA InvInit == Init => IInv
<1>1. Init => TypeOK
  BY TypeInit
<1>. QED  BY <1>1 DEF Init, IInv, Separate, RenamesWhole, EntriesWhole, Putting

(***************************************************************************)
(* A put begins only if no sibling has its key; a task keeps its key until *)
(* it is idle again.                                                       *)
(***************************************************************************)
LEMMA SeparateStep == TypeOK /\ Separate /\ [Next]_vars => Separate'
<1>. SUFFICES ASSUME TypeOK, Separate, [Next]_vars
              PROVE  Separate'
  OBVIOUS
<1>. USE DEF Goto, Begin, Forget, Putting, files
<1>1. ASSUME NEW t \in Tasks, TaskStep(t)
      PROVE  Separate'
  <2>1. ASSUME NEW k \in Keys, FindBad(t, k) PROVE Separate'
    BY <2>1 DEF FindBad, Separate, TypeOK
  <2>2. ASSUME NEW k \in Keys, BeginPut(t, k) PROVE Separate'
    <3>1. /\ pc' = [pc EXCEPT ![t] = pc'[t]]
          /\ key' = [key EXCEPT ![t] = k]
          /\ NoSibling(t, k)
      BY <2>2 DEF BeginPut, TypeOK
    <3>. QED  BY <3>1 DEF NoSibling, Separate, TypeOK
  <2>3. CASE \/ Quarantine(t) \/ Delete(t) \/ DeleteFails(t) \/ Rename(t)
             \/ Clean(t)
    <3>1. pc' = [pc EXCEPT ![t] = "idle"] /\ key' = [key EXCEPT ![t] = NoKey]
      BY <2>3 DEF Quarantine, Delete, DeleteFails, Rename, Clean
    <3>. QED  BY <3>1 DEF Separate, TypeOK
  <2>4. CASE QuarantineFails(t)
    BY <2>4 DEF QuarantineFails, Separate, TypeOK
  <2>5. CASE \/ Evict(t) \/ OpenTemp(t) \/ WriteTemp(t) \/ WriteFails(t)
             \/ RenameFails(t)
    <3>1. /\ pc[t] \in Putting
          /\ pc' = [pc EXCEPT ![t] = pc'[t]]
          /\ key' = key
      BY <2>5
         DEF Evict, OpenTemp, WriteTemp, WriteFails, RenameFails, TypeOK
    <3>. QED  BY <3>1 DEF Separate, TypeOK
  <2>. QED  BY <1>1, <2>1, <2>2, <2>3, <2>4, <2>5 DEF TaskStep
<1>2. ASSUME NEW p \in Procs, Kill(p)
      PROVE  Separate'
  <2>1. \A t \in Tasks : \/ pc'[t] = "idle"
                         \/ pc'[t] = pc[t] /\ key'[t] = key[t]
    BY <1>2 DEF Kill
  <2>. QED  BY <2>1 DEF Separate
<1>3. CASE UNCHANGED <<pc, key>>
  BY <1>3 DEF Separate
<1>. QED
  BY <1>1, <1>2, <1>3 DEF Next, RemoveTemp, Rot, vars

(* Two puts do not share a temp file.                                      *)
LEMMA OwnTempName ==
  ASSUME Separate, NEW t \in Tasks, NEW u \in Tasks, t # u,
         pc[t] \in Putting, pc[u] \in Putting
  PROVE  TempName(t) # TempName(u)
  BY DEF Separate, TempName

(* The name of a temp file stays while its task keeps its key.             *)
LEMMA SameTempName ==
  ASSUME NEW t \in Tasks, key'[t] = key[t]
  PROVE  TempName(t)' = TempName(t)
  BY DEF TempName

(* What a rename finds under its name is whole, or nothing.                *)
LEMMA RenamesStep ==
  TypeOK /\ Separate /\ RenamesWhole /\ [Next]_vars => RenamesWhole'
<1>. SUFFICES ASSUME TypeOK, Separate, RenamesWhole, [Next]_vars,
                     NEW u \in Tasks, pc'[u] = "renaming"
              PROVE  (temp[TempName(u)])' # "partial"
  BY DEF RenamesWhole
<1>. USE DEF Goto, Begin, Forget, files
<1>1. ASSUME NEW t \in Tasks, TaskStep(t)
      PROVE  (temp[TempName(u)])' # "partial"
  <2>1. CASE WriteTemp(t) /\ t = u
    <3>1. TempName(u)' = TempName(u) /\ TempName(u) \in TempNames
      BY <2>1, SameTempName, BusyKey, TempNameType DEF WriteTemp
    <3>. QED  BY <2>1, <3>1 DEF WriteTemp, Whole, TypeOK
  <2>2. CASE ~ (WriteTemp(t) /\ t = u)
    <3>1. t # u
      BY <1>1, <2>2
         DEF TaskStep, FindBad, BeginPut, Quarantine, QuarantineFails,
             Delete, DeleteFails, Evict, OpenTemp, WriteTemp, WriteFails,
             Rename, RenameFails, Clean, TypeOK
    <3>2. pc[u] = "renaming" /\ key'[u] = key[u]
      BY <1>1, <3>1
         DEF TaskStep, FindBad, BeginPut, Quarantine, QuarantineFails,
             Delete, DeleteFails, Evict, OpenTemp, WriteTemp, WriteFails,
             Rename, RenameFails, Clean, TypeOK
    <3>3. TempName(u)' = TempName(u)
      BY <3>2, SameTempName
    <3>4. CASE OpenTemp(t) \/ WriteTemp(t) \/ Rename(t) \/ Clean(t)
      <4>1. pc[t] \in Putting
        BY <3>4 DEF OpenTemp, WriteTemp, Rename, Clean, Putting
      <4>2. TempName(t) # TempName(u)
        BY <3>1, <3>2, <4>1, OwnTempName DEF Putting
      <4>3. TempName(u) \in TempNames
        BY <3>2, BusyKey, TempNameType
      <4>4. temp'[TempName(u)] = temp[TempName(u)]
        BY <3>4, <4>2, <4>3 DEF OpenTemp, WriteTemp, Rename, Clean, TypeOK
      <4>. QED  BY <3>2, <3>3, <4>4 DEF RenamesWhole
    <3>5. CASE temp' = temp
      BY <3>2, <3>3, <3>5 DEF RenamesWhole
    <3>. QED
      BY <1>1, <3>4, <3>5
         DEF TaskStep, FindBad, BeginPut, Quarantine, QuarantineFails,
             Delete, DeleteFails, Evict, WriteFails, RenameFails
  <2>. QED  BY <2>1, <2>2
<1>2. ASSUME NEW n \in TempNames, RemoveTemp(n)
      PROVE  (temp[TempName(u)])' # "partial"
  <2>1. pc[u] = "renaming" /\ TempName(u)' = TempName(u)
    BY <1>2, SameTempName DEF RemoveTemp
  <2>. QED  BY <1>2, <2>1 DEF RemoveTemp, RenamesWhole, TypeOK
<1>3. ASSUME NEW p \in Procs, Kill(p)
      PROVE  (temp[TempName(u)])' # "partial"
  <2>1. Proc[u] # p /\ pc[u] = "renaming" /\ key'[u] = key[u]
    BY <1>3 DEF Kill
  <2>2. TempName(u)' = TempName(u) /\ TempName(u) \in TempNames
    BY <2>1, SameTempName, BusyKey, TempNameType
  <2>3. TempName(u)[1] # p /\ TempName(u)[1] # Dead
    BY <2>1, CacheAssumption DEF TempName
  <2>4. temp'[TempName(u)] = temp[TempName(u)]
    BY <1>3, <2>2, <2>3 DEF Kill
  <2>. QED  BY <2>1, <2>2, <2>4 DEF RenamesWhole
<1>4. ASSUME NEW k \in Keys, Rot(k)
      PROVE  (temp[TempName(u)])' # "partial"
  BY <1>4, SameTempName DEF Rot, RenamesWhole
<1>5. CASE UNCHANGED vars
  BY <1>5, SameTempName DEF vars, RenamesWhole
<1>. QED  BY <1>1, <1>2, <1>3, <1>4, <1>5 DEF Next

(* An entry comes about by a rename of what RenamesWhole speaks of.        *)
LEMMA EntriesStep ==
  TypeOK /\ RenamesWhole /\ EntriesWhole /\ [Next]_vars => EntriesWhole'
<1>. SUFFICES ASSUME TypeOK, RenamesWhole, EntriesWhole, [Next]_vars
              PROVE  EntriesWhole'
  OBVIOUS
<1>. USE DEF EntriesWhole, Goto, files
<1>1. ASSUME NEW t \in Tasks, TaskStep(t)
      PROVE  EntriesWhole'
  <2>1. CASE Rename(t)
    BY <2>1 DEF Rename, RenamesWhole, TypeOK
  <2>2. CASE Quarantine(t)
    BY <2>2 DEF Quarantine, TypeOK
  <2>3. CASE Delete(t)
    BY <2>3 DEF Delete, TypeOK
  <2>4. CASE Evict(t)
    BY <2>4 DEF Evict, TypeOK
  <2>5. CASE entry' = entry
    BY <2>5
  <2>. QED
    BY <1>1, <2>1, <2>2, <2>3, <2>4, <2>5
       DEF TaskStep, FindBad, BeginPut, QuarantineFails, DeleteFails,
           OpenTemp, WriteTemp, WriteFails, RenameFails, Clean
<1>2. ASSUME NEW k \in Keys, Rot(k)
      PROVE  EntriesWhole'
  BY <1>2 DEF Rot, TypeOK
<1>3. CASE UNCHANGED entry
  BY <1>3
<1>. QED  BY <1>1, <1>2, <1>3 DEF Next, RemoveTemp, Kill, vars

(***************************************************************************)
(* No reader meets a partial entry, for any number of processes and calls, *)
(* with sweeps and kills at any point.                                     *)
(***************************************************************************)
THEOREM EntriesAlwaysWhole == Spec => []EntriesWhole
<1>1. IInv /\ [Next]_vars => IInv'
  BY TypeStep, SeparateStep, RenamesStep, EntriesStep DEF IInv
<1>2. IInv => EntriesWhole
  BY DEF IInv
<1>. QED  BY InvInit, <1>1, <1>2, PTL DEF Spec

-----------------------------------------------------------------------------
(* Temp files *)

(* The put a temp file of a running process belongs to.                    *)
Owns(t, p, k) ==
  /\ Proc[t] = p /\ key[t] = k
  /\ pc[t] \in {"writing", "renaming", "cleaning", "giving_up"}

(***************************************************************************)
(* NoStrayTemps is inductive with the types: OpenTemp is the only step     *)
(* that makes a temp file, and its owner stops owning it only where it     *)
(* renames or removes it, or is killed and its files are no longer those   *)
(* of a running process.                                                   *)
(***************************************************************************)
LEMMA StrayStep == TypeOK /\ NoStrayTemps /\ [Next]_vars => NoStrayTemps'
<1>. SUFFICES ASSUME TypeOK, NoStrayTemps, [Next]_vars,
                     NEW p \in Procs, NEW k \in Keys,
                     temp'[<<p, k>>] # "none"
              PROVE  \E t \in Tasks : Owns(t, p, k)'
  BY DEF NoStrayTemps, Owns
<1>. USE DEF Goto, Begin, Forget, files
<1>0. <<p, k>> \in TempNames
  BY DEF TempNames
<1>old. temp[<<p, k>>] # "none" => \E u \in Tasks : Owns(u, p, k)
  BY DEF NoStrayTemps, Owns
<1>1. ASSUME NEW t \in Tasks, TaskStep(t)
      PROVE  \E u \in Tasks : Owns(u, p, k)'
  <2>1. CASE OpenTemp(t) /\ TempName(t) = <<p, k>>
    BY <2>1 DEF OpenTemp, TempName, Owns, TypeOK
  <2>2. CASE ~ (OpenTemp(t) /\ TempName(t) = <<p, k>>)
    <3>1. temp[<<p, k>>] # "none"
      BY <1>0, <1>1, <2>2
         DEF TaskStep, FindBad, BeginPut, Quarantine, QuarantineFails,
             Delete, DeleteFails, Evict, OpenTemp, WriteTemp, WriteFails,
             Rename, RenameFails, Clean, TypeOK
    <3>2. PICK u \in Tasks : Owns(u, p, k)
      BY <1>old, <3>1
    <3>3. CASE u # t
      <4>1. pc'[u] = pc[u] /\ key'[u] = key[u]
        BY <1>1, <3>3
           DEF TaskStep, FindBad, BeginPut, Quarantine, QuarantineFails,
               Delete, DeleteFails, Evict, OpenTemp, WriteTemp, WriteFails,
               Rename, RenameFails, Clean, TypeOK
      <4>. QED  BY <3>2, <4>1 DEF Owns
    <3>4. CASE u = t
      <4>1. TempName(t) = <<p, k>>
        BY <3>2, <3>4 DEF Owns, TempName
      <4>2. ~ Rename(t) /\ ~ Clean(t)
        BY <1>0, <4>1 DEF Rename, Clean, TypeOK
      <4>3. /\ key'[t] = key[t]
            /\ pc'[t] \in {"writing", "renaming", "cleaning", "giving_up"}
        BY <1>1, <3>2, <3>4, <4>2
           DEF TaskStep, FindBad, BeginPut, Quarantine, QuarantineFails,
               Delete, DeleteFails, Evict, OpenTemp, WriteTemp, WriteFails,
               RenameFails, Owns, TypeOK
      <4>. QED  BY <3>2, <3>4, <4>3 DEF Owns
    <3>. QED  BY <3>3, <3>4
  <2>. QED  BY <2>1, <2>2
<1>2. ASSUME NEW n \in TempNames, RemoveTemp(n)
      PROVE  \E u \in Tasks : Owns(u, p, k)'
  <2>1. temp[<<p, k>>] # "none"
    BY <1>0, <1>2 DEF RemoveTemp, TypeOK
  <2>. QED  BY <1>2, <1>old, <2>1 DEF RemoveTemp, Owns
<1>3. ASSUME NEW q \in Procs, Kill(q)
      PROVE  \E u \in Tasks : Owns(u, p, k)'
  <2>1. p # Dead
    BY CacheAssumption
  <2>2. p # q /\ temp[<<p, k>>] # "none"
    BY <1>0, <1>3, <2>1 DEF Kill
  <2>3. PICK u \in Tasks : Owns(u, p, k)
    BY <1>old, <2>2
  <2>4. pc'[u] = pc[u] /\ key'[u] = key[u]
    BY <1>3, <2>2, <2>3 DEF Kill, Owns
  <2>. QED  BY <2>3, <2>4 DEF Owns
<1>4. ASSUME NEW j \in Keys, Rot(j)
      PROVE  \E u \in Tasks : Owns(u, p, k)'
  BY <1>4, <1>old DEF Rot, Owns
<1>5. CASE UNCHANGED vars
  BY <1>5, <1>old DEF vars, Owns
<1>. QED  BY <1>1, <1>2, <1>3, <1>4, <1>5 DEF Next

(* Whatever way a put ends, its temp file goes with it.                    *)
THEOREM TempsAlwaysOwned == Spec => []NoStrayTemps
<1>1. Init => NoStrayTemps
  BY DEF Init, NoStrayTemps, TempNames
<1>. QED  BY <1>1, TypeInit, TypeStep, StrayStep, PTL DEF Spec

-----------------------------------------------------------------------------
(* The number of entries *)

(***************************************************************************)
(* Puts that have evicted, or had no need to, will each add an entry; so   *)
(* will each put that is evicting, once it has removed its victims, of     *)
(* which others may have removed some before it.  Any of those may be      *)
(* killed, hence the bound for every subset Y of them: with the entries    *)
(* they are to remove gone, there is room for what they and the pending    *)
(* puts add.                                                               *)
(***************************************************************************)
Pending == {t \in Tasks : pc[t] \in {"opening", "writing", "renaming"}}
Evicting == {t \in Tasks : pc[t] = "evicting"}
Doomed(Y) == UNION {victims[t] : t \in Y}
Fits(Y) == Cardinality(Entries \ Doomed(Y)) + Cardinality(Pending \cup Y)
             <= max_entries + Cardinality(Tasks)

Room == max_entries # 0 => \A Y \in SUBSET Evicting : Fits(Y)

(* All the sets that are counted are finite.                               *)
LEMMA Finite ==
  /\ IsFiniteSet(Tasks) /\ IsFiniteSet(Keys)
  /\ IsFiniteSet(Entries) /\ IsFiniteSet(Entries')
  /\ IsFiniteSet(Pending) /\ IsFiniteSet(Pending')
<1>1. /\ Entries \subseteq Keys /\ Entries' \subseteq Keys
      /\ Pending \subseteq Tasks /\ Pending' \subseteq Tasks
  BY DEF Entries, Pending
<1>. QED  BY <1>1, CacheAssumption, FS_Subset

(* A set that does not grow does not get more members.                     *)
LEMMA FewerFit ==
  ASSUME NEW Y \in SUBSET Tasks, NEW Z \in SUBSET Tasks, Fits(Z),
         Entries' \ Doomed(Y)' \subseteq Entries \ Doomed(Z),
         Pending' \cup Y \subseteq Pending \cup Z
  PROVE  Fits(Y)'
<1>1. IsFiniteSet(Entries \ Doomed(Z)) /\ IsFiniteSet(Pending \cup Z)
  BY Finite, FS_Difference, FS_Subset, FS_Union
<1>2. Cardinality(Entries' \ Doomed(Y)') <= Cardinality(Entries \ Doomed(Z))
  BY <1>1, FS_Subset
<1>3. Cardinality(Pending' \cup Y) <= Cardinality(Pending \cup Z)
  BY <1>1, FS_Subset
<1>4. /\ IsFiniteSet(Entries' \ Doomed(Y)')
      /\ IsFiniteSet(Pending' \cup Y)
  BY <1>1, FS_Subset
<1>5. /\ Cardinality(Entries' \ Doomed(Y)') \in Nat
      /\ Cardinality(Entries \ Doomed(Z)) \in Nat
      /\ Cardinality(Pending' \cup Y) \in Nat
      /\ Cardinality(Pending \cup Z) \in Nat
      /\ Cardinality(Tasks) \in Nat /\ max_entries \in Nat
  BY <1>1, <1>4, Finite, FS_CardinalityType, CacheAssumption
<1>. QED  BY <1>2, <1>3, <1>5 DEF Fits

(* Of entries no more than the limit, all tasks may add one.               *)
LEMMA FewFit ==
  ASSUME NEW Y \in SUBSET Tasks, NEW E, IsFiniteSet(E),
         Cardinality(E) <= max_entries,
         Entries' \ Doomed(Y)' \subseteq E
  PROVE  Fits(Y)'
<1>1. Cardinality(Entries' \ Doomed(Y)') <= Cardinality(E)
  BY FS_Subset
<1>2. Pending' \cup Y \subseteq Tasks
  BY DEF Pending
<1>3. Cardinality(Pending' \cup Y) <= Cardinality(Tasks)
  BY <1>2, Finite, FS_Subset
<1>4. IsFiniteSet(Entries' \ Doomed(Y)') /\ IsFiniteSet(Pending' \cup Y)
  BY <1>2, Finite, FS_Subset
<1>5. /\ Cardinality(Entries' \ Doomed(Y)') \in Nat
      /\ Cardinality(Pending' \cup Y) \in Nat
      /\ Cardinality(E) \in Nat
      /\ Cardinality(Tasks) \in Nat /\ max_entries \in Nat
  BY <1>4, Finite, FS_CardinalityType, CacheAssumption
<1>. QED  BY <1>1, <1>3, <1>5 DEF Fits

(* What evict_if_needed leaves is within the limit.                        *)
LEMMA VictimsSuffice ==
  ASSUME NEW S \in Victims, max_entries # 0
  PROVE  Cardinality(Entries \ S) <= max_entries
<1>1. IsFiniteSet(Entries) /\ Cardinality(Entries) \in Nat
  BY Finite, FS_CardinalityType
<1>2. max_entries \in Nat
  BY CacheAssumption
<1>3. CASE Cardinality(Entries) > max_entries
  <2>1. /\ S \subseteq Entries
        /\ Cardinality(S) = Cardinality(Entries) - (max_entries * 4) \div 5
    BY <1>3 DEF Victims
  <2>2. Cardinality(Entries \ S) = Cardinality(Entries) - Cardinality(S)
    <3>1. /\ IsFiniteSet(S)
          /\ Entries \cap S = S
      BY <1>1, <2>1, FS_Subset
    <3>. QED  BY <1>1, <3>1, FS_Difference
  <2>3. (max_entries * 4) \div 5 <= max_entries
    BY <1>2
  <2>4. (max_entries * 4) \div 5 \in Nat
    BY <1>2
  <2>. QED  BY <1>1, <1>2, <2>1, <2>2, <2>3, <2>4
<1>4. CASE ~ (Cardinality(Entries) > max_entries)
  <2>1. S = {}
    BY <1>4 DEF Victims
  <2>2. Entries \ S = Entries
    BY <2>1
  <2>. QED  BY <1>1, <1>2, <1>4, <2>2
<1>. QED  BY <1>3, <1>4

(* There is room at first: no entries, nobody evicting.                    *)
LEMMA RoomInit == Init => Room
<1>. SUFFICES ASSUME Init, max_entries # 0, NEW Y \in SUBSET Evicting
              PROVE  Fits(Y)
  BY DEF Room
<1>1. Entries \ Doomed(Y) = {} /\ Pending \cup Y = {}
  BY DEF Init, Entries, Pending, Evicting
<1>2. Cardinality({}) = 0
  BY FS_EmptySet
<1>3. Cardinality(Tasks) \in Nat /\ max_entries \in Nat
  BY Finite, FS_CardinalityType, CacheAssumption
<1>4. Fits(Y) <=> 0 + 0 <= max_entries + Cardinality(Tasks)
  BY <1>1, <1>2 DEF Fits
<1>. QED  BY <1>3, <1>4

(* A put that begins counts its entries, and marks the surplus for removal. *)
LEMMA RoomBeginPut ==
  ASSUME TypeOK, max_entries # 0, Room, NEW t \in Tasks, NEW k \in Keys,
         BeginPut(t, k), NEW Y \in SUBSET Evicting'
  PROVE  Fits(Y)'
<1>. USE DEF Goto, Begin, files
<1>1. PICK S \in Victims :
        /\ victims' = [victims EXCEPT ![t] = S]
        /\ Begin(t, k, IF S = {} THEN "opening" ELSE "evicting")
  BY DEF BeginPut
<1>2. Entries' = Entries
  BY DEF BeginPut, Entries
<1>3. Y \subseteq Tasks
  BY DEF Evicting
<1>4. CASE S = {} \/ t \in Y
  <2>1. IsFiniteSet(Entries \ S) /\ Cardinality(Entries \ S) <= max_entries
    BY Finite, FS_Difference, VictimsSuffice
  <2>2. Entries' \ Doomed(Y)' \subseteq Entries \ S
    BY <1>1, <1>2, <1>4 DEF Doomed, TypeOK
  <2>. QED  BY <1>3, <2>1, <2>2, FewFit
<1>5. CASE S # {} /\ t \notin Y
  <2>1. Y \in SUBSET Evicting /\ Pending' = Pending
    BY <1>1, <1>5 DEF Evicting, Pending, TypeOK
  <2>2. Doomed(Y)' = Doomed(Y)
    BY <1>1, <1>3, <1>5 DEF Doomed, TypeOK
  <2>3. Fits(Y)
    BY <2>1 DEF Room
  <2>. QED  BY <1>2, <1>3, <2>1, <2>2, <2>3, FewerFit
<1>. QED  BY <1>4, <1>5

(* A victim is removed; with the last one the put becomes pending.         *)
LEMMA RoomEvict ==
  ASSUME TypeOK, max_entries # 0, Room, NEW t \in Tasks, Evict(t),
         NEW Y \in SUBSET Evicting'
  PROVE  Fits(Y)'
<1>. USE DEF Goto
<1>1. PICK v \in victims[t] :
        /\ pc[t] = "evicting"
        /\ pc' = [pc EXCEPT ![t] = IF victims[t] = {v} THEN "opening"
                                   ELSE "evicting"]
        /\ victims' = [victims EXCEPT ![t] = victims[t] \ {v}]
        /\ entry' = [entry EXCEPT ![v] = "none"]
  BY DEF Evict
<1>2. v \in Keys
  BY DEF TypeOK
<1>3. Entries' = Entries \ {v}
  BY <1>1, <1>2 DEF Entries, TypeOK
<1>4. Y \subseteq Tasks
  BY DEF Evicting
<1>5. CASE victims[t] = {v}
  <2>1. /\ t \in Evicting /\ t \notin Y
        /\ Y \cup {t} \in SUBSET Evicting
        /\ Pending' = Pending \cup {t}
    BY <1>1, <1>5 DEF Evicting, Pending, TypeOK
  <2>2. Fits(Y \cup {t})
    BY <2>1 DEF Room
  <2>3. Entries' \ Doomed(Y)' \subseteq Entries \ Doomed(Y \cup {t})
    BY <1>1, <1>3, <1>4, <1>5, <2>1 DEF Doomed, TypeOK
  <2>. QED  BY <1>4, <2>1, <2>2, <2>3, FewerFit
<1>6. CASE victims[t] # {v}
  <2>1. Y \in SUBSET Evicting /\ Pending' = Pending
    BY <1>1, <1>6 DEF Evicting, Pending, TypeOK
  <2>2. Fits(Y)
    BY <2>1 DEF Room
  <2>3. Entries' \ Doomed(Y)' \subseteq Entries \ Doomed(Y)
    BY <1>1, <1>3, <1>4 DEF Doomed, TypeOK
  <2>. QED  BY <1>4, <2>1, <2>2, <2>3, FewerFit
<1>. QED  BY <1>5, <1>6

(* The entry of a rename takes the room its put was counted for.           *)
LEMMA RoomRename ==
  ASSUME TypeOK, max_entries # 0, Room, NEW t \in Tasks, Rename(t),
         NEW Y \in SUBSET Evicting'
  PROVE  Fits(Y)'
<1>. USE DEF Goto
<1>1. /\ pc[t] = "renaming"
      /\ pc' = [pc EXCEPT ![t] = "idle"]
      /\ entry' = [entry EXCEPT ![key[t]] = temp[TempName(t)]]
      /\ victims' = victims
  BY DEF Rename
<1>2. /\ Y \in SUBSET Evicting /\ Y \subseteq Tasks
      /\ t \in Pending \cup Y /\ Pending' \cup Y = (Pending \cup Y) \ {t}
  BY <1>1 DEF Evicting, Pending, TypeOK
<1>3. Entries' \ Doomed(Y)' \subseteq (Entries \ Doomed(Y)) \cup {key[t]}
  BY <1>1 DEF Entries, Doomed, TypeOK
<1>. DEFINE E == Entries \ Doomed(Y)
            P == Pending \cup Y
<1>4. IsFiniteSet(E) /\ IsFiniteSet(P)
  <2>1. IsFiniteSet(Y)
    BY <1>2, Finite, FS_Subset
  <2>. QED  BY <2>1, Finite, FS_Difference, FS_Union
<1>5. /\ IsFiniteSet(E \cup {key[t]})
      /\ Cardinality(E \cup {key[t]}) <= Cardinality(E) + 1
  <2>. HIDE DEF E
  <2>1. Cardinality(E) \in Nat
    BY <1>4, FS_CardinalityType
  <2>2. Cardinality(E \cup {key[t]})
          = IF key[t] \in E THEN Cardinality(E) ELSE Cardinality(E) + 1
    BY <1>4, FS_AddElement
  <2>. QED  BY <1>4, <2>1, <2>2, FS_AddElement
<1>6. /\ IsFiniteSet(Entries' \ Doomed(Y)')
      /\ Cardinality(Entries' \ Doomed(Y)') <= Cardinality(E \cup {key[t]})
  BY <1>3, <1>5, FS_Subset
<1>7. Cardinality(Pending' \cup Y) = Cardinality(P) - 1
  BY <1>2, <1>4, FS_RemoveElement
<1>8. /\ Cardinality(E) \in Nat /\ Cardinality(P) \in Nat
      /\ Cardinality(E \cup {key[t]}) \in Nat
      /\ Cardinality(Entries' \ Doomed(Y)') \in Nat
      /\ Cardinality(Tasks) \in Nat /\ max_entries \in Nat
  BY <1>4, <1>5, <1>6, Finite, FS_CardinalityType, CacheAssumption
<1>9. Cardinality(E) + Cardinality(P) <= max_entries + Cardinality(Tasks)
  BY <1>2 DEF Room, Fits
<1>10. Cardinality(Entries' \ Doomed(Y)') + Cardinality(Pending' \cup Y)
         <= max_entries + Cardinality(Tasks)
  BY <1>5, <1>6, <1>7, <1>8, <1>9
<1>. QED  BY <1>10 DEF Fits

(* Every other step adds neither an entry nor a put that is to add one.    *)
LEMMA RoomOther ==
  ASSUME TypeOK, max_entries # 0, Room, Entries' \subseteq Entries,
         Pending' \subseteq Pending, Evicting' \subseteq Evicting,
         \A t \in Evicting' : victims'[t] = victims[t],
         NEW Y \in SUBSET Evicting'
  PROVE  Fits(Y)'
<1>1. Y \in SUBSET Evicting /\ Y \subseteq Tasks /\ Fits(Y)
  BY DEF Room, Evicting
<1>2. Doomed(Y)' = Doomed(Y)
  BY DEF Doomed
<1>. QED  BY <1>1, <1>2, FewerFit

(* Every step leaves room.                                                 *)
LEMMA RoomStep == TypeOK /\ Room /\ [Next]_vars => Room'
<1>. SUFFICES ASSUME TypeOK, Room, [Next]_vars, max_entries # 0,
                     NEW Y \in SUBSET Evicting'
              PROVE  Fits(Y)'
  BY DEF Room
<1>. USE DEF Goto, Begin, Forget, files
<1>1. ASSUME NEW t \in Tasks, TaskStep(t)
      PROVE  Fits(Y)'
  <2>1. ASSUME NEW k \in Keys, BeginPut(t, k) PROVE Fits(Y)'
    BY <2>1, RoomBeginPut
  <2>2. CASE Evict(t)
    BY <2>2, RoomEvict
  <2>3. CASE Rename(t)
    BY <2>3, RoomRename
  <2>4. CASE Quarantine(t) \/ Delete(t)
    BY <2>4, RoomOther
       DEF Quarantine, Delete, Entries, Pending, Evicting, TypeOK
  <2>5. CASE \/ \E k \in Keys : FindBad(t, k)
             \/ QuarantineFails(t) \/ DeleteFails(t) \/ OpenTemp(t)
             \/ WriteTemp(t) \/ WriteFails(t) \/ RenameFails(t) \/ Clean(t)
    <3>1. entry' = entry /\ victims' = victims
      BY <2>5
         DEF FindBad, QuarantineFails, DeleteFails, OpenTemp, WriteTemp,
             WriteFails, RenameFails, Clean
    <3>2. Pending' \subseteq Pending /\ Evicting' \subseteq Evicting
      BY <2>5
         DEF FindBad, QuarantineFails, DeleteFails, OpenTemp, WriteTemp,
             WriteFails, RenameFails, Clean, Pending, Evicting, TypeOK
    <3>. QED  BY <3>1, <3>2, RoomOther DEF Entries
  <2>. QED
    BY <1>1, <2>1, <2>2, <2>3, <2>4, <2>5 DEF TaskStep
<1>2. ASSUME NEW n \in TempNames, RemoveTemp(n)
      PROVE  Fits(Y)'
  BY <1>2, RoomOther DEF RemoveTemp, Entries, Pending, Evicting
<1>3. ASSUME NEW p \in Procs, Kill(p)
      PROVE  Fits(Y)'
  <2>1. /\ entry' = entry
        /\ pc' = [t \in Tasks |-> IF Proc[t] = p THEN "idle" ELSE pc[t]]
        /\ victims' =
             [t \in Tasks |-> IF Proc[t] = p THEN {} ELSE victims[t]]
    BY <1>3 DEF Kill
  <2>. QED  BY <2>1, RoomOther DEF Entries, Pending, Evicting
<1>4. ASSUME NEW k \in Keys, Rot(k)
      PROVE  Fits(Y)'
  BY <1>4, RoomOther DEF Rot, Entries, Pending, Evicting, TypeOK
<1>5. CASE UNCHANGED vars
  BY <1>5, RoomOther DEF vars, Entries, Pending, Evicting
<1>. QED  BY <1>1, <1>2, <1>3, <1>4, <1>5 DEF Next

(***************************************************************************)
(* However many puts race, each carries the directory at most one entry    *)
(* past the limit.                                                         *)
(***************************************************************************)
THEOREM EntriesNeverExceed == Spec => []EntriesBounded
<1>1. Room => EntriesBounded
  <2>. SUFFICES ASSUME Room, max_entries # 0
                PROVE  Cardinality(Entries)
                         <= max_entries + Cardinality(Tasks)
    BY DEF EntriesBounded
  <2>1. Fits({})
    BY DEF Room
  <2>2. Entries \ Doomed({}) = Entries /\ Pending \cup {} = Pending
    BY DEF Doomed
  <2>3. /\ Cardinality(Entries) \in Nat /\ Cardinality(Pending) \in Nat
        /\ Cardinality(Tasks) \in Nat /\ max_entries \in Nat
    BY Finite, FS_CardinalityType, CacheAssumption
  <2>4. Cardinality(Entries) + Cardinality(Pending)
          <= max_entries + Cardinality(Tasks)
    BY <2>1, <2>2 DEF Fits
  <2>. QED  BY <2>3, <2>4
<1>. QED  BY <1>1, TypeInit, TypeStep, RoomInit, RoomStep, PTL DEF Spec

=============================================================================
