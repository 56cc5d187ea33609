---------------------------- MODULE ReplayCache ----------------------------
(***************************************************************************)
(* ReplayCache of src/src/resilience.rs: a directory that holds one file   *)
(* per key, shared by the calls of a process and by processes of several   *)
(* runs.  Readers check what they read and quarantine what is bad; writers *)
(* evict, write a temp file and rename it; a maintenance task, and every   *)
(* process that starts, removes temp files.  A process may be killed at    *)
(* any point.  Each access to the directory is a step.                     *)
(*                                                                         *)
(* A file is what a reader makes of it: good, or bad (rotten, or refused   *)
(* by the caller's validator), or partial (not written to its end).  The   *)
(* name of a temp file is <<process id, key>>.  With Faults any move or    *)
(* write may fail.  To remove an evicted entry or the temp file of a       *)
(* failed put is taken to fail only if the file is gone.                   *)
(***************************************************************************)
EXTENDS Integers, FiniteSets

CONSTANTS
  Procs,
  Tasks,        \* the calls that get and put
  Proc,         \* the process of each task
  Keys,
  NoKey,        \* the key of a task that is idle
  Dead,         \* stands for the process ids of killed processes
  max_entries,  \* 0 is unlimited
  Faults,       \* whether the file system may refuse a move or a write
  MaxKills      \* bound: how often a process is killed

ASSUME CacheAssumption ==
  /\ IsFiniteSet(Tasks) /\ IsFiniteSet(Keys)
  /\ Proc \in [Tasks -> Procs]
  /\ Dead \notin Procs /\ NoKey \notin Keys
  /\ max_entries \in Nat
  /\ Faults \in BOOLEAN
  /\ MaxKills \in Nat

VARIABLES
  entry,     \* the file of each key, or "none"
  temp,      \* the temp files
  enabled,   \* per process
  pc,        \* per task
  key,       \* the key a task is busy with
  victims,   \* what a put is about to evict
  kills      \* how often a process was killed

files == <<entry, temp>>
vars == <<files, enabled, pc, key, victims, kills>>

Whole == {"good", "bad"}
Content == Whole \cup {"partial", "none"}
TempNames == (Procs \cup {Dead}) \X Keys

\* giving_up cleans up as cleaning does, and turns off the cache
Putting == {"evicting", "opening", "writing", "renaming", "cleaning",
            "giving_up"}
Busy == Putting \cup {"quarantining", "deleting"}

TypeOK ==
  /\ entry \in [Keys -> Content]
  /\ temp \in [TempNames -> Content]
  /\ enabled \in [Procs -> BOOLEAN]
  /\ pc \in [Tasks -> Busy \cup {"idle"}]
  /\ key \in [Tasks -> Keys \cup {NoKey}]
  /\ victims \in [Tasks -> SUBSET Keys]
  /\ \A t \in Tasks :
       /\ key[t] = NoKey <=> pc[t] = "idle"
       /\ victims[t] # {} <=> pc[t] = "evicting"
  /\ kills \in 0 .. MaxKills

(* What earlier runs left in the directory comes about by Kill. *)
Init ==
  /\ entry = [k \in Keys |-> "none"]
  /\ temp = [n \in TempNames |-> "none"]
  /\ enabled = [p \in Procs |-> TRUE]
  /\ pc = [t \in Tasks |-> "idle"]
  /\ key = [t \in Tasks |-> NoKey]
  /\ victims = [t \in Tasks |-> {}]
  /\ kills = 0

Goto(t, from, to) ==
  /\ pc[t] = from
  /\ pc' = [pc EXCEPT ![t] = to]

(* A task looks at the cache for a key. *)
Begin(t, k, step) ==
  /\ enabled[Proc[t]]
  /\ Goto(t, "idle", step)
  /\ key' = [key EXCEPT ![t] = k]

Forget(t) == key' = [key EXCEPT ![t] = NoKey]

-----------------------------------------------------------------------------
(* get_validated; a get that misses or finds a good entry changes nothing  *)

FindBad(t, k) ==
  /\ entry[k] = "bad"
  /\ Begin(t, k, "quarantining")
  /\ UNCHANGED <<files, enabled, victims, kills>>

(* The rename into corrupted/ takes whatever is under the key by now. *)
Quarantine(t) ==
  /\ Goto(t, "quarantining", "idle")
  /\ entry[key[t]] # "none"
  /\ entry' = [entry EXCEPT ![key[t]] = "none"]
  /\ Forget(t)
  /\ UNCHANGED <<temp, enabled, victims, kills>>

QuarantineFails(t) ==
  /\ Goto(t, "quarantining", "deleting")
  /\ Faults \/ entry[key[t]] = "none"
  /\ UNCHANGED <<files, enabled, key, victims, kills>>

Delete(t) ==
  /\ Goto(t, "deleting", "idle")
  /\ entry[key[t]] # "none"
  /\ entry' = [entry EXCEPT ![key[t]] = "none"]
  /\ Forget(t)
  /\ UNCHANGED <<temp, enabled, victims, kills>>

DeleteFails(t) ==
  /\ Goto(t, "deleting", "idle")
  /\ Faults \/ entry[key[t]] = "none"
  /\ enabled' = [enabled EXCEPT ![Proc[t]] = FALSE]
  /\ Forget(t)
  /\ UNCHANGED <<files, victims, kills>>

-----------------------------------------------------------------------------
(* put *)

Entries == {k \in Keys : entry[k] # "none"}

(* Calls of one process never put the same key at the same time: they are  *)
(* leaders of a single flight (NoConcurrentDuplicate of Oracle).           *)
NoSibling(t, k) ==
  \A u \in Tasks \ {t} :
    Proc[u] = Proc[t] /\ pc[u] \in Putting => key[u] # k

\* Mutant: the newest entry is counted out before it is there.
VictimsOneLate ==
  LET surplus == Cardinality(Entries) - (max_entries * 4) \div 5
  IN IF max_entries # 0 /\ Cardinality(Entries) > max_entries + 1
     THEN {S \in SUBSET Entries : Cardinality(S) = surplus}
     ELSE {{}}

(* evict_if_needed lists the entries, and if there are too many of them it *)
(* picks the oldest, which here may be any, so that four fifths stay.      *)
Victims ==
  LET surplus == Cardinality(Entries) - (max_entries * 4) \div 5
  IN IF max_entries # 0 /\ Cardinality(Entries) > max_entries
     THEN {S \in SUBSET Entries : Cardinality(S) = surplus}
     ELSE {{}}

BeginPut(t, k) ==
  /\ NoSibling(t, k)
  /\ \E S \in Victims :
       /\ victims' = [victims EXCEPT ![t] = S]
       /\ Begin(t, k, IF S = {} THEN "opening" ELSE "evicting")
  /\ UNCHANGED <<files, enabled, kills>>

\* Mutant: eviction stops after the first file.
EvictOne(t) ==
  /\ \E v \in victims[t] :
       /\ Goto(t, "evicting", "opening")
       /\ victims' = [victims EXCEPT ![t] = @ \ {v}]
       /\ entry' = [entry EXCEPT ![v] = "none"]
  /\ UNCHANGED <<temp, enabled, key, kills>>

(* A victim that another task has removed meanwhile is passed over. *)
Evict(t) ==
  /\ \E v \in victims[t] :
       /\ Goto(t, "evicting",
               IF victims[t] = {v} THEN "opening" ELSE "evicting")
       /\ victims' = [victims EXCEPT ![t] = @ \ {v}]
       /\ entry' = [entry EXCEPT ![v] = "none"]
  /\ UNCHANGED <<temp, enabled, key, kills>>

\* Mutant: the process id is left out of the name of the temp file.
TempNameOfKey(t) == <<CHOOSE p \in Procs : TRUE, key[t]>>

TempName(t) == <<Proc[t], key[t]>>

(* fs::write creates or truncates the file ... *)
OpenTemp(t) ==
  /\ Goto(t, "opening", "writing")
  /\ temp' = [temp EXCEPT ![TempName(t)] = "partial"]
  /\ UNCHANGED <<entry, enabled, key, victims, kills>>

(* ... and writes it, though it may have been removed by a sweep.          *)
WriteTemp(t) ==
  /\ Goto(t, "writing", "renaming")
  /\ \E content \in Whole :
       temp' = [temp EXCEPT ![TempName(t)] =
                  IF @ = "none" THEN "none" ELSE content]
  /\ UNCHANGED <<entry, enabled, key, victims, kills>>

(* Creating or writing fails, for a full disk or another reason. *)
WriteFails(t) ==
  /\ Faults
  /\ pc[t] \in {"opening", "writing"}
  /\ \E how \in {"cleaning", "giving_up"} : Goto(t, pc[t], how)
  /\ UNCHANGED <<files, enabled, key, victims, kills>>

Rename(t) ==
  /\ Goto(t, "renaming", "idle")
  /\ temp[TempName(t)] # "none"
  /\ entry' = [entry EXCEPT ![key[t]] = temp[TempName(t)]]
  /\ temp' = [temp EXCEPT ![TempName(t)] = "none"]
  /\ Forget(t)
  /\ UNCHANGED <<enabled, victims, kills>>

(* The rename fails: the temp file is gone, or the file system refuses.    *)
RenameFails(t) ==
  /\ \/ Goto(t, "renaming", "cleaning")
     \/ Goto(t, "renaming", "giving_up") /\ Faults
  /\ Faults \/ temp[TempName(t)] = "none"
  /\ UNCHANGED <<files, enabled, key, victims, kills>>

\* Mutant: the temp file of a failed put stays.
CleanNothing(t) ==
  /\ \/ Goto(t, "cleaning", "idle") /\ UNCHANGED enabled
     \/ /\ Goto(t, "giving_up", "idle")
        /\ enabled' = [enabled EXCEPT ![Proc[t]] = FALSE]
  /\ Forget(t)
  /\ UNCHANGED <<files, victims, kills>>

(* The temp file of a failed put is removed; a full disk also turns the    *)
(* cache off.                                                              *)
Clean(t) ==
  /\ \/ Goto(t, "cleaning", "idle") /\ UNCHANGED enabled
     \/ /\ Goto(t, "giving_up", "idle")
        /\ enabled' = [enabled EXCEPT ![Proc[t]] = FALSE]
  /\ temp' = [temp EXCEPT ![TempName(t)] = "none"]
  /\ Forget(t)
  /\ UNCHANGED <<entry, victims, kills>>

-----------------------------------------------------------------------------
(* scavenge_orphaned_temps, of a new cache and of maintenance_sweep *)

(***************************************************************************)
(* A sweep lists the names that contain .tmp. and removes the files one by *)
(* one, also those of running processes.  A file that it has listed and    *)
(* that was made anew since could as well be listed now, so each removal   *)
(* is a step that looks at the present.  An overrun sweep goes on when the *)
(* cache has been turned off.                                              *)
(***************************************************************************)
RemoveTemp(n) ==
  /\ temp[n] # "none"
  /\ temp' = [temp EXCEPT ![n] = "none"]
  /\ UNCHANGED <<entry, enabled, pc, key, victims, kills>>

-----------------------------------------------------------------------------
(* What happens to a cache *)

(* External: the file system loses what an entry held. *)
Rot(k) ==
  /\ entry[k] = "good"
  /\ entry' = [entry EXCEPT ![k] = "bad"]
  /\ UNCHANGED <<temp, enabled, pc, key, victims, kills>>

(* A process is killed, and another run takes its place. *)
Kill(p) ==
  /\ kills < MaxKills
  /\ kills' = kills + 1
  /\ temp' = [n \in TempNames |->
                IF n[1] = p THEN "none"
                ELSE IF n[1] = Dead /\ temp[<<p, n[2]>>] # "none"
                     THEN "partial" ELSE temp[n]]
  /\ LET reset(f, value) ==
           [t \in Tasks |-> IF Proc[t] = p THEN value ELSE f[t]]
     IN /\ pc' = reset(pc, "idle")
        /\ key' = reset(key, NoKey)
        /\ victims' = reset(victims, {})
  /\ enabled' = [enabled EXCEPT ![p] = TRUE]
  /\ UNCHANGED entry

TaskStep(t) ==
  \/ \E k \in Keys : FindBad(t, k) \/ BeginPut(t, k)
  \/ Quarantine(t) \/ QuarantineFails(t) \/ Delete(t) \/ DeleteFails(t)
  \/ Evict(t) \/ OpenTemp(t) \/ WriteTemp(t) \/ WriteFails(t)
  \/ Rename(t) \/ RenameFails(t) \/ Clean(t)

Next ==
  \/ \E t \in Tasks : TaskStep(t)
  \/ \E n \in TempNames : RemoveTemp(n)
  \/ \E p \in Procs : Kill(p)
  \/ \E k \in Keys : Rot(k)

Spec == Init /\ [][Next]_vars

-----------------------------------------------------------------------------
(* Properties *)

(***************************************************************************)
(* "POST (put): file written atomically via temp+rename (crash-safe)": no  *)
(* entry is ever a partial file, whatever other processes and sweeps do    *)
(* meanwhile and wherever a process is killed.                             *)
(***************************************************************************)
EntriesWhole == \A k \in Keys : entry[k] # "partial"

(***************************************************************************)
(* max_entries is checked before a put and not with it: concurrent puts    *)
(* exceed it, but only by one entry each.                                  *)
(***************************************************************************)
EntriesBounded ==
  max_entries # 0 =>
    Cardinality(Entries) <= max_entries + Cardinality(Tasks)

(***************************************************************************)
(* No way out of put leaves a temp file behind: one that bears the id of a *)
(* running process is being written or cleaned up by a put for its key.    *)
(***************************************************************************)
NoStrayTemps ==
  \A p \in Procs, k \in Keys :
    temp[<<p, k>>] # "none" =>
      \E t \in Tasks :
        /\ Proc[t] = p /\ key[t] = k
        /\ pc[t] \in {"writing", "renaming", "cleaning", "giving_up"}

(***************************************************************************)
(* The doc comment of quarantine: "If both move and delete fail (e.g.,     *)
(* ENOSPC), disables the cache entirely to prevent reuse of corrupted data *)
(* on subsequent lookups".  So while the file system works, no process     *)
(* turns off its cache.  Two readers of one bad entry break this: the      *)
(* first moves it, the second can neither move nor delete what is gone.    *)
(***************************************************************************)
DisabledForCause == Faults \/ \A p \in Procs : enabled[p]

=============================================================================
