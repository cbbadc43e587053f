------------------------------ MODULE MemoryStore ------------------------------
(* Two stores that exchange what they hold (src/cross-cutting/MemoryStore.ts):  *)
(* a write has a time and the version of its store, and mergeRemote() decides   *)
(* by either; what is sent may be merged late. Left out are search and          *)
(* isolation, which change nothing, config.deduplicate, with which a repeated   *)
(* value is not set, the lists of conflicts and of broadcasts, which nothing    *)
(* reads, and reset().                                                          *)
EXTENDS Naturals, FiniteSets

CONSTANTS
  Key, Author,   \* keys and agents
  Value,         \* values, by what JSON.stringify makes of them
  Store,         \* two stores
  MaxTime,       \* bound: ticks
  MaxWrites      \* bound: writes of both

ASSUME StoreAssumption == IsFiniteSet(Store) /\ Cardinality(Store) = 2 /\ {MaxTime, MaxWrites} \subseteq Nat

VARIABLES
  resolution,    \* conflictResolution
  kept,          \* entries: store -> key -> entry
  versions,      \* versionCounter
  clocks,        \* vectorClocks: writes of each agent to a key
  posted,        \* the entries of a store under way to the other one
  time,
  settled,       \* history: stores that merged entries sent since the last change by a user
  changed        \* history: the entries as the last change left them

memoryStoreVars == <<resolution, kept, versions, clocks, posted, time, settled, changed>>

Missing == [at |-> "no", by |-> "no", value |-> "no", time |-> 0, version |-> 0]
Has(s, k) == kept[s][k] # Missing
NothingPosted == [on |-> FALSE, fresh |-> FALSE, entries |-> [k \in Key |-> Missing]]

MemoryStoreInit ==
  /\ resolution \in {"last-write-wins", "vector-clock", "manual"}
  /\ kept = [s \in Store |-> [k \in Key |-> Missing]] /\ versions = [s \in Store |-> 0]
  /\ clocks = [s \in Store |-> [k \in Key |-> [a \in Author |-> 0]]]
  /\ posted = [s \in Store |-> NothingPosted] /\ time = 0
  /\ settled = {} /\ changed = kept

\* What was sent before a change tells nothing about it.
Changed(sent) ==
  /\ settled' = {} /\ changed' = kept'
  /\ posted' = [s \in Store |-> [sent[s] EXCEPT !.fresh = FALSE]]

\* The agent that wrote a key less often than its owner cannot take it over.
Refused(s, k, a) ==
  /\ Has(s, k) /\ kept[s][k].by # a /\ resolution = "vector-clock"
  /\ clocks[s][k][a] < clocks[s][k][kept[s][k].by]
StoreEntry(s, k, a, v) ==
  /\ ~Refused(s, k, a) /\ \A t \in Store \ {s} : versions[s] + versions[t] < MaxWrites
  /\ versions' = [versions EXCEPT ![s] = @ + 1]
  /\ clocks' = [clocks EXCEPT ![s][k][a] = @ + 1]
  /\ kept' = [kept EXCEPT ![s][k] = [at |-> s, by |-> a, value |-> v, time |-> time, version |-> versions'[s]]]
  /\ Changed(posted) /\ UNCHANGED <<resolution, time>>

\* Nobody is told: a merge brings the entry back.
DeleteEntry(s, k) ==
  /\ Has(s, k) /\ kept' = [kept EXCEPT ![s][k] = Missing]
  /\ Changed(posted) /\ UNCHANGED <<resolution, versions, clocks, time>>

PostEntries(s) ==
  /\ ~posted[s].on /\ posted' = [posted EXCEPT ![s] = [on |-> TRUE, fresh |-> TRUE, entries |-> kept[s]]]
  /\ UNCHANGED <<resolution, kept, versions, clocks, time, settled, changed>>

\* An entry of the same version and value is passed over, whoever wrote it when.
Alike(remote, local) == remote.version = local.version /\ remote.value = local.value
\* The remote entry wins if it is as new, or has the higher version of its store.
RemoteWins(remote, local) == remote.time >= local.time \/ remote.version > local.version
Merged(remote, local) ==
  IF remote = Missing THEN local
  ELSE IF local = Missing THEN remote
  ELSE IF resolution = "last-write-wins" /\ ~Alike(remote, local) /\ RemoteWins(remote, local) THEN remote
  ELSE local
\* Entries of before the last change, a deletion for one, are a change themselves.
MergeRemote(s, t) ==
  LET sent == [posted EXCEPT ![t] = NothingPosted] IN
  /\ s # t /\ posted[t].on
  /\ kept' = [kept EXCEPT ![s] = [k \in Key |-> Merged(posted[t].entries[k], kept[s][k])]]
  /\ IF posted[t].fresh THEN posted' = sent /\ settled' = settled \cup {s} /\ UNCHANGED changed
     ELSE Changed(sent)
  /\ UNCHANGED <<resolution, versions, clocks, time>>

StoreTick == time < MaxTime /\ time' = time + 1 /\ UNCHANGED <<resolution, kept, versions, clocks, posted, settled, changed>>

MemoryStoreNext ==
  \/ StoreTick
  \/ \E s \in Store :
       \/ PostEntries(s) \/ \E t \in Store : MergeRemote(s, t)
       \/ \E k \in Key : DeleteEntry(s, k) \/ \E a \in Author, v \in Value : StoreEntry(s, k, a, v)

MemoryEntry == [at : Store \cup {"no"}, by : Author \cup {"no"}, value : Value \cup {"no"},
                time : 0 .. MaxTime, version : 0 .. MaxWrites]
MemoryStoreTypeOK ==
  /\ kept \in [Store -> [Key -> MemoryEntry]] /\ versions \in [Store -> 0 .. MaxWrites]
  /\ settled \subseteq Store /\ time \in 0 .. MaxTime

(* Two stores that have merged each other's entries since the last change      *)
(* hold the same value and version of a key, whichever was sent and merged     *)
(* first, unless the times of two entries and their versions disagree about    *)
(* which one is newer; and the same entry, with its writer and its time, but   *)
(* where both had written the same value as the same version of their stores.  *)
Twisted(e, f) ==
  /\ ~Alike(e, f) /\ Missing \notin {e, f}
  /\ e.time = f.time \/ (e.time < f.time /\ e.version > f.version)
MergesConverge ==
  resolution = "last-write-wins" /\ settled = Store =>
    \A s, t \in Store, k \in Key :
      LET e == changed[s][k]
          f == changed[t][k]
      IN  \/ kept[s][k] = kept[t][k]
          \/ Alike(e, f) /\ Alike(kept[s][k], kept[t][k])
          \/ Twisted(e, f) \/ Twisted(f, e)
=============================================================================
