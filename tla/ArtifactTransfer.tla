--------------------------- MODULE ArtifactTransfer ---------------------------
(* Artifacts of the hub (src/hub/ArtifactTransfer.ts) in memory, the one backend *)
(* there is. An upload stores its data at once and lists the artifact after its  *)
(* await; a cleanup awaits after each artifact it deletes. Downloads change      *)
(* nothing. Names, types, sizes and contents are left out.                       *)
EXTENDS Naturals, FiniteSets

CONSTANTS
  Artifact,    \* artifact ids
  Reader,      \* instance ids
  AccessList,  \* arrays passed as accessibleBy: two uploads may pass the same one
  Ttls         \* ttl in ticks, 0 for none

ASSUME ArtifactAssumption == Ttls \subseteq Nat /\ "no" \notin AccessList

VARIABLES
  artifacts,   \* artifacts: list and ticks to live, or NotListed
  held,        \* memoryStorage
  uploading,   \* uploads that wait, and what they will list
  readers,     \* contents of the arrays
  cleaning     \* cleanupExpiredArtifacts(): under way, and those due when it began

artifactVars == <<artifacts, held, uploading, readers, cleaning>>

NotListed == [list |-> "no", left |-> 0, ttl |-> 0]
Info == [list : AccessList, left : Nat, ttl : Ttls]
Listed == {a \in Artifact : artifacts[a] # NotListed}
Uploading == {a \in Artifact : uploading[a] # NotListed}
Expired(info) == info.ttl # 0 /\ info.left = 0

ArtifactInit ==
  /\ artifacts = [a \in Artifact |-> NotListed] /\ held = {} /\ uploading = [a \in Artifact |-> NotListed]
  /\ readers \in [AccessList -> SUBSET Reader] /\ cleaning = [on |-> FALSE, due |-> {}]

UploadArtifact(a, list, ttl) ==
  /\ a \notin Listed \cup Uploading
  /\ held' = held \cup {a}
  /\ uploading' = [uploading EXCEPT ![a] = [list |-> list, left |-> ttl, ttl |-> ttl]]
  /\ UNCHANGED <<artifacts, readers, cleaning>>
UploadListed(a) ==
  /\ a \in Uploading
  /\ artifacts' = [artifacts EXCEPT ![a] = uploading[a]] /\ uploading' = [uploading EXCEPT ![a] = NotListed]
  /\ UNCHANGED <<held, readers, cleaning>>

\* downloadArtifact() up to the integrity check.
CheckAccess(a, r) == r \in readers[artifacts[a].list]
Download(a, r) ==
  IF a \notin Listed THEN "not found"
  ELSE IF ~CheckAccess(a, r) THEN "denied"
  ELSE IF a \notin held THEN "lost" ELSE "data"

ShareArtifact(a, r) ==
  /\ a \in Listed /\ readers' = [readers EXCEPT ![artifacts[a].list] = @ \cup {r}]
  /\ UNCHANGED <<artifacts, held, uploading, cleaning>>

Deletable(a) == a \in Listed
DeleteArtifact(a) ==
  /\ Deletable(a) /\ held' = held \ {a} /\ artifacts' = [artifacts EXCEPT ![a] = NotListed]
  /\ cleaning' = [cleaning EXCEPT !.due = @ \ {a}]
  /\ UNCHANGED <<uploading, readers>>

\* The clock is read once; what is listed meanwhile is looked at, too.
CleanupBegins ==
  /\ ~cleaning.on
  /\ cleaning' = [on |-> TRUE, due |-> {a \in Artifact : Expired(artifacts[a]) \/ Expired(uploading[a])}]
  /\ UNCHANGED <<artifacts, held, uploading, readers>>
CleanupDeletes(a) == a \in cleaning.due \cap Listed /\ DeleteArtifact(a)
CleanupEnds ==
  /\ cleaning.on /\ cleaning.due \cap Listed = {} /\ cleaning' = [on |-> FALSE, due |-> {}]
  /\ UNCHANGED <<artifacts, held, uploading, readers>>

Older(info) == IF info.left > 0 THEN [info EXCEPT !.left = @ - 1] ELSE info
ArtifactTick ==
  /\ artifacts' = [a \in Artifact |-> Older(artifacts[a])] /\ uploading' = [a \in Artifact |-> Older(uploading[a])]
  /\ UNCHANGED <<held, readers, cleaning>>

ArtifactNext ==
  \/ CleanupBegins \/ CleanupEnds \/ ArtifactTick
  \/ \E a \in Artifact : \/ UploadListed(a) \/ DeleteArtifact(a) \/ CleanupDeletes(a)
                         \/ \E list \in AccessList, ttl \in Ttls : UploadArtifact(a, list, ttl)
                         \/ \E r \in Reader : ShareArtifact(a, r)

ArtifactTypeOK ==
  /\ \A a \in Artifact : {artifacts[a], uploading[a]} \subseteq Info \cup {NotListed}
  /\ held \subseteq Artifact /\ readers \in [AccessList -> SUBSET Reader]
  /\ cleaning.on \in BOOLEAN /\ cleaning.due \subseteq Artifact

(* Whatever deletes, cleanups and uploads do between each other's awaits, an  *)
(* artifact that is found and may be read has its data, and no data stays     *)
(* behind that nothing lists or is about to list.                             *)
ListedIsHeld ==
  /\ \A a \in Artifact, r \in Reader : Download(a, r) # "lost"
  /\ held = Listed \cup Uploading
=============================================================================
