------------------------- MODULE LocalVolumeProofs -------------------------
(***************************************************************************)
(* Theorems about LocalVolume, for any claims, policies and numbers of     *)
(* deletions and faults.                                                   *)
(***************************************************************************)
EXTENDS LocalVolume, FiniteSetTheorems, TLAPS

Work == [pc : {"idle", "remove", "update"}, volume : VolumeObject \cup {None},
         unseen : BOOLEAN]

(* The values every variable may take. *)
TypeOK ==
    /\ class \in Policies
    /\ claims \in [Claims -> ClaimObject \cup {None}]
    /\ volume \in VolumeObject \cup {None}
    /\ directory \in BOOLEAN
    /\ seenClaims \in [Claims -> ClaimObject \cup {None}]
    /\ seenVolume \in VolumeObject \cup {None}
    /\ claimQueue \subseteq Claims
    /\ volumeQueue \in BOOLEAN
    /\ claimWork \in Claims \cup {None}
    /\ volumeWork \in Work
    /\ provision \in [supported : BOOLEAN, policy : {"Retain", "Delete"}]
    /\ edits \in 0 .. MaxEdits
    /\ faults \in 0 .. MaxFaults
    /\ settled \subseteq Claims

(* A copy of a claim that is being deleted is a copy of one that is. *)
ClaimCopies ==
    \A c \in Claims :
        seenClaims[c] # None /\ claims[c] # None =>
            (seenClaims[c].uid = claims[c].uid /\ seenClaims[c].going
                => claims[c].going)

(* A volume that is being deleted is not bound to another claim any more. *)
SameVolume(v) ==
    v # None /\ volume # None =>
        (v.going /\ v.id = volume.id => volume.going /\ volume.ref = v.ref)

VolumeCopies == SameVolume(seenVolume) /\ SameVolume(volumeWork.volume)

(* Whose files are being removed has no claim that lives, nor will have one. *)
Unclaimed(v) == \A c \in Holder(v) : ~Live(claims[c])

WorkInv ==
    volumeWork.pc # "idle" =>
        /\ volumeWork.volume # None
        /\ volumeWork.volume.going
        /\ volumeWork.unseen \/ Unclaimed(volumeWork.volume)

IInv == TypeOK /\ ClaimCopies /\ VolumeCopies /\ WorkInv

-----------------------------------------------------------------------------
(* Uids.                                                                    *)

(* There is always a uid that no copy bears. *)
LEMMA UnusedIs ==
    ASSUME NEW ids, IsFiniteSet(ids)
    PROVE  Unused(ids) \in Nat /\ Unused(ids) \notin ids
<1> DEFINE n == Cardinality(ids)
<1>1. n \in Nat
    BY FS_CardinalityType
<1> HIDE DEF n
<1>2. ~(0 .. n \subseteq ids)
    <2>1. 0 .. n \subseteq ids => Cardinality(0 .. n) <= n
        BY FS_Subset DEF n
    <2>2. Cardinality(0 .. n) = n + 1
        BY <1>1, FS_Interval
    <2> QED BY <1>1, <2>1, <2>2
<1>3. \E m \in 0 .. n : m \notin ids
    BY <1>2
<1>4. (CHOOSE m \in 0 .. n : m \notin ids) \in 0 .. n
      /\ (CHOOSE m \in 0 .. n : m \notin ids) \notin ids
    BY <1>3
<1> QED BY <1>1, <1>4 DEF Unused, n

LEMMA FourFinite == \A a, b, c, d : IsFiniteSet({a, b, c, d})
<1> TAKE a, b, c, d
<1>1. IsFiniteSet({a})
    BY FS_Singleton
<1>2. IsFiniteSet({a} \cup {b})
    BY <1>1, FS_AddElement
<1>3. IsFiniteSet(({a} \cup {b}) \cup {c})
    BY <1>2, FS_AddElement
<1>4. IsFiniteSet((({a} \cup {b}) \cup {c}) \cup {d})
    BY <1>3, FS_AddElement
<1>5. (({a} \cup {b}) \cup {c}) \cup {d} = {a, b, c, d}
    OBVIOUS
<1> QED BY <1>4, <1>5

(* A new claim has a uid that no copy and no volume tells of. *)
LEMMA NewUid ==
    ASSUME NEW c \in Claims
    PROVE  /\ Unused(Uids(c)) \in Nat
           /\ seenClaims[c] # None => seenClaims[c].uid # Unused(Uids(c))
           /\ \A v \in {volume, seenVolume, volumeWork.volume} :
                 v # None => (v.ref # None =>
                     (v.ref.name = c => v.ref.uid # Unused(Uids(c))))
<1>1. Uids(c) \subseteq {seenClaims[c].uid, volume.ref.uid, seenVolume.ref.uid,
                         volumeWork.volume.ref.uid}
    BY DEF Uids
<1>2. IsFiniteSet(Uids(c))
    BY <1>1, FourFinite, FS_Subset
<1>3. Unused(Uids(c)) \in Nat /\ Unused(Uids(c)) \notin Uids(c)
    BY <1>2, UnusedIs
<1>4. seenClaims[c] # None => seenClaims[c].uid \in Uids(c)
    BY DEF Uids
<1>5. ASSUME NEW v \in {volume, seenVolume, volumeWork.volume},
             v # None, v.ref # None, v.ref.name = c
      PROVE  v.ref.uid \in Uids(c)
    BY <1>5 DEF Uids
<1> QED BY <1>3, <1>4, <1>5

(* A new volume has an id that no copy bears. *)
Ids == {v.id : v \in {seenVolume, volumeWork.volume} \ {None}}

LEMMA NewId ==
    /\ Unused(Ids) \in Nat
    /\ \A v \in {seenVolume, volumeWork.volume} : v # None => v.id # Unused(Ids)
<1>1. Ids \subseteq {seenVolume.id, volumeWork.volume.id, 0, 0}
    BY DEF Ids
<1>2. IsFiniteSet(Ids)
    BY <1>1, FourFinite, FS_Subset
<1>3. Unused(Ids) \in Nat /\ Unused(Ids) \notin Ids
    BY <1>2, UnusedIs
<1>4. \A v \in {seenVolume, volumeWork.volume} : v # None => v.id \in Ids
    BY DEF Ids
<1> QED BY <1>3, <1>4

-----------------------------------------------------------------------------
(* Types.                                                                   *)

LEMMA ObjectsTyped ==
    /\ \A o \in ClaimObject :
          /\ [o EXCEPT !.going = TRUE] \in ClaimObject
          /\ \A p \in {"Pending", "Bound", "Lost"} :
                [o EXCEPT !.phase = p] \in ClaimObject
          /\ \A f \in SUBSET {"protection", "other"} :
                [o EXCEPT !.finalizers = f] \in ClaimObject
    /\ \A o \in VolumeObject :
          /\ [o EXCEPT !.going = TRUE] \in VolumeObject
          /\ [o EXCEPT !.phase = "Released"] \in VolumeObject
          /\ \A f \in SUBSET {"protection"} :
                [o EXCEPT !.finalizers = f] \in VolumeObject
          /\ \A ref \in Reference :
                [o EXCEPT !.phase = "Bound", !.ref = ref] \in VolumeObject
BY DEF ClaimObject, VolumeObject

LEMMA RemoveTyped ==
    \A finalizers : RemoveFinalizer(finalizers, "protection") \in SUBSET {"protection"}
BY DEF RemoveFinalizer

LEMMA StoredIs == \A o : Stored(o) \in {o, None}
BY DEF Stored

(* What is done to a claim: it goes, or it keeps its uid and stays deleted. *)
ClaimAged(c) ==
    \/ claims'[c] \in {claims[c], None}
    \/ /\ claims[c] # None
       /\ claims'[c] \in ClaimObject
       /\ claims'[c].uid = claims[c].uid
       /\ claims[c].going => claims'[c].going

ClaimMade(c) ==
    /\ claims[c] = None
    /\ claims'[c] = NewClaim(c, Unused(Uids(c)))

(* The claims change like this, one at a time. *)
ClaimsStep ==
    /\ claims' \in [Claims -> ClaimObject \cup {None}]
    /\ \A c \in Claims : ClaimAged(c) \/ ClaimMade(c)

(* What is done to the volume: once it is being deleted, it stays bound as  *)
(* it is.                                                                   *)
VolumeAged ==
    \/ volume' \in {volume, None}
    \/ /\ volume # None
       /\ volume' \in VolumeObject
       /\ volume'.id = volume.id
       /\ volume.going => volume'.going /\ volume'.ref = volume.ref

VolumeMade ==
    /\ volume = None
    /\ volume' = [id |-> Unused(Ids), phase |-> "Available", ref |-> None,
                  going |-> FALSE, finalizers |-> {"protection"}]

VolumeChanges == volume' \in VolumeObject \cup {None} /\ (VolumeAged \/ VolumeMade)

(* A claim that is written is written as an object of the same uid. *)
LEMMA SetClaimIs ==
    ASSUME TypeOK, NEW c \in Claims, claims[c] # None, NEW claim \in ClaimObject,
           SetClaim(c, claim), claim.uid = claims[c].uid,
           claims[c].going => claim.going
    PROVE  ClaimsStep
<1>1. /\ claims' = [claims EXCEPT ![c] = Stored(claim)]
      /\ Stored(claim) \in {claim, None}
    BY StoredIs DEF SetClaim
<1>2. claims' \in [Claims -> ClaimObject \cup {None}]
    BY <1>1 DEF TypeOK
<1>3. \A d \in Claims : claims'[d] = IF d = c THEN Stored(claim) ELSE claims[d]
    BY <1>1 DEF TypeOK
<1> QED BY <1>1, <1>2, <1>3 DEF ClaimsStep, ClaimAged

LEMMA ClaimsSame ==
    ASSUME TypeOK, claims' = claims
    PROVE  ClaimsStep
BY DEF TypeOK, ClaimsStep, ClaimAged

LEMMA VolumeSame ==
    ASSUME TypeOK, volume' = volume
    PROVE  VolumeChanges
BY DEF TypeOK, VolumeChanges, VolumeAged

LEMMA DeleteVolumeCallIs ==
    ASSUME TypeOK, DeleteVolumeCall
    PROVE  VolumeChanges
<1>1. CASE volume = None
    BY <1>1 DEF DeleteVolumeCall, VolumeChanges, VolumeAged
<1>2. CASE volume # None
    <2>1. volume \in VolumeObject
        BY <1>2 DEF TypeOK
    <2>2. [volume EXCEPT !.going = TRUE] \in VolumeObject
        BY <2>1, ObjectsTyped
    <2>3. volume' \in {[volume EXCEPT !.going = TRUE], None}
        BY <1>2, StoredIs DEF DeleteVolumeCall
    <2> QED BY <1>2, <2>1, <2>2, <2>3
            DEF VolumeChanges, VolumeAged, VolumeObject
<1> QED BY <1>1, <1>2

(* What users do, and what fails, is counted. *)
LEMMA ActTyped == ASSUME TypeOK, Act PROVE edits' \in 0 .. MaxEdits
BY BoundAssumption DEF TypeOK, Act

LEMMA FaultTyped == ASSUME TypeOK, Fault PROVE faults' \in 0 .. MaxFaults
BY BoundAssumption DEF TypeOK, Fault

(* The claims' goroutine. *)
LEMMA ClaimStepTyped ==
    ASSUME TypeOK, NEW c \in Claims, ClaimStep(c)
    PROVE  TypeOK' /\ ClaimsStep /\ VolumeChanges
<1>1. /\ UNCHANGED <<userVars, cacheVars, settled, volumeWork>>
      /\ claimQueue' \subseteq Claims
    BY DEF ClaimStep, DeleteVolume, ReleaseClaim, MakeDirectory, WaitForVolume,
           SyncClaim, SkipClaim, ReadsClaim, FinishClaim, TypeOK
<1>2. /\ claimWork' \in Claims \cup {None}
      /\ directory' \in BOOLEAN
      /\ volumeQueue' \in BOOLEAN
    BY DEF ClaimStep, DeleteVolume, ReleaseClaim, MakeDirectory, WaitForVolume,
           SyncClaim, SkipClaim, TypeOK
<1>3. ClaimsStep
    <2>1. CASE ReleaseClaim(c)
        <3>1. CASE claims[c] = seenClaims[c]
            <4>1. claims[c] # None /\ claims[c] \in ClaimObject
                BY <2>1, <3>1 DEF ReleaseClaim, Leaving, TypeOK
            <4> DEFINE claim ==
                    [claims[c] EXCEPT !.finalizers = RemoveFinalizer(@, "protection")]
            <4>2. claim \in ClaimObject
                BY <4>1, ObjectsTyped, RemoveTyped
            <4>3. claim.uid = claims[c].uid /\ claim.going = claims[c].going
                BY <4>1 DEF ClaimObject
            <4>4. SetClaim(c, claim)
                BY <2>1, <3>1 DEF ReleaseClaim
            <4> HIDE DEF claim
            <4> QED BY <4>1, <4>2, <4>3, <4>4, SetClaimIs
        <3>2. CASE claims[c] # seenClaims[c]
            BY <2>1, <3>2, ClaimsSame DEF ReleaseClaim
        <3> QED BY <3>1, <3>2
    <2>2. CASE ~ReleaseClaim(c)
        BY <2>2, ClaimsSame
           DEF ClaimStep, DeleteVolume, MakeDirectory, WaitForVolume, SyncClaim,
               SkipClaim
    <2> QED BY <2>1, <2>2
<1>4. VolumeChanges
    BY VolumeSame, DeleteVolumeCallIs
       DEF ClaimStep, DeleteVolume, ReleaseClaim, MakeDirectory, WaitForVolume,
           SyncClaim, SkipClaim
<1> QED BY <1>1, <1>2, <1>3, <1>4
        DEF TypeOK, userVars, cacheVars, ClaimsStep, VolumeChanges

LEMMA CreateVolumeTyped ==
    ASSUME TypeOK, CreateVolume
    PROVE  TypeOK' /\ ClaimsStep /\ VolumeChanges
<1>1. VolumeChanges
    <2>1. CASE volume # None
        BY <2>1, VolumeSame DEF CreateVolume
    <2>2. CASE volume = None
        <3>1. VolumeMade
            BY <2>2 DEF CreateVolume, VolumeMade, Ids
        <3>2. volume' \in VolumeObject
            BY <3>1, NewId DEF VolumeMade, VolumeObject
        <3> QED BY <3>1, <3>2 DEF VolumeChanges
    <2> QED BY <2>1, <2>2
<1>2. ClaimsStep
    BY ClaimsSame DEF CreateVolume
<1>3. settled' \subseteq Claims
    BY DEF CreateVolume, TypeOK
<1> QED BY <1>1, <1>2, <1>3
        DEF TypeOK, CreateVolume, userVars, cacheVars, volumeVars, ClaimsStep,
            VolumeChanges

(* The volume's goroutine. *)
LEMMA VolumeStepTyped ==
    ASSUME TypeOK, WorkInv, VolumeStep \/ DeleteIdle
    PROVE  TypeOK' /\ ClaimsStep /\ VolumeChanges
<1>1. ClaimsStep
    BY ClaimsSame DEF VolumeStep, DeleteIdle, TakeVolume, WaitForClaim, SkipVolume,
           RemoveAll, ReleaseVolume, ReadsVolume, Goes
<1>2. VolumeChanges
    <2>1. CASE ReleaseVolume
        <3>1. CASE volume = volumeWork.volume /\ volume # None
            <4> DEFINE next ==
                    [volume EXCEPT !.finalizers = RemoveFinalizer(@, "protection")]
            <4>1. volume \in VolumeObject
                BY <3>1 DEF TypeOK
            <4>2. next \in VolumeObject
                BY <4>1, ObjectsTyped, RemoveTyped
            <4>3. /\ next.id = volume.id /\ next.going = volume.going
                  /\ next.ref = volume.ref
                BY <4>1 DEF VolumeObject
            <4>4. volume' \in {next, None}
                BY <2>1, <3>1, StoredIs DEF ReleaseVolume
            <4> HIDE DEF next
            <4> QED BY <3>1, <4>2, <4>3, <4>4 DEF VolumeChanges, VolumeAged
        <3>2. CASE volume # volumeWork.volume
            BY <2>1, <3>2, VolumeSame DEF ReleaseVolume
        <3>3. volumeWork.volume # None
            BY <2>1 DEF ReleaseVolume, Goes, WorkInv
        <3> QED BY <3>1, <3>2, <3>3
    <2>2. CASE ~ReleaseVolume
        BY <2>2, VolumeSame, DeleteVolumeCallIs
           DEF VolumeStep, DeleteIdle, TakeVolume, WaitForClaim, SkipVolume,
               RemoveAll, ReadsVolume
    <2> QED BY <2>1, <2>2
<1>3. volumeWork' \in Work
    <2>1. CASE TakeVolume
        <3>1. Unseen(seenVolume) \in BOOLEAN
            BY DEF Unseen
        <3> QED BY <2>1, <3>1 DEF TakeVolume, Work, TypeOK
    <2>2. CASE RemoveAll
        BY <2>2 DEF RemoveAll, Work, TypeOK
    <2>3. CASE WaitForClaim \/ SkipVolume \/ ReleaseVolume
        <3>1. Idle \in Work
            BY DEF Idle, Work
        <3> QED BY <2>3, <3>1 DEF WaitForClaim, SkipVolume, ReleaseVolume, FinishVolume
    <2>4. CASE DeleteIdle
        BY <2>4 DEF DeleteIdle, volumeVars, TypeOK
    <2> QED BY <2>1, <2>2, <2>3, <2>4 DEF VolumeStep
<1>4. volumeQueue' \in BOOLEAN
    BY DEF VolumeStep, DeleteIdle, TakeVolume, WaitForClaim, SkipVolume, RemoveAll,
           ReleaseVolume, FinishVolume, volumeVars, TypeOK
<1>5. directory' \in BOOLEAN
    BY DEF VolumeStep, DeleteIdle, TakeVolume, WaitForClaim, SkipVolume, RemoveAll,
           ReleaseVolume, ReadsVolume, TypeOK
<1>6. edits' \in 0 .. MaxEdits
    <2>1. edits' = edits \/ Act
        BY DEF VolumeStep, DeleteIdle, TakeVolume, WaitForClaim, SkipVolume, RemoveAll,
               ReleaseVolume, ReadsVolume, Goes, userVars
    <2> QED BY <2>1, ActTyped DEF TypeOK
<1>7. UNCHANGED <<class, faults, cacheVars, claimVars>>
    BY DEF VolumeStep, DeleteIdle, TakeVolume, WaitForClaim, SkipVolume, RemoveAll,
           ReleaseVolume, ReadsVolume, Goes, userVars
<1> QED BY <1>1, <1>2, <1>3, <1>4, <1>5, <1>6, <1>7
        DEF TypeOK, cacheVars, claimVars, ClaimsStep, VolumeChanges

(* The informers, failures and restarts. *)
LEMMA AgentTyped ==
    ASSUME TypeOK,
           (\E c \in Claims : SeeClaim(c)) \/ SeeVolume \/ SeeNode \/ SeeClass \/ Fail \/ Restart
    PROVE  TypeOK' /\ ClaimsStep /\ VolumeChanges
<1>1. claims' = claims /\ volume' = volume
    BY DEF SeeClaim, SeeVolume, SeeNode, SeeClass, Fail, Restart
<1>2. ClaimsStep /\ VolumeChanges
    BY <1>1, ClaimsSame, VolumeSame
<1>3. Idle \in Work
    BY DEF Idle, Work
<1>4. CASE \E c \in Claims : SeeClaim(c)
    <2>1. PICK c \in Claims : SeeClaim(c)
        BY <1>4
    <2>2. seenClaims' \in [Claims -> ClaimObject \cup {None}]
        BY <2>1 DEF SeeClaim, TypeOK
    <2>3. claimQueue' \subseteq Claims /\ settled' \subseteq Claims
        BY <2>1 DEF SeeClaim, TypeOK
    <2>4. UNCHANGED <<userVars, claims, volume, directory, seenVolume, provision,
                      claimWork, volumeVars>>
        BY <2>1 DEF SeeClaim
    <2> QED BY <1>2, <2>2, <2>3, <2>4
            DEF TypeOK, userVars, volumeVars
<1>5. CASE SeeVolume
    <2>1. seenVolume' \in VolumeObject \cup {None} /\ volumeQueue' \in BOOLEAN
        BY <1>5 DEF SeeVolume, TypeOK
    <2>2. UNCHANGED <<userVars, claims, volume, directory, seenClaims, provision,
                      claimVars, volumeWork>>
        BY <1>5 DEF SeeVolume
    <2> QED BY <1>2, <2>1, <2>2 DEF TypeOK, userVars, claimVars
<1>6. CASE SeeNode \/ SeeClass
    <2>1. provision' \in [supported : BOOLEAN, policy : {"Retain", "Delete"}]
        BY <1>6, PolicyAssumption DEF SeeNode, SeeClass, TypeOK
    <2>2. UNCHANGED <<userVars, claims, volume, directory, seenClaims, seenVolume,
                      claimVars, volumeVars>>
        BY <1>6 DEF SeeNode, SeeClass
    <2> QED BY <1>2, <2>1, <2>2 DEF TypeOK, userVars, claimVars, volumeVars
<1>7. CASE Fail
    <2>1. /\ faults' \in 0 .. MaxFaults
          /\ UNCHANGED <<class, edits, claims, volume, directory, cacheVars>>
        BY <1>7, FaultTyped DEF Fail
    <2>2. /\ claimQueue' \subseteq Claims
          /\ claimWork' \in Claims \cup {None}
          /\ settled' \subseteq Claims
        BY <1>7 DEF Fail, FinishClaim, claimVars, TypeOK
    <2>3. volumeWork' \in Work /\ volumeQueue' \in BOOLEAN
        BY <1>3, <1>7 DEF Fail, FinishVolume, volumeVars, TypeOK
    <2> QED BY <1>2, <2>1, <2>2, <2>3 DEF TypeOK, cacheVars
<1>8. CASE Restart
    <2>1. faults' \in 0 .. MaxFaults
        BY <1>8, FaultTyped DEF Restart
    <2>2. Fresh \in [supported : BOOLEAN, policy : {"Retain", "Delete"}]
        BY DEF Fresh
    <2>3. /\ seenClaims' = [c \in Claims |-> None] /\ seenVolume' = None
          /\ claimQueue' = {} /\ volumeQueue' = FALSE
          /\ claimWork' = None /\ volumeWork' = Idle /\ settled' = {}
          /\ provision' = Fresh
          /\ UNCHANGED <<class, edits, directory>>
        BY <1>8 DEF Restart
    <2>4. seenClaims' \in [Claims -> ClaimObject \cup {None}]
        BY <2>3
    <2> QED BY <1>2, <1>3, <2>1, <2>2, <2>3, <2>4
            DEF TypeOK, ClaimsStep, VolumeChanges
<1> QED BY <1>2, <1>4, <1>5, <1>6, <1>7, <1>8

(* Users, and the controllers of Kubernetes. *)
LEMMA KubernetesTyped ==
    ASSUME TypeOK,
           \/ Kubernetes
           \/ \E c \in Claims : \/ CreateClaim(c) \/ DeleteClaim(c) \/ Bind(c)
                                \/ Lose(c) \/ UnprotectClaim(c)
    PROVE  TypeOK' /\ ClaimsStep /\ VolumeChanges
<1>1. AgentRests /\ UNCHANGED directory /\ edits' \in 0 .. MaxEdits
    <2>1. AgentRests /\ UNCHANGED directory /\ (edits' = edits \/ Act)
        BY DEF Kubernetes, ReleaseByBinder, UnprotectVolume, DeleteByHand, CreateClaim,
               DeleteClaim, Bind, Lose, UnprotectClaim
    <2> QED BY <2>1, ActTyped DEF TypeOK
<1>2. ClaimsStep /\ VolumeChanges => TypeOK'
    BY <1>1 DEF AgentRests, cacheVars, claimVars, volumeVars, TypeOK, ClaimsStep,
                VolumeChanges
<1>3. CASE DeleteByHand
    BY <1>2, <1>3, ClaimsSame, DeleteVolumeCallIs DEF DeleteByHand
<1>4. CASE UnprotectVolume
    BY <1>2, <1>4, ClaimsSame DEF UnprotectVolume, VolumeChanges, VolumeAged
<1>5. CASE ReleaseByBinder
    <2>1. volume \in VolumeObject /\ volume # None
        BY <1>5 DEF ReleaseByBinder, TypeOK
    <2>2. /\ volume' = [volume EXCEPT !.phase = "Released"]
          /\ [volume EXCEPT !.phase = "Released"] \in VolumeObject
        BY <1>5, <2>1, ObjectsTyped DEF ReleaseByBinder
    <2>3. VolumeChanges
        BY <2>1, <2>2 DEF VolumeChanges, VolumeAged, VolumeObject
    <2> QED BY <1>2, <1>5, <2>3, ClaimsSame DEF ReleaseByBinder
<1>6. ASSUME NEW c \in Claims, CreateClaim(c)
      PROVE  TypeOK' /\ ClaimsStep /\ VolumeChanges
    <2>1. NewClaim(c, Unused(Uids(c))) \in ClaimObject
        BY NewUid DEF NewClaim, ClaimObject
    <2>2. ClaimsStep
        BY <1>6, <2>1 DEF CreateClaim, ClaimsStep, ClaimAged, ClaimMade, TypeOK
    <2> QED BY <1>2, <1>6, <2>2, VolumeSame DEF CreateClaim
<1>7. ASSUME NEW c \in Claims, DeleteClaim(c)
      PROVE  TypeOK' /\ ClaimsStep /\ VolumeChanges
    <2>1. claims[c] # None /\ claims[c] \in ClaimObject
        BY <1>7 DEF DeleteClaim, Live, TypeOK
    <2> DEFINE claim == [claims[c] EXCEPT !.going = TRUE]
    <2>2. claim \in ClaimObject
        BY <2>1, ObjectsTyped
    <2>3. claim.uid = claims[c].uid /\ claim.going
        BY <2>1 DEF ClaimObject
    <2>4. SetClaim(c, claim)
        BY <1>7 DEF DeleteClaim
    <2>5. ClaimsStep
        <3> HIDE DEF claim
        <3> QED BY <2>1, <2>2, <2>3, <2>4, SetClaimIs
    <2> QED BY <1>2, <1>7, <2>5, VolumeSame DEF DeleteClaim
<1>8. ASSUME NEW c \in Claims, Bind(c)
      PROVE  TypeOK' /\ ClaimsStep /\ VolumeChanges
    <2>1. /\ claims[c] # None /\ claims[c] \in ClaimObject
          /\ volume # None /\ volume \in VolumeObject /\ ~volume.going
        BY <1>8 DEF Bind, Live, TypeOK
    <2> DEFINE claim == [claims[c] EXCEPT !.phase = "Bound"]
               ref == [name |-> c, uid |-> claims[c].uid]
               next == [volume EXCEPT !.phase = "Bound", !.ref = ref]
    <2>2. claim \in ClaimObject /\ ref \in Reference
        BY <2>1, ObjectsTyped DEF ClaimObject, Reference
    <2>3. next \in VolumeObject
        <3> HIDE DEF ref
        <3> QED BY <2>1, <2>2, ObjectsTyped
    <2>4. /\ claim.uid = claims[c].uid /\ claim.going = claims[c].going
          /\ next.id = volume.id
        BY <2>1 DEF ClaimObject, VolumeObject
    <2>5. claims' = [claims EXCEPT ![c] = claim] /\ volume' = next
        BY <1>8 DEF Bind
    <2> HIDE DEF claim, next
    <2>6. ClaimsStep
        BY <2>1, <2>2, <2>4, <2>5 DEF ClaimsStep, ClaimAged, TypeOK
    <2>7. VolumeChanges
        BY <2>1, <2>3, <2>4, <2>5 DEF VolumeChanges, VolumeAged
    <2> QED BY <1>2, <2>6, <2>7
<1>9. ASSUME NEW c \in Claims, Lose(c)
      PROVE  TypeOK' /\ ClaimsStep /\ VolumeChanges
    <2>1. claims[c] # None /\ claims[c] \in ClaimObject
        BY <1>9 DEF Lose, TypeOK
    <2> DEFINE claim == [claims[c] EXCEPT !.phase = "Lost"]
    <2>2. claim \in ClaimObject
        BY <2>1, ObjectsTyped
    <2>3. claim.uid = claims[c].uid /\ claim.going = claims[c].going
        BY <2>1 DEF ClaimObject
    <2>4. claims' = [claims EXCEPT ![c] = claim]
        BY <1>9 DEF Lose
    <2> HIDE DEF claim
    <2>5. ClaimsStep
        BY <2>1, <2>2, <2>3, <2>4 DEF ClaimsStep, ClaimAged, TypeOK
    <2> QED BY <1>2, <1>9, <2>5, VolumeSame DEF Lose
<1>10. ASSUME NEW c \in Claims, UnprotectClaim(c)
       PROVE  TypeOK' /\ ClaimsStep /\ VolumeChanges
    <2>1. claims[c] # None /\ claims[c] \in ClaimObject
        BY <1>10 DEF UnprotectClaim, TypeOK
    <2>2. PICK f \in claims[c].finalizers :
              SetClaim(c, [claims[c] EXCEPT !.finalizers = @ \ {f}])
        BY <1>10 DEF UnprotectClaim
    <2> DEFINE claim == [claims[c] EXCEPT !.finalizers = @ \ {f}]
    <2>3. claim \in ClaimObject
        BY <2>1 DEF ClaimObject
    <2>4. claim.uid = claims[c].uid /\ claim.going = claims[c].going
        BY <2>1 DEF ClaimObject
    <2>5. ClaimsStep
        <3> HIDE DEF claim
        <3> QED BY <2>1, <2>2, <2>3, <2>4, SetClaimIs DEF claim
    <2> QED BY <1>2, <1>10, <2>5, VolumeSame DEF UnprotectClaim
<1> QED BY <1>3, <1>4, <1>5, <1>6, <1>7, <1>8, <1>9, <1>10 DEF Kubernetes

LEMMA StepTyped ==
    ASSUME TypeOK, WorkInv, [Next]_vars
    PROVE  TypeOK' /\ ClaimsStep /\ VolumeChanges
<1>1. CASE UNCHANGED vars
    BY <1>1, ClaimsSame, VolumeSame DEF vars, TypeOK
<1> QED BY <1>1, ClaimStepTyped, CreateVolumeTyped, VolumeStepTyped, AgentTyped,
           KubernetesTyped
        DEF Next, Agent

-----------------------------------------------------------------------------
(* Copies.                                                                  *)

(* What the informers' steps do to the copies. *)
LEMMA CopiesStep ==
    ASSUME TypeOK, [Next]_vars
    PROVE  /\ \A c \in Claims :
                 \/ seenClaims'[c] \in {seenClaims[c], None}
                 \/ seenClaims'[c] = claims[c] /\ claims' = claims
           /\ \/ seenVolume' \in {seenVolume, None}
              \/ seenVolume' = volume /\ volume' = volume
<1>1. CASE \E c \in Claims : SeeClaim(c)
    BY <1>1 DEF SeeClaim, TypeOK
<1>2. CASE SeeVolume
    BY <1>2 DEF SeeVolume
<1>3. CASE Restart
    BY <1>3 DEF Restart
<1>4. CASE UNCHANGED vars
    BY <1>4 DEF vars
<1>5. CASE \/ \E c \in Claims : ClaimStep(c)
           \/ VolumeStep \/ DeleteIdle \/ CreateVolume \/ SeeNode \/ SeeClass \/ Fail
    <2>1. UNCHANGED <<seenClaims, seenVolume>>
        BY <1>5 DEF ClaimStep, DeleteVolume, ReleaseClaim, MakeDirectory,
                    WaitForVolume, SyncClaim, SkipClaim, ReadsClaim, VolumeStep,
                    TakeVolume, WaitForClaim, SkipVolume, RemoveAll, ReleaseVolume,
                    ReadsVolume, Goes, DeleteIdle, CreateVolume, SeeNode, SeeClass, Fail,
                    cacheVars
    <2> QED BY <2>1
<1>6. CASE \/ Kubernetes
           \/ \E c \in Claims : \/ CreateClaim(c) \/ DeleteClaim(c) \/ Bind(c)
                                \/ Lose(c) \/ UnprotectClaim(c)
    BY <1>6 DEF Kubernetes, ReleaseByBinder, UnprotectVolume, DeleteByHand,
                CreateClaim, DeleteClaim, Bind, Lose, UnprotectClaim, AgentRests,
                cacheVars
<1> QED BY <1>1, <1>2, <1>3, <1>4, <1>5, <1>6 DEF Next, Agent

(* What the steps do to the volume that is being worked on. *)
LEMMA WorkStep ==
    ASSUME TypeOK, [Next]_vars
    PROVE  \/ volumeWork' = Idle
           \/ /\ volumeWork'.volume = volumeWork.volume
              /\ volumeWork'.unseen = volumeWork.unseen
              /\ volumeWork.pc = "idle" => volumeWork'.pc = "idle"
           \/ TakeVolume
<1>1. CASE RemoveAll
    BY <1>1 DEF RemoveAll, Goes, TypeOK, Work
<1>2. CASE WaitForClaim \/ SkipVolume \/ ReleaseVolume \/ Restart
    BY <1>2 DEF WaitForClaim, SkipVolume, ReleaseVolume, FinishVolume, Restart
<1>3. CASE Fail
    BY <1>3 DEF Fail, FinishVolume, volumeVars
<1>4. CASE \/ UNCHANGED vars
           \/ \E c \in Claims : ClaimStep(c) \/ SeeClaim(c)
           \/ DeleteIdle \/ CreateVolume \/ SeeNode \/ SeeClass \/ SeeVolume
    <2>1. volumeWork' = volumeWork
        BY <1>4 DEF vars, ClaimStep, DeleteVolume, ReleaseClaim, MakeDirectory,
                    WaitForVolume, SyncClaim, SkipClaim, ReadsClaim, SeeClaim,
                    DeleteIdle, CreateVolume, SeeNode, SeeClass, SeeVolume, volumeVars
    <2> QED BY <2>1
<1>5. CASE \/ Kubernetes
           \/ \E c \in Claims : \/ CreateClaim(c) \/ DeleteClaim(c) \/ Bind(c)
                                \/ Lose(c) \/ UnprotectClaim(c)
    <2>1. volumeWork' = volumeWork
        BY <1>5 DEF Kubernetes, ReleaseByBinder, UnprotectVolume, DeleteByHand,
                    CreateClaim, DeleteClaim, Bind, Lose, UnprotectClaim, AgentRests,
                    volumeVars
    <2> QED BY <2>1
<1> QED BY <1>1, <1>2, <1>3, <1>4, <1>5 DEF Next, Agent, VolumeStep

LEMMA ClaimCopiesStep ==
    ASSUME IInv, [Next]_vars
    PROVE  ClaimCopies'
<1> SUFFICES ASSUME NEW c \in Claims,
                    seenClaims'[c] # None, claims'[c] # None,
                    seenClaims'[c].uid = claims'[c].uid, seenClaims'[c].going
             PROVE  claims'[c].going
    BY DEF ClaimCopies
<1>1. ClaimAged(c) \/ ClaimMade(c)
    BY StepTyped DEF IInv, ClaimsStep
<1>2. CASE seenClaims'[c] = claims[c] /\ claims' = claims
    BY <1>2
<1>3. CASE seenClaims'[c] = seenClaims[c]
    <2>1. CASE ClaimAged(c)
        BY <1>3, <2>1 DEF ClaimAged, ClaimCopies, IInv
    <2>2. CASE ClaimMade(c)
        <3>1. claims'[c].uid = Unused(Uids(c))
            BY <2>2 DEF ClaimMade, NewClaim
        <3> QED BY <1>3, <3>1, NewUid
    <2> QED BY <1>1, <2>1, <2>2
<1> QED BY <1>2, <1>3, CopiesStep DEF IInv

(* A volume with the id of a copy is what the copy is of, or what it became. *)
LEMMA VolumeKept ==
    ASSUME VolumeChanges,
           NEW v \in {seenVolume, volumeWork.volume}, SameVolume(v),
           v # None, volume' # None, v.going, v.id = volume'.id
    PROVE  volume'.going /\ volume'.ref = v.ref
<1>1. CASE VolumeAged
    BY <1>1 DEF VolumeAged, SameVolume
<1>2. CASE VolumeMade
    BY <1>2, NewId DEF VolumeMade
<1> QED BY <1>1, <1>2 DEF VolumeChanges

LEMMA VolumeCopiesStep ==
    ASSUME IInv, [Next]_vars
    PROVE  VolumeCopies'
<1>1. VolumeChanges
    BY StepTyped DEF IInv
<1>2. SameVolume(seenVolume)'
    <2>1. CASE seenVolume' = seenVolume
        BY <1>1, <2>1, VolumeKept DEF IInv, VolumeCopies, SameVolume
    <2>2. CASE seenVolume' = None
        BY <2>2 DEF SameVolume
    <2>3. CASE seenVolume' = volume /\ volume' = volume
        BY <2>3 DEF SameVolume
    <2> QED BY <2>1, <2>2, <2>3, CopiesStep DEF IInv
<1>3. SameVolume(volumeWork.volume)'
    <2>1. CASE volumeWork' = Idle
        BY <2>1 DEF Idle, SameVolume
    <2>2. CASE volumeWork'.volume = volumeWork.volume
        BY <1>1, <2>2, VolumeKept DEF IInv, VolumeCopies, SameVolume
    <2>3. CASE TakeVolume
        <3>1. volumeWork'.volume = seenVolume /\ volume' = volume
            BY <2>3 DEF TakeVolume, ReadsVolume
        <3> QED BY <3>1 DEF IInv, VolumeCopies, SameVolume
    <2> QED BY <2>1, <2>2, <2>3, WorkStep DEF IInv
<1> QED BY <1>2, <1>3 DEF VolumeCopies

(* When the agent starts to remove the files of v, and knows the claim that v *)
(* is bound to, that claim is being deleted.                                  *)
LEMMA TakenUnclaimed ==
    ASSUME IInv, TakeVolume, ~Unseen(seenVolume)
    PROVE  Unclaimed(seenVolume)
<1> SUFFICES ASSUME NEW c \in Holder(seenVolume), Live(claims[c])
             PROVE  FALSE
    BY DEF Unclaimed
<1>1. /\ seenVolume # None /\ seenVolume.ref # None
      /\ c = seenVolume.ref.name /\ claims[c] # None
    BY DEF Holder
<1>2. seenClaims[c] # None /\ seenClaims[c].uid = claims[c].uid
    BY DEF Unseen
<1>3. ~Live(seenClaims[c])
    BY <1>1 DEF TakeVolume, Reclaims, Claim
<1>4. c \in Claims
    <2>1. seenVolume.ref \in Reference
        BY <1>1 DEF IInv, TypeOK, VolumeObject
    <2> QED BY <1>1, <2>1 DEF Reference
<1>5. seenClaims[c].going
    BY <1>2, <1>3 DEF Live
<1>6. claims[c].going
    BY <1>1, <1>2, <1>4, <1>5 DEF IInv, ClaimCopies
<1> QED BY <1>6 DEF Live

(* No claim comes to life again, and no new one has the uid of an old one. *)
LEMMA UnclaimedKept ==
    ASSUME TypeOK, ClaimsStep, Unclaimed(volumeWork.volume),
           NEW v, v = volumeWork.volume, v # None, v \in VolumeObject,
           v.ref # None,
           NEW c, c = v.ref.name, claims'[c] # None, claims'[c].uid = v.ref.uid
    PROVE  ~Live(claims'[c])
<1>1. c \in Claims
    BY DEF VolumeObject, Reference
<1>2. CASE ClaimAged(c)
    <2>1. claims[c] # None /\ claims[c].uid = v.ref.uid
        BY <1>2 DEF ClaimAged
    <2>2. c \in Holder(v)
        BY <2>1 DEF Holder
    <2>3. claims[c].going
        BY <2>1, <2>2 DEF Unclaimed, Live
    <2> QED BY <1>2, <2>3 DEF ClaimAged, Live
<1>3. CASE ClaimMade(c)
    <2>1. claims'[c].uid = Unused(Uids(c))
        BY <1>3 DEF ClaimMade, NewClaim
    <2> QED BY <1>1, <2>1, NewUid
<1> QED BY <1>1, <1>2, <1>3 DEF ClaimsStep

LEMMA WorkInvStep ==
    ASSUME IInv, [Next]_vars
    PROVE  WorkInv'
<1>1. TypeOK' /\ ClaimsStep
    BY StepTyped DEF IInv
<1>2. CASE volumeWork' = Idle
    BY <1>2 DEF WorkInv, Idle
<1>3. CASE /\ volumeWork'.volume = volumeWork.volume
           /\ volumeWork'.unseen = volumeWork.unseen
           /\ volumeWork.pc = "idle" => volumeWork'.pc = "idle"
    <2> SUFFICES ASSUME volumeWork'.pc # "idle"
                 PROVE  /\ volumeWork'.volume # None
                        /\ volumeWork'.volume.going
                        /\ volumeWork'.unseen \/ Unclaimed(volumeWork.volume)'
        BY DEF WorkInv
    <2>1. /\ volumeWork.volume # None
          /\ volumeWork.volume.going
          /\ volumeWork.unseen \/ Unclaimed(volumeWork.volume)
        BY <1>3 DEF IInv, WorkInv
    <2>2. volumeWork.volume \in VolumeObject
        BY <2>1 DEF IInv, TypeOK, Work
    <2>3. Unclaimed(volumeWork.volume) => Unclaimed(volumeWork.volume)'
        <3> SUFFICES ASSUME Unclaimed(volumeWork.volume),
                            NEW c \in Holder(volumeWork.volume)'
                     PROVE  ~Live(claims'[c])
            BY DEF Unclaimed
        <3>1. /\ volumeWork.volume.ref # None /\ c = volumeWork.volume.ref.name
              /\ claims'[c] # None /\ claims'[c].uid = volumeWork.volume.ref.uid
            BY <1>3 DEF Holder
        <3> QED BY <1>1, <2>1, <2>2, <3>1, UnclaimedKept DEF IInv
    <2> QED BY <1>3, <2>1, <2>3
<1>4. CASE TakeVolume
    <2>1. /\ volumeWork' = [pc |-> "remove", volume |-> seenVolume,
                            unseen |-> Unseen(seenVolume)]
          /\ claims' = claims
          /\ seenVolume # None /\ seenVolume.going
        BY <1>4 DEF TakeVolume, ReadsVolume, Reclaims, Ending
    <2>2. Unseen(seenVolume) \/ Unclaimed(seenVolume)
        BY <1>4, TakenUnclaimed
    <2>3. Unclaimed(seenVolume) => Unclaimed(volumeWork.volume)'
        BY <2>1 DEF Unclaimed, Holder
    <2> QED BY <2>1, <2>2, <2>3 DEF WorkInv
<1> QED BY <1>2, <1>3, <1>4, WorkStep DEF IInv

LEMMA Invariance == Spec => []IInv
<1>1. Init => IInv
    <2> SUFFICES ASSUME Init PROVE IInv
        OBVIOUS
    <2>1. /\ class \in Policies
          /\ claims = [c \in Claims |-> None] /\ seenClaims = claims
          /\ volume = None /\ seenVolume = None /\ directory = FALSE
          /\ claimQueue = {} /\ volumeQueue = FALSE
          /\ claimWork = None /\ volumeWork = Idle /\ provision = Fresh
          /\ edits = 0 /\ faults = 0 /\ settled = {}
        BY DEF Init
    <2>2. /\ Idle \in Work
          /\ Fresh \in [supported : BOOLEAN, policy : {"Retain", "Delete"}]
          /\ 0 \in 0 .. MaxEdits /\ 0 \in 0 .. MaxFaults
        BY BoundAssumption DEF Idle, Work, Fresh
    <2>3. TypeOK
        <3>1. claims \in [Claims -> ClaimObject \cup {None}]
            BY <2>1
        <3> QED BY <2>1, <2>2, <3>1 DEF TypeOK
    <2>4. ClaimCopies /\ VolumeCopies /\ WorkInv
        BY <2>1 DEF ClaimCopies, VolumeCopies, SameVolume, WorkInv, Idle
    <2> QED BY <2>3, <2>4 DEF IInv
<1>2. IInv /\ [Next]_vars => IInv'
    BY StepTyped, ClaimCopiesStep, VolumeCopiesStep, WorkInvStep DEF IInv
<1> QED BY <1>1, <1>2, PTL DEF Spec

(* Every variable keeps its type. *)
THEOREM TypeCorrect == Spec => []TypeOK
BY Invariance, PTL DEF IInv

(* Only the removal of a volume's files takes the directory away. If the   *)
(* volume is still the one whose files are removed, and the agent had      *)
(* heard of its claim when it began, then its copy, however old, showed    *)
(* that claim being deleted, which is never taken back. A claim that the   *)
(* agent had not heard of is promised nothing.                             *)
THEOREM DataIsKept == Spec => DataKept
<1>1. IInv /\ [Next]_vars =>
          [directory /\ (\E c \in Holder(volume) : Live(claims[c]))
             => directory' \/ volumeWork.unseen
                \/ volume.id # volumeWork.volume.id]_vars
    <2> SUFFICES ASSUME IInv, Next, directory, ~directory',
                        NEW c \in Holder(volume), Live(claims[c]),
                        ~volumeWork.unseen, volume.id = volumeWork.volume.id
                 PROVE  FALSE
        BY DEF vars
    <2>1. RemoveAll
        <3>1. CASE \E d \in Claims : ClaimStep(d)
            BY <3>1 DEF ClaimStep, DeleteVolume, ReleaseClaim, MakeDirectory,
                        WaitForVolume, SyncClaim, SkipClaim
        <3>2. CASE \/ CreateVolume \/ DeleteIdle \/ SeeVolume \/ SeeNode \/ SeeClass
                   \/ Fail \/ Restart \/ \E d \in Claims : SeeClaim(d)
            BY <3>2 DEF CreateVolume, DeleteIdle, SeeVolume, SeeNode, SeeClass, Fail, Restart,
                        SeeClaim
        <3>3. CASE VolumeStep
            BY <3>3 DEF VolumeStep, TakeVolume, WaitForClaim, SkipVolume,
                        ReleaseVolume, ReadsVolume
        <3>4. CASE \/ Kubernetes
                   \/ \E d \in Claims : \/ CreateClaim(d) \/ DeleteClaim(d)
                                        \/ Bind(d) \/ Lose(d) \/ UnprotectClaim(d)
            BY <3>4 DEF Kubernetes, ReleaseByBinder, UnprotectVolume, DeleteByHand,
                        CreateClaim, DeleteClaim, Bind, Lose, UnprotectClaim
        <3> QED BY <3>1, <3>2, <3>3, <3>4 DEF Next, Agent
    <2>2. /\ volumeWork.volume # None /\ volumeWork.volume.going
          /\ Unclaimed(volumeWork.volume)
        BY <2>1 DEF RemoveAll, Goes, IInv, WorkInv
    <2>3. volume # None /\ volume.ref = volumeWork.volume.ref
        BY <2>2 DEF Holder, IInv, VolumeCopies, SameVolume
    <2>4. c \in Holder(volumeWork.volume)
        BY <2>2, <2>3 DEF Holder
    <2> QED BY <2>2, <2>4 DEF Unclaimed
<1> QED BY <1>1, Invariance, PTL DEF Spec, DataKept
=============================================================================
