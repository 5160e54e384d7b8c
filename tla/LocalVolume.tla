---------------------------- MODULE LocalVolume ----------------------------
(***************************************************************************)
(* tarsagent on one node, and the local volume it provides there for one   *)
(* directory of one server. The name and the path of the volume follow     *)
(* from server, directory and node, so the claims of all pods of that      *)
(* server compete for it; a claim that is bound to the volume of another   *)
(* node is none of this agent's, and not shown.                            *)
(*                                                                         *)
(* Two goroutines, one for claims and one for the volume, read informer    *)
(* caches that are not waited for: after a start they are empty. Delays    *)
(* are not shown: a key that comes back later is in its queue. The binder  *)
(* and the two protection controllers of Kubernetes do what they do.       *)
(***************************************************************************)
EXTENDS Naturals, FiniteSets

CONSTANTS
    Claims,         \* names of claims
    Guarded,        \* those that somebody else's finalizer guards, too
    Policies,       \* subset of {"Retain", "Delete"}: of the storage class
    ClaimsOf,       \* [Policies -> SUBSET Claims], bound: the claims there may be
    None,
    MaxEdits,       \* bound: deletions by users, and days that pass
    MaxFaults       \* bound: restarts of the agent and failures of its calls

ASSUME PolicyAssumption ==
    /\ Policies \subseteq {"Retain", "Delete"}
    /\ ClaimsOf \in [Policies -> SUBSET Claims]
ASSUME GuardedAssumption == Guarded \subseteq Claims
ASSUME BoundAssumption == MaxEdits \in Nat /\ MaxFaults \in Nat

VARIABLES
    class,          \* the reclaim policy of the storage class; never changes
    claims,         \* claims in the API server, or None
    volume,         \* the volume in the API server, or None
    directory,      \* is there its directory on the node?
    seenClaims,     \* the agent's copies
    seenVolume,
    claimQueue,     \* keys in the queues
    volumeQueue,
    claimWork,      \* None, or the claim whose directory has been made
    volumeWork,     \* the volume whose directory is being removed
    provision,      \* TLocalProvisioner: supportLocalVolume, reclaimPolicy
    edits,          \* deletions by users, and days, so far
    faults,         \* restarts and failures so far
    settled         \* claims that wait off the queue, for the volume made for them

vars == <<class, claims, volume, directory, seenClaims, seenVolume, claimQueue, volumeQueue,
          claimWork, volumeWork, provision, edits, faults, settled>>

userVars == <<class, edits, faults>>
cacheVars == <<seenClaims, seenVolume, provision>>
claimVars == <<claimQueue, claimWork, settled>>
volumeVars == <<volumeQueue, volumeWork>>

(* Objects in the API server, and what a volume tells of its claim. *)
Reference == [name : Claims, uid : Nat]

ClaimObject == [uid : Nat, phase : {"Pending", "Bound", "Lost"}, going : BOOLEAN,
                finalizers : SUBSET {"protection", "other"}]

VolumeObject == [id : Nat, phase : {"Available", "Bound", "Released"},
                 ref : Reference \cup {None}, going : BOOLEAN,
                 finalizers : SUBSET {"protection"}]

ASSUME NoneAssumption ==
    /\ None \notin Claims
    /\ None \notin Reference
    /\ None \notin ClaimObject
    /\ None \notin VolumeObject

Idle == [pc |-> "idle", volume |-> None, unseen |-> FALSE]

Fresh == [supported |-> FALSE, policy |-> "Retain"]     \* newTLocalProvisioner

(* A uid that no copy bears. *)
Unused(ids) == CHOOSE n \in 0 .. Cardinality(ids) : n \notin ids

(* A claim of the StatefulSet controller. *)
NewClaim(c, n) ==
    [uid |-> n, phase |-> "Pending", going |-> FALSE,
     finalizers |-> IF c \in Guarded THEN {"protection", "other"} ELSE {"protection"}]

Init ==
    /\ class \in Policies
    /\ claims = [c \in Claims |-> None] /\ seenClaims = claims
    /\ volume = None /\ seenVolume = None
    /\ directory = FALSE
    /\ claimQueue = {} /\ volumeQueue = FALSE
    /\ claimWork = None /\ volumeWork = Idle
    /\ provision = Fresh
    /\ edits = 0 /\ faults = 0 /\ settled = {}

---------------------------------------------------------------------------
(* Claims and volumes *)

Live(claim) == claim # None /\ ~claim.going

(* The claim that volume v is bound to, by its uid. *)
Holder(v) ==
    IF v = None THEN {} ELSE IF v.ref = None THEN {}
    ELSE {c \in {v.ref.name} : claims[c] # None /\ claims[c].uid = v.ref.uid}

(* RemoveFinalizer puts the finalizer it is to remove in the place of      *)
(* every other one.                                                        *)
RemoveFinalizer(finalizers, f) == IF finalizers \subseteq {f} THEN {} ELSE {f}

(* An object that is being deleted goes with its last finalizer. *)
Stored(o) == IF o.going /\ o.finalizers = {} THEN None ELSE o

SetClaim(c, claim) == claims' = [claims EXCEPT ![c] = Stored(claim)]

DeleteVolumeCall ==
    volume' = IF volume = None THEN None ELSE Stored([volume EXCEPT !.going = TRUE])

---------------------------------------------------------------------------
(* reconcileClaim. What it reads and the one call that follows are a step: *)
(* a copy may be as old as it likes.                                       *)

FinishClaim(c, again) ==
    claimQueue' = IF again THEN claimQueue \cup {c} ELSE claimQueue \ {c}

ReadsClaim(c) ==
    /\ claimWork = None
    /\ c \in claimQueue
    /\ UNCHANGED <<userVars, cacheVars, settled, volumeWork>>

Leaving(claim) ==
    claim # None /\ claim.going /\ claim.phase # "Pending" /\ "protection" \in claim.finalizers

Wants(claim) ==
    /\ Live(claim)
    /\ claim.phase = "Lost" \/ (claim.phase = "Pending" /\ seenVolume = None)

(* The volume of a claim that is being deleted goes first. *)
DeleteVolume(c) ==
    /\ ReadsClaim(c)
    /\ Leaving(seenClaims[c]) /\ seenVolume # None
    /\ IF seenVolume.going
         THEN volumeQueue' = TRUE /\ UNCHANGED volume
         ELSE DeleteVolumeCall /\ UNCHANGED volumeQueue
    /\ FinishClaim(c, TRUE)
    /\ UNCHANGED <<claims, claimWork, directory>>

(* Once the volume has gone, the claim may go. *)
ReleaseClaim(c) ==
    /\ ReadsClaim(c)
    /\ Leaving(seenClaims[c]) /\ seenVolume = None
    /\ IF claims[c] = seenClaims[c]
         THEN SetClaim(c, [claims[c] EXCEPT !.finalizers = RemoveFinalizer(@, "protection")])
         ELSE UNCHANGED claims
    /\ FinishClaim(c, claims[c] \notin {None, seenClaims[c]})
    /\ UNCHANGED <<claimWork, volume, directory, volumeQueue>>

(* Provision: the directory, then the volume. *)
MakeDirectory(c) ==
    /\ ReadsClaim(c)
    /\ Wants(seenClaims[c])
    /\ IF provision.supported
         THEN /\ directory' = TRUE
              /\ claimWork' = c
         ELSE UNCHANGED <<directory, claimWork>>
    /\ FinishClaim(c, ~provision.supported)
    /\ UNCHANGED <<claims, volume, volumeQueue>>

CreateVolume ==
    /\ claimWork # None
    /\ volume' = IF volume # None THEN volume     \* AlreadyExists
                 ELSE [id |-> Unused({v.id : v \in {seenVolume, volumeWork.volume} \ {None}}),
                       phase |-> "Available", ref |-> None, going |-> FALSE,
                       finalizers |-> {"protection"}]
    /\ claimWork' = None
    /\ settled' = settled \cup ({claimWork} \ claimQueue)
    /\ UNCHANGED <<userVars, claims, cacheVars, claimQueue, volumeVars, directory>>

(* Mutant: the claim is not looked at again. *)
WaitForVolumeMutant(c) ==
    /\ ReadsClaim(c)
    /\ Live(seenClaims[c]) /\ seenClaims[c].phase = "Pending" /\ seenVolume # None
    /\ FinishClaim(c, FALSE)
    /\ UNCHANGED <<claims, claimWork, volume, directory, volumeQueue>>

(* A pending claim looks again whether the volume of this node has gone.   *)
WaitForVolume(c) ==
    /\ ReadsClaim(c)
    /\ Live(seenClaims[c]) /\ seenClaims[c].phase = "Pending" /\ seenVolume # None
    /\ FinishClaim(c, TRUE)
    /\ UNCHANGED <<claims, claimWork, volume, directory, volumeQueue>>

(* SyncClaim makes the directory as the claim asks for, at the third try.  *)
SyncClaim(c) ==
    /\ ReadsClaim(c)
    /\ Live(seenClaims[c]) /\ seenClaims[c].phase = "Bound"
    /\ directory' = TRUE
    /\ FinishClaim(c, FALSE)
    /\ UNCHANGED <<claims, claimWork, volume, volumeQueue>>

SkipClaim(c) ==
    /\ ReadsClaim(c)
    /\ ~Live(seenClaims[c]) /\ ~Leaving(seenClaims[c])
    /\ FinishClaim(c, FALSE)
    /\ UNCHANGED <<claims, claimWork, volume, directory, volumeQueue>>

---------------------------------------------------------------------------
(* reconcileVolume *)

Act == edits < MaxEdits /\ edits' = edits + 1

FinishVolume(again) ==
    /\ volumeWork' = Idle
    /\ volumeQueue' = (volumeQueue \/ again)

ReadsVolume ==
    /\ volumeWork = Idle
    /\ volumeQueue
    /\ UNCHANGED <<userVars, claims, cacheVars, claimVars, volume, directory>>

Goes(pc) ==
    /\ volumeWork.pc = pc
    /\ UNCHANGED <<userVars, claims, cacheVars, claimVars>>

Ending(v) == v # None /\ v.going /\ "protection" \in v.finalizers

(* Its copy of the claim that v is bound to, by its name. *)
Claim(v) == IF v.ref = None THEN None ELSE seenClaims[v.ref.name]

(* The agent has not heard of the live claim that v is bound to: since it  *)
(* started, or ever, as its watch of the claims is behind that of the      *)
(* volume, and all it may know by that name is an earlier claim.           *)
Unseen(v) ==
    \E c \in Holder(v) :
        Live(claims[c]) /\ (seenClaims[c] = None \/ seenClaims[c].uid # claims[c].uid)

(* Mutant: the claim is not asked for. *)
ReclaimsMutant(v) == Ending(v)

Reclaims(v) == Ending(v) /\ ~Live(Claim(v))

TakeVolume ==
    /\ ReadsVolume
    /\ Reclaims(seenVolume)
    /\ volumeQueue' = FALSE
    /\ volumeWork' = [pc |-> "remove", volume |-> seenVolume, unseen |-> Unseen(seenVolume)]

(* A claim by that name is still there, or the volume waits for one. *)
WaitForClaim ==
    /\ ReadsVolume
    /\ \/ Ending(seenVolume) /\ ~Reclaims(seenVolume)
       \/ seenVolume # None /\ ~seenVolume.going /\ seenVolume.phase = "Available"
    /\ FinishVolume(TRUE)

SkipVolume ==
    /\ ReadsVolume
    /\ ~Ending(seenVolume)
    /\ seenVolume # None => seenVolume.going \/ seenVolume.phase # "Available"
    /\ volumeWork' = Idle /\ volumeQueue' = FALSE

(* A volume that nobody has claimed for a day is deleted, by name. *)
DeleteIdle ==
    /\ volumeWork = Idle /\ volumeQueue
    /\ seenVolume # None /\ ~seenVolume.going /\ seenVolume.phase = "Available"
    /\ Act
    /\ DeleteVolumeCall
    /\ UNCHANGED <<class, faults, claims, cacheVars, claimVars, volumeVars, directory>>

(* provision.Delete removes the files unless the policy is Delete. It may  *)
(* take long: meanwhile the volume may have gone, and another one be used. *)
RemoveAll ==
    /\ Goes("remove")
    /\ directory' = (directory /\ provision.policy = "Delete")
    /\ volumeWork' = [volumeWork EXCEPT !.pc = "update"]
    /\ UNCHANGED <<volume, volumeQueue>>

ReleaseVolume ==
    /\ Goes("update")
    /\ volume' = IF volume = volumeWork.volume
                   THEN Stored([volume EXCEPT !.finalizers = RemoveFinalizer(@, "protection")])
                   ELSE volume
    /\ FinishVolume(volume \notin {None, volumeWork.volume})
    /\ UNCHANGED <<directory>>

---------------------------------------------------------------------------
(* The informers, failures and restarts *)

SeeClaim(c) ==
    /\ seenClaims[c] # claims[c]
    /\ seenClaims' = [seenClaims EXCEPT ![c] = claims[c]]
    /\ claimQueue' = IF claims[c] = None THEN claimQueue ELSE claimQueue \cup {c}
    /\ settled' = settled \ {c}
    /\ UNCHANGED <<userVars, claims, volume, directory, seenVolume, provision, claimWork,
                   volumeVars>>

SeeVolume ==
    /\ seenVolume # volume
    /\ seenVolume' = volume
    /\ volumeQueue' = (volumeQueue \/ volume # None)
    /\ UNCHANGED <<userVars, claims, volume, directory, seenClaims, provision, claimVars,
                   volumeWork>>

(* enqueueNode: the node bears the label. *)
SeeNode ==
    /\ ~provision.supported
    /\ provision' = [provision EXCEPT !.supported = TRUE]
    /\ UNCHANGED <<userVars, claims, volume, directory, seenClaims, seenVolume, claimVars,
                   volumeVars>>

(* enqueueStorage *)
SeeClass ==
    /\ provision.policy # class
    /\ provision' = [provision EXCEPT !.policy = class]
    /\ UNCHANGED <<userVars, claims, volume, directory, seenClaims, seenVolume, claimVars,
                   volumeVars>>

Fault == faults < MaxFaults /\ faults' = faults + 1

(* A call or a file operation fails, and the key comes back; a failure at  *)
(* the first of them changes nothing. Errors of deletions are ignored, and *)
(* those of SyncClaim are not noticed.                                     *)
Fail ==
    /\ Fault
    /\ \/ /\ claimWork # None /\ claimWork' = None
          /\ FinishClaim(claimWork, TRUE)
          /\ UNCHANGED <<settled, volumeVars>>
       \/ volumeWork # Idle /\ FinishVolume(TRUE) /\ UNCHANGED claimVars
       \/ /\ claimWork = None
          /\ \E c \in claimQueue :
                 /\ Live(seenClaims[c]) /\ seenClaims[c].phase = "Bound"
                 /\ FinishClaim(c, FALSE)
          /\ UNCHANGED <<claimWork, settled, volumeVars>>
    /\ UNCHANGED <<class, edits, claims, volume, directory, cacheVars>>

Restart ==
    /\ Fault
    /\ seenClaims' = [c \in Claims |-> None] /\ seenVolume' = None
    /\ claimQueue' = {} /\ volumeQueue' = FALSE
    /\ claimWork' = None /\ volumeWork' = Idle /\ settled' = {}
    /\ provision' = Fresh
    /\ UNCHANGED <<class, edits, claims, volume, directory>>

---------------------------------------------------------------------------
(* Users, and the controllers of Kubernetes *)

AgentRests == UNCHANGED <<class, faults, cacheVars, claimVars, volumeVars>>

(* The uids that copies of claim c and of the volume tell. *)
Uids(c) ==
    {x.uid : x \in {seenClaims[c]} \ {None}}
    \cup {v.ref.uid : v \in {w \in {volume, seenVolume, volumeWork.volume} \ {None} :
                             w.ref # None /\ w.ref.name = c}}

(* The StatefulSet controller makes a claim, for a pod. *)
CreateClaim(c) ==
    /\ c \in ClaimsOf[class] /\ claims[c] = None
    /\ claims' = [claims EXCEPT ![c] = NewClaim(c, Unused(Uids(c)))]
    /\ AgentRests
    /\ UNCHANGED <<volume, directory, edits>>

DeleteClaim(c) ==
    /\ Live(claims[c])
    /\ Act
    /\ SetClaim(c, [claims[c] EXCEPT !.going = TRUE])
    /\ AgentRests
    /\ UNCHANGED <<volume, directory>>

DeleteByHand ==
    /\ volume # None /\ ~volume.going
    /\ Act
    /\ DeleteVolumeCall
    /\ AgentRests
    /\ UNCHANGED <<claims, directory>>

(* The binder, for new claims and for those whose volume was lost. *)
Bind(c) ==
    /\ volume # None /\ volume.phase = "Available" /\ ~volume.going
    /\ Live(claims[c]) /\ claims[c].phase \in {"Pending", "Lost"}
    /\ claims' = [claims EXCEPT ![c].phase = "Bound"]
    /\ volume' = [volume EXCEPT !.phase = "Bound", !.ref = [name |-> c, uid |-> claims[c].uid]]
    /\ AgentRests
    /\ UNCHANGED <<directory, edits>>

Lose(c) ==
    /\ claims[c] # None /\ claims[c].phase = "Bound"
    /\ c \notin Holder(volume)
    /\ claims' = [claims EXCEPT ![c].phase = "Lost"]
    /\ AgentRests
    /\ UNCHANGED <<volume, directory, edits>>

ReleaseByBinder ==
    /\ volume # None /\ volume.phase = "Bound" /\ Holder(volume) = {}
    /\ volume' = [volume EXCEPT !.phase = "Released"]
    /\ AgentRests
    /\ UNCHANGED <<claims, directory, edits>>

(* The protection controllers, and whoever owns the other finalizer. *)
UnprotectClaim(c) ==
    /\ claims[c] # None /\ claims[c].going
    /\ \E f \in claims[c].finalizers : SetClaim(c, [claims[c] EXCEPT !.finalizers = @ \ {f}])
    /\ AgentRests
    /\ UNCHANGED <<volume, directory, edits>>

UnprotectVolume ==
    /\ volume # None /\ volume.going /\ volume.phase # "Bound"
    /\ volume' = None
    /\ AgentRests
    /\ UNCHANGED <<claims, directory, edits>>

---------------------------------------------------------------------------
ClaimStep(c) ==
    \/ DeleteVolume(c) \/ ReleaseClaim(c) \/ MakeDirectory(c) \/ WaitForVolume(c)
    \/ SyncClaim(c) \/ SkipClaim(c)

VolumeStep == TakeVolume \/ WaitForClaim \/ SkipVolume \/ RemoveAll \/ ReleaseVolume

Agent ==
    \/ CreateVolume \/ VolumeStep \/ DeleteIdle
    \/ SeeVolume \/ SeeNode \/ SeeClass
    \/ Fail \/ Restart

Kubernetes == ReleaseByBinder \/ UnprotectVolume \/ DeleteByHand

Next ==
    \/ Agent \/ Kubernetes
    \/ \E c \in Claims :
           \/ ClaimStep(c) \/ SeeClaim(c)
           \/ CreateClaim(c) \/ DeleteClaim(c)
           \/ Bind(c) \/ Lose(c) \/ UnprotectClaim(c)

Spec == Init /\ [][Next]_vars

(* The goroutines and the watches run on, each key in its turn; what fails *)
(* and is tried again succeeds at last; the controllers of Kubernetes run. *)
Fairness ==
    /\ WF_vars(CreateVolume) /\ WF_vars(VolumeStep)
    /\ WF_vars(SeeVolume) /\ WF_vars(SeeNode) /\ WF_vars(SeeClass)
    /\ WF_vars(ReleaseByBinder) /\ WF_vars(UnprotectVolume)
    /\ \A c \in Claims :
           /\ SF_vars(ClaimStep(c)) /\ WF_vars(SeeClaim(c))
           /\ SF_vars(Bind(c)) /\ WF_vars(Lose(c)) /\ WF_vars(UnprotectClaim(c))

FairSpec == Spec /\ Fairness

---------------------------------------------------------------------------
(* Properties *)

(* The directory stays while a claim lives and its volume is bound to it,  *)
(* even if the volume is deleted by hand, or found idle, and however old   *)
(* the agent's copies are; as long as the agent had heard of that claim    *)
(* when it began to remove the files, and the volume is still the one it   *)
(* removes them for.                                                       *)
DataKept ==
    [][directory /\ (\E c \in Holder(volume) : Live(claims[c]))
       => directory' \/ volumeWork.unseen \/ volume.id # volumeWork.volume.id]_vars

(* In the end no claim is being deleted, and a volume that is being        *)
(* deleted is still bound to a claim that lives; no other one stays. A     *)
(* claim waits only while another one lives that the volume is bound to;   *)
(* unless the claim before it went before the agent could delete its       *)
(* volume, which stays Released for good, or the volume made for it was    *)
(* taken by another claim, or deleted, before it could be bound.           *)
ServedAtLast ==
    <>[](/\ volume # None /\ volume.going => \E d \in Holder(volume) : Live(claims[d])
         /\ \A c \in Claims : claims[c] # None =>
                /\ ~claims[c].going
                /\ \/ \E d \in Holder(volume) : Live(claims[d])
                   \/ volume # None /\ volume.phase = "Released"
                   \/ volume = None /\ c \in settled)
=============================================================================
