------------------------ MODULE KidControlCutoverProofs ------------------------
(***************************************************************************)
(* What holds of every transfer of authority, for any administrators,      *)
(* devices, profiles and bounds.  Everything rests on the guard: only its  *)
(* owner changes RouterOS, the local policy or the last event, so what is  *)
(* known of a transfer in progress is known of one request.                *)
(***************************************************************************)
EXTENDS KidControlCutover, TLAPS

-----------------------------------------------------------------------------
(* Types and the guard.                                                    *)

\* A request is guarded exactly while it owns the guard, knows its kind, and
\* what is left of its step are devices or profiles, as the step asks; it starts
\* without evidence and meets its first error in the clean-up.
FlowOK(a) ==
  /\ guard = a <=> pc[a] \in Guarded
  /\ pc[a] \in Transferring => kind[a] = "cutover"
  /\ pc[a] \in Cleaning => kind[a] \in {"cutover", "rollback"}
  /\ pc[a] \in {"wait", "check"} => kind[a] = "rollback"
  /\ pc[a] \in {"adopt", "note", "enforce", "unmode", "unadopt"} => todo[a] \subseteq Devices
  /\ pc[a] \in {"disable", "enable"} => todo[a] \subseteq Profiles
  /\ pc[a] \in {"idle", "stage", "discard"} => ev[a] = NoEvidence
  /\ pc[a] \notin Cleaning => ~bad[a]

TypeInv == TypeOK /\ \A a \in Admins : FlowOK(a)

-----------------------------------------------------------------------------
(* Recovery.                                                               *)

Migrated == {d \in Devices : member[d] = "migration"}
Clear == enabled = Profiles /\ Migrated = {}
Reaches(e) == Profiles \ enabled \subseteq e.profiles /\ Migrated \subseteq Adoptable(e)
\* Devices whose mode a rollback restores are ZEN's own, hence never removed.
Owned(e) == \A d \in e.devices \ e.created : member[d] = "own"

\* The last event keeps everything recoverable.
EventOK ==
  /\ Clear \/ (ActiveTransfer /\ ~record.evidence.clean /\ Reaches(record.evidence))
  /\ ActiveTransfer => Owned(record.evidence)

CutoverOK(a) ==
  /\ pc[a] \in {"contract", "materialize", "prepared"} => ~ActiveTransfer /\ Clear
  /\ pc[a] \in Transferring => ~ev[a].clean
  /\ pc[a] \in Transferring \ {"ready", "contract"} => ev[a].profiles = Profiles
  /\ pc[a] \in {"prepared", "adopt", "note", "enforce", "disable", "authoritative"} =>
       ev[a].artifacts # "none"
  /\ pc[a] \in {"adopt", "note", "enforce", "disable", "authoritative"} =>
       ActiveTransfer /\ ~record.evidence.clean
       /\ record.evidence.profiles = Profiles /\ record.evidence.artifacts # "none"
  /\ pc[a] \in {"ready", "contract", "materialize", "prepared"} => ev[a].devices = {}
  /\ pc[a] \in {"adopt", "note"} => \A d \in todo[a] : member[d] # "migration"
  /\ pc[a] \in Transferring => Owned(ev[a])

\* What a clean-up without an error has restored, and has still to restore.
RestoredSoFar(a) ==
  /\ pc[a] = "enable" => Profiles \ enabled \subseteq todo[a]
  /\ pc[a] \in Cleaning \ {"enable"} => enabled = Profiles
  /\ pc[a] = "unadopt" => Migrated \subseteq todo[a]
  /\ pc[a] \in {"unlocal", "prove", "close"} => Migrated = {}

CleanupOK(a) ==
  /\ pc[a] \in Cleaning => Reaches(ev[a]) /\ Owned(ev[a])
  /\ pc[a] \in Cleaning \cup {"check"} /\ kind[a] = "rollback" =>
       ActiveTransfer /\ ev[a] = record.evidence
  /\ pc[a] \in Cleaning /\ ~bad[a] => RestoredSoFar(a)

RecoveryInv ==
  /\ TypeInv
  /\ ~outdated => EventOK /\ \A a \in Admins : CutoverOK(a) /\ CleanupOK(a)

-----------------------------------------------------------------------------
(* No gap.                                                                 *)

Covered == local /\ \A d \in Devices : member[d] # "none" /\ mode[d] = "policy"
Whole(e) == e.profiles = Profiles /\ ~e.clean

AuthorityOK(a) ==
  /\ pc[a] \in Transferring \ {"ready", "contract", "materialize"} => local
  /\ pc[a] \in Transferring => ~ev[a].clean
  /\ pc[a] \in Transferring \ {"ready", "contract"} => ev[a].profiles = Profiles
  /\ pc[a] \in {"contract", "materialize", "prepared", "adopt", "note", "enforce"} =>
       enabled = Profiles
  /\ pc[a] \in {"adopt", "note"} => \A d \in Devices \ todo[a] : member[d] # "none"
  /\ pc[a] = "enforce" =>
       /\ \A d \in Devices : member[d] # "none"
       /\ \A d \in Devices \ todo[a] : mode[d] = "policy"
  /\ pc[a] \in {"disable", "authoritative"} => Covered
  /\ pc[a] \in Cleaning \cup {"wait", "check"} => kind[a] = "rollback" /\ Whole(ev[a])
  /\ pc[a] = "enable" => Profiles \ enabled \subseteq todo[a]
  /\ pc[a] \in Cleaning \ {"enable"} => enabled = Profiles

GapInv ==
  /\ TypeInv
  /\ faults = 0 =>
       /\ enabled = Profiles \/ Covered
       /\ ActiveTransfer => Whole(record.evidence)
       /\ \A a \in Admins : AuthorityOK(a)

-----------------------------------------------------------------------------
(* Restoration.                                                            *)

\* What RolledBackRestores asks, for the state before a transfer and after it.
Pristine == ~local /\ \A d \in Managed : mode[d] = "before"
\* Evidence from which a rollback restores every managed device.
Noted(e, d) == d \in e.devices \ e.created /\ e.was[d] = "before"
Full(e) == e.artifacts = "owned" /\ \A d \in Managed : Noted(e, d)

Undisturbed == ~outdated /\ crashes = 0 /\ faults <= 1

HistoryOK ==
  /\ record.state = "authoritative" => Full(record.evidence) /\ ~record.evidence.clean
  /\ record.state = "failed" => record.evidence.clean
  /\ guard = None => record.state # "prepared" /\ (record.state # "authoritative" => Pristine)

\* Before, and while, a cutover works.
StartOK(a) ==
  /\ pc[a] \in {"ready", "check"} /\ record.state # "authoritative" => Pristine
  /\ pc[a] = "ready" => record.state # "prepared"
  /\ pc[a] \in {"contract", "materialize"} => Pristine
  /\ pc[a] \in {"ready", "contract", "materialize"} => ev[a].artifacts = "none"
  /\ pc[a] \in {"prepared", "adopt", "note"} => \A d \in Managed : mode[d] = "before"
  /\ pc[a] \in {"prepared", "adopt", "note", "enforce", "disable", "authoritative"} =>
       ev[a].artifacts = "owned"
  /\ pc[a] \in Transferring => Managed \cap ev[a].created = {}
  /\ pc[a] \in Transferring => \A d \in Managed \cap ev[a].devices : Noted(ev[a], d)
  /\ pc[a] \in {"adopt", "note"} => Managed \ todo[a] \subseteq ev[a].devices
  /\ pc[a] \in {"enforce", "disable", "authoritative"} => Managed \subseteq ev[a].devices

\* While a clean-up works.  The one of a cutover meets no error, since the cutover
\* has had its own.
UndoOK(a) ==
  /\ pc[a] \in Cleaning /\ kind[a] = "cutover" => faults = 1 /\ ~bad[a]
  /\ pc[a] \in Cleaning \cup {"check"} /\ kind[a] = "rollback" => record.state # "prepared"
  /\ pc[a] \in {"enable", "unmode", "unadopt", "unlocal"} =>
       /\ ~local \/ ev[a].artifacts = "owned"
       /\ \A d \in Managed \cap ev[a].devices : Noted(ev[a], d)
       /\ kind[a] = "rollback" => record.state = "authoritative"
  /\ pc[a] = "enable" => \A d \in Managed : mode[d] = "before" \/ d \in ev[a].devices
  /\ pc[a] = "unmode" => todo[a] \subseteq ev[a].devices \ ev[a].created
  /\ pc[a] = "unmode" /\ ~bad[a] => \A d \in Managed : mode[d] = "before" \/ d \in todo[a]
  /\ pc[a] \in {"unadopt", "unlocal"} /\ ~bad[a] => \A d \in Managed : mode[d] = "before"
  /\ pc[a] \in {"prove", "close"} /\ (~bad[a] \/ record.state # "authoritative") => Pristine

RestoreInv ==
  /\ RecoveryInv
  /\ \A d \in Managed : member[d] = "own"
  /\ Undisturbed => HistoryOK /\ \A a \in Admins : StartOK(a) /\ UndoOK(a)

-----------------------------------------------------------------------------
LEMMA NoEvidenceType == NoEvidence \in Evidence
BY DEF NoEvidence, Evidence, Modes

LEMMA EvidenceFields ==
  ASSUME NEW e \in Evidence
  PROVE  /\ e.profiles \subseteq Profiles
         /\ e.artifacts \in {"none", "owned", "reused"}
         /\ e.devices \subseteq Devices
         /\ e.created \subseteq Devices
         /\ e.was \in [Devices -> Modes]
         /\ e.clean \in BOOLEAN
BY DEF Evidence

LEMMA WithProfilesEffect ==
  ASSUME NEW e \in Evidence
  PROVE  /\ WithProfiles(e) \in Evidence
         /\ WithProfiles(e).profiles = Profiles
         /\ WithProfiles(e).artifacts = e.artifacts
         /\ WithProfiles(e).devices = e.devices
         /\ WithProfiles(e).created = e.created
         /\ WithProfiles(e).was = e.was
         /\ WithProfiles(e).clean = e.clean
BY DEF Evidence, WithProfiles

LEMMA WithArtifactsEffect ==
  ASSUME NEW e \in Evidence
  PROVE  /\ WithArtifacts(e) \in Evidence
         /\ WithArtifacts(e).profiles = e.profiles
         /\ WithArtifacts(e).artifacts = (IF local THEN "reused" ELSE "owned")
         /\ WithArtifacts(e).devices = e.devices
         /\ WithArtifacts(e).created = e.created
         /\ WithArtifacts(e).was = e.was
         /\ WithArtifacts(e).clean = e.clean
BY DEF Evidence, WithArtifacts

LEMMA WithDeviceEffect ==
  ASSUME NEW e \in Evidence, NEW d \in Devices, mode \in [Devices -> Modes]
  PROVE  /\ WithDevice(e, d) \in Evidence
         /\ WithDevice(e, d).profiles = e.profiles
         /\ WithDevice(e, d).artifacts = e.artifacts
         /\ WithDevice(e, d).devices = e.devices \cup {d}
         /\ member[d] = "none" => WithDevice(e, d).created = e.created \cup {d}
         /\ member[d] # "none" => WithDevice(e, d).created = e.created
         /\ member[d] # "none" => WithDevice(e, d).was[d] = mode[d]
         /\ \A c \in Devices \ {d} : WithDevice(e, d).was[c] = e.was[c]
         /\ WithDevice(e, d).clean = e.clean
BY DEF Evidence, WithDevice, Modes

LEMMA WithOutcomeEffect ==
  ASSUME NEW e \in Evidence, NEW f \in BOOLEAN
  PROVE  /\ WithOutcome(e, f) \in Evidence
         /\ WithOutcome(e, f).profiles = e.profiles
         /\ WithOutcome(e, f).artifacts = e.artifacts
         /\ WithOutcome(e, f).devices = e.devices
         /\ WithOutcome(e, f).created = e.created
         /\ WithOutcome(e, f).was = e.was
         /\ WithOutcome(e, f).clean = ~f
BY DEF Evidence, WithOutcome

-----------------------------------------------------------------------------
(* What the steps of a request do to it, and that no other is concerned.   *)

Steps == Guarded \cup {"idle", "stage", "discard", "wait"}
ThreadOK ==
  /\ guard \in Admins \cup {None}
  /\ pc \in [Admins -> Steps]
  /\ kind \in [Admins -> {"none", "cutover", "rollback"}]
  /\ ev \in [Admins -> Evidence]
  /\ todo \in [Admins -> SUBSET (Devices \cup Profiles)]
  /\ bad \in [Admins -> BOOLEAN]

Moves(a, l, k, e, t, b) ==
  /\ ThreadOK'
  /\ pc'[a] = l /\ kind'[a] = k /\ ev'[a] = e /\ todo'[a] = t /\ bad'[a] = b
  /\ \A c \in Admins \ {a} :
       /\ pc'[c] = pc[c] /\ kind'[c] = kind[c] /\ ev'[c] = ev[c]
       /\ todo'[c] = todo[c] /\ bad'[c] = bad[c]
Walks(a, l) == Moves(a, l, kind[a], ev[a], todo[a], bad[a]) /\ guard' = guard
Turns(a, l, t) == Moves(a, l, kind[a], ev[a], t, bad[a]) /\ guard' = guard
Ends(a) ==
  /\ Moves(a, "idle", "none", NoEvidence, {}, FALSE)
  /\ guard' = IF guard = a THEN None ELSE guard

LEMMA ThreadTyped == TypeOK => ThreadOK
BY DEF TypeOK, ThreadOK, Steps

LEMMA GotoWalks ==
  ASSUME ThreadOK, NEW a \in Admins, NEW l \in Steps, Goto(a, l)
  PROVE  Walks(a, l)
BY DEF ThreadOK, Goto, Walks, Moves

LEMMA EachTurns ==
  ASSUME ThreadOK, NEW a \in Admins, NEW l \in Steps,
         NEW t \in SUBSET (Devices \cup Profiles), Each(a, l, t)
  PROVE  Turns(a, l, t)
BY DEF ThreadOK, Each, Turns, Moves

LEMMA EndEnds ==
  ASSUME ThreadOK, NEW a \in Admins, End(a)
  PROVE  Ends(a)
<1>1. ThreadOK'
  <2>1. guard' \in Admins \cup {None}
    BY DEF ThreadOK, End
  <2>2. /\ pc' \in [Admins -> Steps]
        /\ kind' \in [Admins -> {"none", "cutover", "rollback"}]
        /\ ev' \in [Admins -> Evidence]
        /\ todo' \in [Admins -> SUBSET (Devices \cup Profiles)]
        /\ bad' \in [Admins -> BOOLEAN]
    BY NoEvidenceType DEF ThreadOK, End, Steps
  <2>. QED
    BY <2>1, <2>2 DEF ThreadOK
<1>2. /\ pc'[a] = "idle" /\ kind'[a] = "none" /\ ev'[a] = NoEvidence
      /\ todo'[a] = {} /\ bad'[a] = FALSE
  BY DEF ThreadOK, End
<1>3. \A c \in Admins \ {a} :
        /\ pc'[c] = pc[c] /\ kind'[c] = kind[c] /\ ev'[c] = ev[c]
        /\ todo'[c] = todo[c] /\ bad'[c] = bad[c]
  BY DEF ThreadOK, End
<1>. QED
  BY <1>1, <1>2, <1>3 DEF Ends, Moves, End

-----------------------------------------------------------------------------
(* The effect of each step.                                                *)

CountersOK ==
  /\ staged \in {"none", "fresh", "stale"} /\ outdated \in BOOLEAN
  /\ transfers \in 0..MaxTransfers /\ faults \in 0..MaxFaults /\ crashes \in 0..MaxCrashes
Calm == CountersOK' /\ faults' = faults /\ crashes' = crashes /\ outdated' = outdated
Faulty == CountersOK' /\ faults' = faults + 1 /\ crashes' = crashes /\ outdated' = outdated

LEMMA CountersTyped == TypeOK => CountersOK
BY DEF TypeOK, CountersOK

LEMMA FaultFaults ==
  ASSUME CountersOK, Fault, UNCHANGED <<staged, outdated>>
  PROVE  Faulty
BY BoundsAssumption DEF CountersOK, Fault, Faulty

LEMMA TransferCounts ==
  ASSUME CountersOK, Transfer
  PROVE  transfers' \in 0..MaxTransfers /\ faults' = faults /\ crashes' = crashes
BY BoundsAssumption DEF CountersOK, Transfer


\* The three ways in which a clean-up meets an error.
FailedCall(a) ==
  /\ pc[a] \in {"enable", "unmode", "unadopt"} /\ local' = local
  /\ \E x \in todo[a] :
       /\ Moves(a, pc[a], kind[a], ev[a], todo[a] \ {x}, TRUE)
       /\ \/ UNCHANGED <<enabled, member, mode>>
          \/ /\ pc[a] = "enable" /\ UNCHANGED <<member, mode>>
             /\ enabled' = enabled \cup {x}
          \/ /\ pc[a] = "unmode" /\ UNCHANGED <<enabled, member>>
             /\ mode' = [mode EXCEPT ![x] = ev[a].was[x]]
          \/ /\ pc[a] = "unadopt" /\ UNCHANGED <<enabled, mode>>
             /\ member' = [member EXCEPT ![x] = Unadopted(x)]
FailedLocal(a) ==
  /\ pc[a] = "unlocal" /\ UNCHANGED <<enabled, member, mode>>
  /\ local' \in {local, local /\ ev[a].artifacts # "owned"}
  /\ Moves(a, "prove", kind[a], ev[a], todo[a], TRUE)
FailedProof(a) ==
  /\ pc[a] = "prove" /\ UNCHANGED <<enabled, member, mode, local>>
  /\ Moves(a, "close", kind[a], ev[a], todo[a], TRUE)

LEMMA AdoptableDevices ==
  ASSUME NEW e \in Evidence
  PROVE  Adoptable(e) \subseteq Devices /\ (e.artifacts # "none" => Adoptable(e) = Devices)
BY EvidenceFields DEF Adoptable

LEMMA StageEffect ==
  ASSUME TypeOK, NEW a \in Admins, Stage(a)
  PROVE  /\ pc[a] = "idle"
         /\ Walks(a, "stage")
         /\ UNCHANGED <<enabled, member, mode, local, record>>
         /\ Calm
BY ThreadTyped, CountersTyped, GotoWalks
   DEF Stage, ThreadOK, Steps, Guarded, Transferring, Cleaning, CountersOK,
       Calm, routeros, store, bounds

LEMMA StageWriteEffect ==
  ASSUME TypeOK, NEW a \in Admins, StageWrite(a)
  PROVE  /\ pc[a] = "stage"
         /\ Walks(a, "idle")
         /\ UNCHANGED <<enabled, member, mode, local, record>>
         /\ Calm
BY ThreadTyped, CountersTyped, GotoWalks
   DEF StageWrite, ThreadOK, Steps, Guarded, Transferring, Cleaning, CountersOK, Calm,
       routeros, bounds

LEMMA DiscardEffect ==
  ASSUME TypeOK, NEW a \in Admins, Discard(a)
  PROVE  /\ pc[a] = "idle"
         /\ Walks(a, "discard")
         /\ UNCHANGED <<enabled, member, mode, local, record>>
         /\ Calm
BY ThreadTyped, CountersTyped, GotoWalks
   DEF Discard, ThreadOK, Steps, Guarded, Transferring, Cleaning, CountersOK,
       Calm, routeros, store, bounds

LEMMA DiscardWriteEffect ==
  ASSUME TypeOK, NEW a \in Admins, DiscardWrite(a)
  PROVE  /\ pc[a] = "discard"
         /\ Walks(a, "idle")
         /\ UNCHANGED <<enabled, member, mode, local, record>>
         /\ Calm
BY ThreadTyped, CountersTyped, GotoWalks
   DEF DiscardWrite, ThreadOK, Steps, Guarded, Transferring, Cleaning, CountersOK, Calm,
       routeros, bounds

LEMMA BeginEffect ==
  ASSUME TypeOK, NEW a \in Admins, Begin(a)
  PROVE  /\ pc[a] = "idle"
         /\ guard = None
         /\ guard' = a
         /\ Moves(a, "ready", "cutover", ev[a], todo[a], bad[a])
         /\ UNCHANGED <<enabled, member, mode, local, record>>
         /\ Calm
BY ThreadTyped, CountersTyped, TransferCounts
   DEF Begin, ThreadOK, Steps, Guarded, Transferring, Cleaning, Moves, CountersOK, Calm,
       routeros, store

LEMMA ReadyEffect ==
  ASSUME TypeOK, NEW a \in Admins, Ready(a)
  PROVE  /\ pc[a] = "ready"
         /\ (IsReady /\ Walks(a, "contract")) \/ Ends(a)
         /\ UNCHANGED <<enabled, member, mode, local, record>>
         /\ Calm
BY ThreadTyped, CountersTyped, GotoWalks, EndEnds
   DEF Ready, ThreadOK, Steps, Guarded, Transferring, Cleaning, CountersOK,
       Calm, routeros, store, bounds

LEMMA ReadyRaisesEffect ==
  ASSUME TypeOK, NEW a \in Admins, ReadyRaises(a)
  PROVE  /\ pc[a] = "ready"
         /\ Ends(a)
         /\ UNCHANGED <<enabled, member, mode, local, record>>
         /\ Faulty
BY ThreadTyped, CountersTyped, FaultFaults, EndEnds
   DEF ReadyRaises, ThreadOK, Steps, Guarded, Transferring, Cleaning, CountersOK,
       routeros, store

LEMMA ContractEffect ==
  ASSUME TypeOK, NEW a \in Admins, Contract(a)
  PROVE  /\ pc[a] = "contract"
         /\ guard' = guard
         /\ Moves(a, "materialize", kind[a], WithProfiles(ev[a]), todo[a], bad[a])
         /\ UNCHANGED <<enabled, member, mode, local, record>>
         /\ Calm
BY ThreadTyped, CountersTyped, WithProfilesEffect
   DEF Contract, ThreadOK, Steps, Guarded, Transferring, Cleaning, Moves, CountersOK,
       Calm, routeros, store, bounds

LEMMA MaterializeEffect ==
  ASSUME TypeOK, NEW a \in Admins, Materialize(a)
  PROVE  /\ pc[a] = "materialize"
         /\ guard' = guard
         /\ Moves(a, "prepared", kind[a], WithArtifacts(ev[a]), todo[a], bad[a])
         /\ local' = TRUE
         /\ UNCHANGED <<enabled, member, mode, record>>
         /\ Calm
BY ThreadTyped, CountersTyped, WithArtifactsEffect
   DEF Materialize, ThreadOK, Steps, Guarded, Transferring, Cleaning, Moves, CountersOK,
       Calm, routeros, bounds

LEMMA PreparedEffect ==
  ASSUME TypeOK, NEW a \in Admins, Prepared(a)
  PROVE  /\ pc[a] = "prepared"
         /\ Turns(a, "adopt", Devices)
         /\ Record("prepared", ev[a])
         /\ UNCHANGED <<enabled, member, mode, local>>
         /\ Calm
BY ThreadTyped, CountersTyped, EachTurns
   DEF Prepared, ThreadOK, Steps, Guarded, Transferring, Cleaning, CountersOK, Calm,
       routeros, bounds

LEMMA AdoptEffect ==
  ASSUME TypeInv, NEW a \in Admins, Adopt(a)
  PROVE  /\ pc[a] = "adopt"
         /\ guard' = guard
         /\ \E d \in todo[a] :
              /\ Moves(a, "note", kind[a], WithDevice(ev[a], d), todo[a] \ {d}, bad[a])
              /\ member' = [member EXCEPT ![d] = Adopted(d)]
         /\ UNCHANGED <<enabled, mode, local, record>>
         /\ Calm
<1>1. todo[a] \subseteq Devices
  BY DEF Adopt, TypeInv, FlowOK
<1>2. ThreadOK /\ CountersOK /\ mode \in [Devices -> Modes]
  BY ThreadTyped, CountersTyped DEF TypeInv, TypeOK
<1>3. PICK d \in todo[a] :
        /\ member' = [member EXCEPT ![d] = Adopted(d)]
        /\ ev' = [ev EXCEPT ![a] = WithDevice(ev[a], d)]
        /\ todo' = [todo EXCEPT ![a] = @ \ {d}]
  BY DEF Adopt, Done
<1>4. ev[a] \in Evidence /\ d \in Devices
  BY <1>1, <1>2 DEF ThreadOK
<1>5. WithDevice(ev[a], d) \in Evidence
  BY <1>2, <1>4, WithDeviceEffect
<1>6. Moves(a, "note", kind[a], WithDevice(ev[a], d), todo[a] \ {d}, bad[a])
  BY <1>2, <1>3, <1>5 DEF Adopt, Moves, ThreadOK, Steps, Guarded, Transferring
<1>. QED
  BY <1>2, <1>3, <1>6 DEF Adopt, CountersOK, Calm, store, bounds

LEMMA NoteEffect ==
  ASSUME TypeOK, NEW a \in Admins, Note(a)
  PROVE  /\ pc[a] = "note"
         /\ \/ todo[a] = {} /\ Turns(a, "enforce", Devices)
            \/ Walks(a, "adopt")
         /\ Record("prepared", ev[a])
         /\ UNCHANGED <<enabled, member, mode, local>>
         /\ Calm
BY ThreadTyped, CountersTyped, EachTurns, GotoWalks
   DEF Note, ThreadOK, Steps, Guarded, Transferring, Cleaning, CountersOK, Calm, routeros,
       bounds

LEMMA EnforceEffect ==
  ASSUME TypeOK, NEW a \in Admins, Enforce(a)
  PROVE  /\ pc[a] = "enforce"
         /\ \E d \in todo[a] :
              /\ Turns(a, "enforce", todo[a] \ {d})
              /\ mode' = [mode EXCEPT ![d] = "policy"]
         /\ UNCHANGED <<enabled, member, local, record>>
         /\ Calm
BY ThreadTyped, CountersTyped
   DEF Enforce, ThreadOK, Steps, Guarded, Transferring, Cleaning, Moves, Turns, Done,
       CountersOK, Calm, store, bounds

LEMMA ProvenEffect ==
  ASSUME TypeOK, NEW a \in Admins, Proven(a)
  PROVE  /\ pc[a] = "enforce"
         /\ todo[a] = {}
         /\ Turns(a, "disable", ev[a].profiles)
         /\ Record("prepared", ev[a])
         /\ UNCHANGED <<enabled, member, mode, local>>
         /\ Calm
BY ThreadTyped, CountersTyped, EachTurns, EvidenceFields
   DEF Proven, ThreadOK, Steps, Guarded, Transferring, Cleaning, CountersOK, Calm,
       routeros, bounds

LEMMA DisableEffect ==
  ASSUME TypeOK, NEW a \in Admins, Disable(a)
  PROVE  /\ pc[a] = "disable"
         /\ \E p \in todo[a] :
              /\ Turns(a, "disable", todo[a] \ {p})
              /\ enabled' = enabled \ {p}
         /\ UNCHANGED <<member, mode, local, record>>
         /\ Calm
BY ThreadTyped, CountersTyped
   DEF Disable, ThreadOK, Steps, Guarded, Transferring, Cleaning, Moves, Turns, Done,
       CountersOK, Calm, store, bounds

LEMMA DisabledEffect ==
  ASSUME TypeOK, NEW a \in Admins, Disabled(a)
  PROVE  /\ pc[a] = "disable"
         /\ Walks(a, "authoritative")
         /\ UNCHANGED <<enabled, member, mode, local, record>>
         /\ Calm
BY ThreadTyped, CountersTyped, GotoWalks
   DEF Disabled, ThreadOK, Steps, Guarded, Transferring, Cleaning,
       CountersOK, Calm, routeros, store, bounds

LEMMA AuthoritativeEffect ==
  ASSUME TypeOK, NEW a \in Admins, Authoritative(a)
  PROVE  /\ pc[a] = "authoritative"
         /\ Ends(a)
         /\ Record("authoritative", ev[a])
         /\ UNCHANGED <<enabled, member, mode, local>>
         /\ Calm
BY ThreadTyped, CountersTyped, EndEnds
   DEF Authoritative, ThreadOK, Steps, Guarded, Transferring, Cleaning, CountersOK, Calm,
       routeros, bounds

LEMMA CutoverRaisesEffect ==
  ASSUME TypeOK, NEW a \in Admins, CutoverRaises(a)
  PROVE  /\ pc[a] \in {"contract", "materialize", "adopt", "enforce", "disable"}
         /\ Turns(a, "enable", ev[a].profiles)
         /\ \/ UNCHANGED <<enabled, member, mode>>
            \/ /\ pc[a] = "adopt" /\ UNCHANGED <<enabled, mode>>
               /\ \E d \in todo[a] : member' = [member EXCEPT ![d] = Adopted(d)]
            \/ /\ pc[a] = "enforce" /\ UNCHANGED <<enabled, member>>
               /\ \E d \in todo[a] : mode' = [mode EXCEPT ![d] = "policy"]
            \/ /\ pc[a] = "disable" /\ UNCHANGED <<member, mode>>
               /\ \E p \in todo[a] : enabled' = enabled \ {p}
         /\ UNCHANGED <<local, record>>
         /\ Faulty
BY ThreadTyped, CountersTyped, FaultFaults, EachTurns, EvidenceFields
   DEF CutoverRaises, ThreadOK, Steps, Guarded, Transferring, Cleaning, CountersOK,
       routeros, store

LEMMA ReadRecordEffect ==
  ASSUME TypeOK, NEW a \in Admins, ReadRecord(a)
  PROVE  /\ pc[a] = "idle"
         /\ guard' = guard
         /\ ActiveTransfer
         /\ Moves(a, "wait", "rollback", record.evidence, todo[a], bad[a])
         /\ UNCHANGED <<enabled, member, mode, local, record>>
         /\ Calm
<1>1. ThreadOK /\ CountersOK /\ record.evidence \in Evidence
  BY ThreadTyped, CountersTyped DEF TypeOK
<1>2. Moves(a, "wait", "rollback", record.evidence, todo[a], bad[a])
  BY <1>1 DEF ReadRecord, Moves, ThreadOK, Steps
<1>3. Calm
  BY <1>1, TransferCounts DEF ReadRecord, CountersOK, Calm, store
<1>. QED
  BY <1>2, <1>3 DEF ReadRecord, routeros, store

LEMMA EnterGuardEffect ==
  ASSUME TypeOK, NEW a \in Admins, EnterGuard(a)
  PROVE  /\ pc[a] = "wait"
         /\ guard = None
         /\ guard' = a
         /\ Moves(a, "check", kind[a], ev[a], todo[a], bad[a])
         /\ UNCHANGED <<enabled, member, mode, local, record>>
         /\ ~outdated' => ~outdated /\ ActiveTransfer /\ ev[a] = record.evidence
         /\ CountersOK' /\ faults' = faults /\ crashes' = crashes
BY ThreadTyped, CountersTyped
   DEF EnterGuard, ThreadOK, Steps, Guarded, Transferring, Cleaning, Moves, CountersOK,
       routeros, store, bounds

LEMMA RollbackRefusedEffect ==
  ASSUME TypeOK, NEW a \in Admins, RollbackRefused(a)
  PROVE  /\ pc[a] \in {"wait", "check"}
         /\ Ends(a)
         /\ UNCHANGED <<enabled, member, mode, local, record>>
         /\ Calm \/ (pc[a] = "check" /\ Faulty)
BY ThreadTyped, CountersTyped, FaultFaults, EndEnds
   DEF RollbackRefused, ThreadOK, Steps, Guarded, Transferring, Cleaning,
       CountersOK, Calm, routeros, store, bounds

LEMMA CheckEffect ==
  ASSUME TypeOK, NEW a \in Admins, Check(a)
  PROVE  /\ pc[a] = "check"
         /\ \/ ev[a].clean /\ Walks(a, "prove")
            \/ ~ev[a].clean /\ Turns(a, "enable", ev[a].profiles)
         /\ UNCHANGED <<enabled, member, mode, local, record>>
         /\ Calm
BY ThreadTyped, CountersTyped, EachTurns, GotoWalks, EvidenceFields
   DEF Check, ThreadOK, Steps, Guarded, Transferring, Cleaning, CountersOK,
       Calm, routeros, store, bounds

LEMMA EnableEffect ==
  ASSUME TypeOK, NEW a \in Admins, Enable(a)
  PROVE  /\ pc[a] = "enable"
         /\ \E p \in todo[a] :
              /\ Turns(a, "enable", todo[a] \ {p})
              /\ enabled' = enabled \cup {p}
         /\ UNCHANGED <<member, mode, local, record>>
         /\ Calm
BY ThreadTyped, CountersTyped
   DEF Enable, ThreadOK, Steps, Guarded, Transferring, Cleaning, Moves, Turns, Done,
       Enabled, CountersOK, Calm, store, bounds

LEMMA ToModesEffect ==
  ASSUME TypeOK, NEW a \in Admins, ToModes(a)
  PROVE  /\ pc[a] = "enable"
         /\ todo[a] = {}
         /\ Turns(a, "unmode", ev[a].devices \ ev[a].created)
         /\ UNCHANGED <<enabled, member, mode, local, record>>
         /\ Calm
BY ThreadTyped, CountersTyped, EachTurns, EvidenceFields
   DEF ToModes, ThreadOK, Steps, Guarded, Transferring, Cleaning, CountersOK,
       Calm, routeros, store, bounds

LEMMA UnmodeEffect ==
  ASSUME TypeOK, NEW a \in Admins, Unmode(a)
  PROVE  /\ pc[a] = "unmode"
         /\ guard' = guard
         /\ \E d \in todo[a] :
              \/ /\ member[d] # "none"
                 /\ Turns(a, "unmode", todo[a] \ {d})
                 /\ mode' = [mode EXCEPT ![d] = ev[a].was[d]]
              \/ /\ member[d] = "none" /\ mode' = mode
                 /\ Moves(a, "unmode", kind[a], ev[a], todo[a] \ {d}, TRUE)
         /\ UNCHANGED <<enabled, member, local, record>>
         /\ Calm
BY ThreadTyped, CountersTyped
   DEF Unmode, ThreadOK, Steps, Guarded, Transferring, Cleaning, Moves, Turns, Done,
       CountersOK, Calm, store, bounds

LEMMA ToMembersEffect ==
  ASSUME TypeOK, NEW a \in Admins, ToMembers(a)
  PROVE  /\ pc[a] = "unmode"
         /\ todo[a] = {}
         /\ Turns(a, "unadopt", Adoptable(ev[a]))
         /\ UNCHANGED <<enabled, member, mode, local, record>>
         /\ Calm
BY ThreadTyped, CountersTyped, EachTurns, AdoptableDevices
   DEF ToMembers, ThreadOK, Steps, Guarded, Transferring, Cleaning,
       CountersOK, Calm, routeros, store, bounds

LEMMA UnadoptEffect ==
  ASSUME TypeOK, NEW a \in Admins, Unadopt(a)
  PROVE  /\ pc[a] = "unadopt"
         /\ \E d \in todo[a] :
              /\ Turns(a, "unadopt", todo[a] \ {d})
              /\ member' = [member EXCEPT ![d] = Unadopted(d)]
         /\ UNCHANGED <<enabled, mode, local, record>>
         /\ Calm
BY ThreadTyped, CountersTyped
   DEF Unadopt, ThreadOK, Steps, Guarded, Transferring, Cleaning, Moves, Turns, Done,
       CountersOK, Calm, store, bounds

LEMMA ToLocalEffect ==
  ASSUME TypeOK, NEW a \in Admins, ToLocal(a)
  PROVE  /\ pc[a] = "unadopt"
         /\ todo[a] = {}
         /\ Walks(a, "unlocal")
         /\ UNCHANGED <<enabled, member, mode, local, record>>
         /\ Calm
BY ThreadTyped, CountersTyped, GotoWalks
   DEF ToLocal, ThreadOK, Steps, Guarded, Transferring, Cleaning, CountersOK,
       Calm, routeros, store, bounds

LEMMA UnlocalEffect ==
  ASSUME TypeOK, NEW a \in Admins, Unlocal(a)
  PROVE  /\ pc[a] = "unlocal"
         /\ Walks(a, "prove")
         /\ local' = (local /\ ev[a].artifacts # "owned")
         /\ UNCHANGED <<enabled, member, mode, record>>
         /\ Calm
BY ThreadTyped, CountersTyped, GotoWalks
   DEF Unlocal, ThreadOK, Steps, Guarded, Transferring, Cleaning, CountersOK, Calm,
       routeros, bounds

LEMMA ProveEffect ==
  ASSUME TypeOK, NEW a \in Admins, Prove(a)
  PROVE  /\ pc[a] = "prove"
         /\ guard' = guard
         /\ Moves(a, "close", kind[a], ev[a], todo[a], bad[a] \/ ~(ev[a].profiles \subseteq enabled))
         /\ UNCHANGED <<enabled, member, mode, local, record>>
         /\ Calm
BY ThreadTyped, CountersTyped
   DEF Prove, ThreadOK, Steps, Guarded, Transferring, Cleaning, Moves, CountersOK, Calm,
       routeros, store, bounds

LEMMA CleanupRaisesEffect ==
  ASSUME TypeOK, NEW a \in Admins, CleanupRaises(a)
  PROVE  /\ guard' = guard
         /\ FailedCall(a) \/ FailedLocal(a) \/ FailedProof(a)
         /\ record' = record
         /\ Faulty
BY ThreadTyped, CountersTyped, FaultFaults
   DEF CleanupRaises, ThreadOK, Steps, Guarded, Transferring, Cleaning, Moves, Done,
       Enabled, FailedCall, FailedLocal, FailedProof, CountersOK, routeros

LEMMA CloseEffect ==
  ASSUME TypeOK, NEW a \in Admins, Close(a)
  PROVE  /\ pc[a] = "close"
         /\ Ends(a)
         /\ \/ kind[a] = "cutover" /\ Record("failed", WithOutcome(ev[a], bad[a]))
            \/ kind[a] = "rollback" /\ ~bad[a] /\ Record("rolled_back", NoEvidence)
            \/ kind[a] = "rollback" /\ bad[a] /\ record' = record
         /\ UNCHANGED <<enabled, member, mode, local>>
         /\ Calm
BY ThreadTyped, CountersTyped, EndEnds
   DEF Close, ThreadOK, Steps, Guarded, Transferring, Cleaning, CountersOK, Calm,
       routeros, bounds

-----------------------------------------------------------------------------
(* Type correctness, and who owns the guard.                              *)

SharedOK ==
  /\ enabled \subseteq Profiles
  /\ member \in [Devices -> {"none", "own", "migration"}]
  /\ mode \in [Devices -> Modes]
  /\ local \in BOOLEAN
  /\ record \in [state : States, evidence : Evidence]

LEMMA TypeParts == TypeOK <=> SharedOK /\ ThreadOK /\ CountersOK
BY DEF TypeOK, SharedOK, ThreadOK, CountersOK, Steps

LEMMA InitTyped == Init => TypeInv
<1>. SUFFICES ASSUME Init PROVE TypeInv
  OBVIOUS
<1>1. TypeOK
  <2>1. SharedOK
    BY NoEvidenceType DEF Init, SharedOK, Modes, States
  <2>2. ThreadOK
    BY NoEvidenceType DEF Init, ThreadOK, Steps
  <2>3. CountersOK
    BY BoundsAssumption, 0 \in 0..MaxTransfers, 0 \in 0..MaxFaults, 0 \in 0..MaxCrashes
    DEF Init, CountersOK
  <2>. QED
    BY <2>1, <2>2, <2>3, TypeParts
<1>2. \A a \in Admins : FlowOK(a)
  BY AdminsAssumption DEF Init, FlowOK, Guarded, Transferring, Cleaning
<1>. QED
  BY <1>1, <1>2 DEF TypeInv

\* The step of one request leaves the guard of the others alone.
LEMMA OthersFlow ==
  ASSUME TypeInv, NEW a \in Admins, NEW l, NEW k, NEW e, NEW t, NEW b,
         Moves(a, l, k, e, t, b), FlowOK(a)',
         \A c \in Admins \ {a} : guard' = c <=> guard = c
  PROVE  \A c \in Admins : FlowOK(c)'
BY DEF TypeInv, FlowOK, Moves

LEMMA WalksFlow ==
  ASSUME TypeInv, NEW a \in Admins, NEW l, Walks(a, l), FlowOK(a)'
  PROVE  \A c \in Admins : FlowOK(c)'
BY OthersFlow DEF Walks

LEMMA TurnsFlow ==
  ASSUME TypeInv, NEW a \in Admins, NEW l, NEW t, Turns(a, l, t), FlowOK(a)'
  PROVE  \A c \in Admins : FlowOK(c)'
BY OthersFlow DEF Turns

LEMMA EndsFlow ==
  ASSUME TypeInv, NEW a \in Admins, Ends(a)
  PROVE  \A c \in Admins : FlowOK(c)'
<1>1. FlowOK(a)'
  BY AdminsAssumption DEF FlowOK, Ends, Moves, Guarded, Transferring, Cleaning
<1>2. \A c \in Admins \ {a} : guard' = c <=> guard = c
  BY AdminsAssumption DEF Ends
<1>. QED
  BY <1>1, <1>2, OthersFlow DEF Ends

LEMMA RequestTyped ==
  ASSUME TypeInv, NEW a \in Admins
  PROVE  /\ TypeOK /\ ThreadOK /\ SharedOK /\ CountersOK
         /\ ev[a] \in Evidence /\ bad[a] \in BOOLEAN
         /\ pc[a] \in {"adopt", "note", "enforce", "unmode", "unadopt"} =>
              todo[a] \subseteq Devices
         /\ pc[a] \in {"disable", "enable"} => todo[a] \subseteq Profiles
<1>1. TypeOK /\ ThreadOK /\ SharedOK /\ CountersOK
  BY TypeParts DEF TypeInv
<1>2. ev[a] \in Evidence /\ bad[a] \in BOOLEAN
  BY <1>1 DEF ThreadOK
<1>. QED
  BY <1>1, <1>2 DEF TypeInv, FlowOK

LEMMA GuardOwner ==
  ASSUME TypeInv, NEW a \in Admins
  PROVE  guard = a <=> pc[a] \in Guarded
BY DEF TypeInv, FlowOK

LEMMA StageTyped ==
  ASSUME TypeInv, NEW a \in Admins, Stage(a)
  PROVE  TypeInv'
<1>1. SharedOK'
  BY StageEffect DEF TypeInv, TypeOK, SharedOK
<1>2. ThreadOK' /\ CountersOK'
  BY StageEffect DEF TypeInv, Calm, Walks, Moves
<1>3. FlowOK(a)'
  BY StageEffect, EndsFlow, GuardOwner, EvidenceFields, AdoptableDevices, AdminsAssumption
    DEF TypeInv, ThreadOK, FlowOK, Walks, Moves, Guarded, Transferring, Cleaning
<1>4. \A c \in Admins : FlowOK(c)'
  BY <1>3, StageEffect, AdminsAssumption, WalksFlow DEF TypeInv
<1>. QED
  BY <1>1, <1>2, <1>4 DEF TypeInv, TypeOK, SharedOK, ThreadOK, CountersOK, Steps

LEMMA StageWriteTyped ==
  ASSUME TypeInv, NEW a \in Admins, StageWrite(a)
  PROVE  TypeInv'
<1>1. SharedOK'
  BY StageWriteEffect DEF TypeInv, TypeOK, SharedOK
<1>2. ThreadOK' /\ CountersOK'
  BY StageWriteEffect DEF TypeInv, Calm, Walks, Moves
<1>3. FlowOK(a)'
  BY StageWriteEffect, EndsFlow, GuardOwner, EvidenceFields, AdoptableDevices,
     AdminsAssumption
   DEF TypeInv, ThreadOK, FlowOK, Walks, Moves, Guarded, Transferring, Cleaning
<1>4. \A c \in Admins : FlowOK(c)'
  BY <1>3, StageWriteEffect, AdminsAssumption, WalksFlow DEF TypeInv
<1>. QED
  BY <1>1, <1>2, <1>4 DEF TypeInv, TypeOK, SharedOK, ThreadOK, CountersOK, Steps

LEMMA DiscardTyped ==
  ASSUME TypeInv, NEW a \in Admins, Discard(a)
  PROVE  TypeInv'
<1>1. SharedOK'
  BY DiscardEffect DEF TypeInv, TypeOK, SharedOK
<1>2. ThreadOK' /\ CountersOK'
  BY DiscardEffect DEF TypeInv, Calm, Walks, Moves
<1>3. FlowOK(a)'
  BY DiscardEffect, EndsFlow, GuardOwner, EvidenceFields, AdoptableDevices, AdminsAssumption
    DEF TypeInv, ThreadOK, FlowOK, Walks, Moves, Guarded, Transferring, Cleaning
<1>4. \A c \in Admins : FlowOK(c)'
  BY <1>3, DiscardEffect, AdminsAssumption, WalksFlow DEF TypeInv
<1>. QED
  BY <1>1, <1>2, <1>4 DEF TypeInv, TypeOK, SharedOK, ThreadOK, CountersOK, Steps

LEMMA DiscardWriteTyped ==
  ASSUME TypeInv, NEW a \in Admins, DiscardWrite(a)
  PROVE  TypeInv'
<1>1. SharedOK'
  BY DiscardWriteEffect DEF TypeInv, TypeOK, SharedOK
<1>2. ThreadOK' /\ CountersOK'
  BY DiscardWriteEffect DEF TypeInv, Calm, Walks, Moves
<1>3. FlowOK(a)'
  BY DiscardWriteEffect, EndsFlow, GuardOwner, EvidenceFields, AdoptableDevices,
     AdminsAssumption
   DEF TypeInv, ThreadOK, FlowOK, Walks, Moves, Guarded, Transferring, Cleaning
<1>4. \A c \in Admins : FlowOK(c)'
  BY <1>3, DiscardWriteEffect, AdminsAssumption, WalksFlow DEF TypeInv
<1>. QED
  BY <1>1, <1>2, <1>4 DEF TypeInv, TypeOK, SharedOK, ThreadOK, CountersOK, Steps

LEMMA BeginTyped ==
  ASSUME TypeInv, NEW a \in Admins, Begin(a)
  PROVE  TypeInv'
<1>1. SharedOK'
  BY BeginEffect DEF TypeInv, TypeOK, SharedOK
<1>2. ThreadOK' /\ CountersOK'
  BY BeginEffect DEF TypeInv, Calm, Moves
<1>3. FlowOK(a)'
  BY BeginEffect, EndsFlow, GuardOwner, EvidenceFields, AdoptableDevices, AdminsAssumption
    DEF TypeInv, ThreadOK, FlowOK, Moves, Guarded, Transferring, Cleaning
<1>4. \A c \in Admins : FlowOK(c)'
  BY <1>3, BeginEffect, AdminsAssumption, OthersFlow DEF TypeInv
<1>. QED
  BY <1>1, <1>2, <1>4 DEF TypeInv, TypeOK, SharedOK, ThreadOK, CountersOK, Steps

LEMMA ReadyTyped ==
  ASSUME TypeInv, NEW a \in Admins, Ready(a)
  PROVE  TypeInv'
<1>1. SharedOK'
  BY ReadyEffect DEF TypeInv, TypeOK, SharedOK
<1>2. ThreadOK' /\ CountersOK'
  BY ReadyEffect DEF TypeInv, Calm, Walks, Ends, Moves
<1>3. FlowOK(a)'
  BY ReadyEffect, EndsFlow, GuardOwner, EvidenceFields, AdoptableDevices, AdminsAssumption
    DEF TypeInv, ThreadOK, FlowOK, Walks, Moves, Guarded, Transferring, Cleaning
<1>4. \A c \in Admins : FlowOK(c)'
  BY <1>3, ReadyEffect, AdminsAssumption, WalksFlow, EndsFlow DEF TypeInv
<1>. QED
  BY <1>1, <1>2, <1>4 DEF TypeInv, TypeOK, SharedOK, ThreadOK, CountersOK, Steps

LEMMA ReadyRaisesTyped ==
  ASSUME TypeInv, NEW a \in Admins, ReadyRaises(a)
  PROVE  TypeInv'
<1>1. SharedOK'
  BY ReadyRaisesEffect DEF TypeInv, TypeOK, SharedOK
<1>2. ThreadOK' /\ CountersOK'
  BY ReadyRaisesEffect DEF TypeInv, Faulty, Ends, Moves
<1>3. \A c \in Admins : FlowOK(c)'
  BY ReadyRaisesEffect, EndsFlow DEF TypeInv
<1>. QED
  BY <1>1, <1>2, <1>3 DEF TypeInv, TypeOK, SharedOK, ThreadOK, CountersOK, Steps

LEMMA ContractTyped ==
  ASSUME TypeInv, NEW a \in Admins, Contract(a)
  PROVE  TypeInv'
<1>1. SharedOK'
  BY ContractEffect DEF TypeInv, TypeOK, SharedOK
<1>2. ThreadOK' /\ CountersOK'
  BY ContractEffect DEF TypeInv, Calm, Moves
<1>3. FlowOK(a)'
  BY ContractEffect, EndsFlow, GuardOwner, EvidenceFields, AdoptableDevices,
     AdminsAssumption
   DEF TypeInv, ThreadOK, FlowOK, Moves, Guarded, Transferring, Cleaning
<1>4. \A c \in Admins : FlowOK(c)'
  BY <1>3, ContractEffect, AdminsAssumption, OthersFlow DEF TypeInv
<1>. QED
  BY <1>1, <1>2, <1>4 DEF TypeInv, TypeOK, SharedOK, ThreadOK, CountersOK, Steps

LEMMA MaterializeTyped ==
  ASSUME TypeInv, NEW a \in Admins, Materialize(a)
  PROVE  TypeInv'
<1>0. SharedOK /\ ThreadOK
  BY TypeParts DEF TypeInv
<1>1. SharedOK'
  BY <1>0, MaterializeEffect DEF TypeInv, SharedOK, ThreadOK
<1>2. ThreadOK' /\ CountersOK'
  BY MaterializeEffect DEF TypeInv, Calm, Moves
<1>3. FlowOK(a)'
  BY MaterializeEffect, EndsFlow, GuardOwner, EvidenceFields, AdoptableDevices,
     AdminsAssumption
   DEF TypeInv, ThreadOK, FlowOK, Moves, Guarded, Transferring, Cleaning
<1>4. \A c \in Admins : FlowOK(c)'
  BY <1>3, MaterializeEffect, AdminsAssumption, OthersFlow DEF TypeInv
<1>. QED
  BY <1>1, <1>2, <1>4 DEF TypeInv, TypeOK, SharedOK, ThreadOK, CountersOK, Steps

LEMMA PreparedTyped ==
  ASSUME TypeInv, NEW a \in Admins, Prepared(a)
  PROVE  TypeInv'
<1>0. SharedOK /\ ThreadOK
  BY TypeParts DEF TypeInv
<1>1. SharedOK'
  BY <1>0, PreparedEffect DEF TypeInv, SharedOK, ThreadOK, Record, States
<1>2. ThreadOK' /\ CountersOK'
  BY PreparedEffect DEF TypeInv, Calm, Turns, Moves
<1>3. FlowOK(a)'
  BY PreparedEffect, EndsFlow, GuardOwner, EvidenceFields, AdoptableDevices,
     AdminsAssumption
   DEF TypeInv, ThreadOK, FlowOK, Turns, Moves, Guarded, Transferring, Cleaning
<1>4. \A c \in Admins : FlowOK(c)'
  BY <1>3, PreparedEffect, AdminsAssumption, TurnsFlow DEF TypeInv
<1>. QED
  BY <1>1, <1>2, <1>4 DEF TypeInv, TypeOK, SharedOK, ThreadOK, CountersOK, Steps

LEMMA AdoptTyped ==
  ASSUME TypeInv, NEW a \in Admins, Adopt(a)
  PROVE  TypeInv'
<1>1. SharedOK'
  BY RequestTyped, AdoptEffect DEF SharedOK, Adopted
<1>2. ThreadOK' /\ CountersOK'
  BY AdoptEffect DEF TypeInv, Calm, Moves
<1>3. FlowOK(a)'
  BY AdoptEffect, EndsFlow, GuardOwner, EvidenceFields, AdoptableDevices, AdminsAssumption
    DEF TypeInv, ThreadOK, FlowOK, Moves, Guarded, Transferring, Cleaning
<1>4. \A c \in Admins : FlowOK(c)'
  BY <1>3, AdoptEffect, AdminsAssumption, OthersFlow DEF TypeInv
<1>. QED
  BY <1>1, <1>2, <1>4 DEF TypeInv, TypeOK, SharedOK, ThreadOK, CountersOK, Steps

LEMMA NoteTyped ==
  ASSUME TypeInv, NEW a \in Admins, Note(a)
  PROVE  TypeInv'
<1>0. SharedOK /\ ThreadOK
  BY TypeParts DEF TypeInv
<1>1. SharedOK'
  BY <1>0, NoteEffect DEF TypeInv, SharedOK, ThreadOK, Record, States
<1>2. ThreadOK' /\ CountersOK'
  BY NoteEffect DEF TypeInv, Calm, Walks, Turns, Moves
<1>3. FlowOK(a)'
  BY NoteEffect, EndsFlow, GuardOwner, EvidenceFields, AdoptableDevices, AdminsAssumption
    DEF TypeInv, ThreadOK, FlowOK, Walks, Turns, Moves, Guarded, Transferring, Cleaning
<1>4. \A c \in Admins : FlowOK(c)'
  BY <1>3, NoteEffect, AdminsAssumption, WalksFlow, TurnsFlow DEF TypeInv
<1>. QED
  BY <1>1, <1>2, <1>4 DEF TypeInv, TypeOK, SharedOK, ThreadOK, CountersOK, Steps

LEMMA EnforceTyped ==
  ASSUME TypeInv, NEW a \in Admins, Enforce(a)
  PROVE  TypeInv'
<1>0. SharedOK /\ ThreadOK
  BY TypeParts DEF TypeInv
<1>1. SharedOK'
  BY <1>0, EnforceEffect DEF TypeInv, SharedOK, ThreadOK, FlowOK, Modes
<1>2. ThreadOK' /\ CountersOK'
  BY EnforceEffect DEF TypeInv, Calm, Turns, Moves
<1>3. FlowOK(a)'
  BY EnforceEffect, EndsFlow, GuardOwner, EvidenceFields, AdoptableDevices, AdminsAssumption
    DEF TypeInv, ThreadOK, FlowOK, Turns, Moves, Guarded, Transferring, Cleaning
<1>4. \A c \in Admins : FlowOK(c)'
  BY <1>3, EnforceEffect, AdminsAssumption, TurnsFlow DEF TypeInv
<1>. QED
  BY <1>1, <1>2, <1>4 DEF TypeInv, TypeOK, SharedOK, ThreadOK, CountersOK, Steps

LEMMA ProvenTyped ==
  ASSUME TypeInv, NEW a \in Admins, Proven(a)
  PROVE  TypeInv'
<1>0. SharedOK /\ ThreadOK
  BY TypeParts DEF TypeInv
<1>1. SharedOK'
  BY <1>0, ProvenEffect DEF TypeInv, SharedOK, ThreadOK, Record, States
<1>2. ThreadOK' /\ CountersOK'
  BY ProvenEffect DEF TypeInv, Calm, Turns, Moves
<1>3. FlowOK(a)'
  BY ProvenEffect, EndsFlow, GuardOwner, EvidenceFields, AdoptableDevices, AdminsAssumption
    DEF TypeInv, ThreadOK, FlowOK, Turns, Moves, Guarded, Transferring, Cleaning
<1>4. \A c \in Admins : FlowOK(c)'
  BY <1>3, ProvenEffect, AdminsAssumption, TurnsFlow DEF TypeInv
<1>. QED
  BY <1>1, <1>2, <1>4 DEF TypeInv, TypeOK, SharedOK, ThreadOK, CountersOK, Steps

LEMMA DisableTyped ==
  ASSUME TypeInv, NEW a \in Admins, Disable(a)
  PROVE  TypeInv'
<1>0. SharedOK /\ ThreadOK
  BY TypeParts DEF TypeInv
<1>1. SharedOK'
  BY <1>0, DisableEffect DEF TypeInv, SharedOK, ThreadOK
<1>2. ThreadOK' /\ CountersOK'
  BY DisableEffect DEF TypeInv, Calm, Turns, Moves
<1>3. FlowOK(a)'
  BY DisableEffect, EndsFlow, GuardOwner, EvidenceFields, AdoptableDevices, AdminsAssumption
    DEF TypeInv, ThreadOK, FlowOK, Turns, Moves, Guarded, Transferring, Cleaning
<1>4. \A c \in Admins : FlowOK(c)'
  BY <1>3, DisableEffect, AdminsAssumption, TurnsFlow DEF TypeInv
<1>. QED
  BY <1>1, <1>2, <1>4 DEF TypeInv, TypeOK, SharedOK, ThreadOK, CountersOK, Steps

LEMMA DisabledTyped ==
  ASSUME TypeInv, NEW a \in Admins, Disabled(a)
  PROVE  TypeInv'
<1>1. SharedOK'
  BY DisabledEffect DEF TypeInv, TypeOK, SharedOK
<1>2. ThreadOK' /\ CountersOK'
  BY DisabledEffect DEF TypeInv, Calm, Walks, Moves
<1>3. FlowOK(a)'
  BY DisabledEffect, EndsFlow, GuardOwner, EvidenceFields, AdoptableDevices,
     AdminsAssumption
   DEF TypeInv, ThreadOK, FlowOK, Walks, Moves, Guarded, Transferring, Cleaning
<1>4. \A c \in Admins : FlowOK(c)'
  BY <1>3, DisabledEffect, AdminsAssumption, WalksFlow DEF TypeInv
<1>. QED
  BY <1>1, <1>2, <1>4 DEF TypeInv, TypeOK, SharedOK, ThreadOK, CountersOK, Steps

LEMMA AuthoritativeTyped ==
  ASSUME TypeInv, NEW a \in Admins, Authoritative(a)
  PROVE  TypeInv'
<1>0. SharedOK /\ ThreadOK
  BY TypeParts DEF TypeInv
<1>1. SharedOK'
  BY <1>0, AuthoritativeEffect DEF TypeInv, SharedOK, ThreadOK, Record, States
<1>2. ThreadOK' /\ CountersOK'
  BY AuthoritativeEffect DEF TypeInv, Calm, Ends, Moves
<1>3. \A c \in Admins : FlowOK(c)'
  BY AuthoritativeEffect, EndsFlow DEF TypeInv
<1>. QED
  BY <1>1, <1>2, <1>3 DEF TypeInv, TypeOK, SharedOK, ThreadOK, CountersOK, Steps

LEMMA CutoverRaisesTyped ==
  ASSUME TypeInv, NEW a \in Admins, CutoverRaises(a)
  PROVE  TypeInv'
<1>0. SharedOK /\ ThreadOK
  BY TypeParts DEF TypeInv
<1>1. SharedOK'
  BY <1>0, CutoverRaisesEffect DEF TypeInv, SharedOK, ThreadOK, Adopted, FlowOK, Modes
<1>2. ThreadOK' /\ CountersOK'
  BY CutoverRaisesEffect DEF TypeInv, Faulty, Turns, Moves
<1>3. FlowOK(a)'
  BY CutoverRaisesEffect, EndsFlow, GuardOwner, EvidenceFields, AdoptableDevices,
     AdminsAssumption
   DEF TypeInv, ThreadOK, FlowOK, Turns, Moves, Guarded, Transferring, Cleaning
<1>4. \A c \in Admins : FlowOK(c)'
  BY <1>3, CutoverRaisesEffect, AdminsAssumption, TurnsFlow DEF TypeInv
<1>. QED
  BY <1>1, <1>2, <1>4 DEF TypeInv, TypeOK, SharedOK, ThreadOK, CountersOK, Steps

LEMMA ReadRecordTyped ==
  ASSUME TypeInv, NEW a \in Admins, ReadRecord(a)
  PROVE  TypeInv'
<1>1. SharedOK'
  BY ReadRecordEffect DEF TypeInv, TypeOK, SharedOK
<1>2. ThreadOK' /\ CountersOK'
  BY ReadRecordEffect DEF TypeInv, Calm, Moves
<1>3. FlowOK(a)'
  BY ReadRecordEffect, EndsFlow, GuardOwner, EvidenceFields, AdoptableDevices,
     AdminsAssumption
   DEF TypeInv, ThreadOK, FlowOK, Moves, Guarded, Transferring, Cleaning
<1>4. \A c \in Admins : FlowOK(c)'
  BY <1>3, ReadRecordEffect, AdminsAssumption, OthersFlow DEF TypeInv
<1>. QED
  BY <1>1, <1>2, <1>4 DEF TypeInv, TypeOK, SharedOK, ThreadOK, CountersOK, Steps

LEMMA EnterGuardTyped ==
  ASSUME TypeInv, NEW a \in Admins, EnterGuard(a)
  PROVE  TypeInv'
<1>1. SharedOK'
  BY EnterGuardEffect DEF TypeInv, TypeOK, SharedOK
<1>2. ThreadOK' /\ CountersOK'
  BY EnterGuardEffect DEF TypeInv, Moves
<1>3. FlowOK(a)'
  BY EnterGuardEffect, EndsFlow, GuardOwner, EvidenceFields, AdoptableDevices,
     AdminsAssumption
   DEF TypeInv, ThreadOK, FlowOK, Moves, Guarded, Transferring, Cleaning
<1>4. \A c \in Admins : FlowOK(c)'
  BY <1>3, EnterGuardEffect, AdminsAssumption, OthersFlow DEF TypeInv
<1>. QED
  BY <1>1, <1>2, <1>4 DEF TypeInv, TypeOK, SharedOK, ThreadOK, CountersOK, Steps

LEMMA RollbackRefusedTyped ==
  ASSUME TypeInv, NEW a \in Admins, RollbackRefused(a)
  PROVE  TypeInv'
<1>1. SharedOK'
  BY RollbackRefusedEffect DEF TypeInv, TypeOK, SharedOK
<1>2. ThreadOK' /\ CountersOK'
  BY RollbackRefusedEffect DEF TypeInv, Calm, Faulty, Ends, Moves
<1>3. \A c \in Admins : FlowOK(c)'
  BY RollbackRefusedEffect, EndsFlow DEF TypeInv
<1>. QED
  BY <1>1, <1>2, <1>3 DEF TypeInv, TypeOK, SharedOK, ThreadOK, CountersOK, Steps

LEMMA CheckTyped ==
  ASSUME TypeInv, NEW a \in Admins, Check(a)
  PROVE  TypeInv'
<1>1. SharedOK'
  BY CheckEffect DEF TypeInv, TypeOK, SharedOK
<1>2. ThreadOK' /\ CountersOK'
  BY CheckEffect DEF TypeInv, Calm, Walks, Turns, Moves
<1>3. FlowOK(a)'
  BY CheckEffect, EndsFlow, GuardOwner, EvidenceFields, AdoptableDevices, AdminsAssumption
    DEF TypeInv, ThreadOK, FlowOK, Walks, Turns, Moves, Guarded, Transferring, Cleaning
<1>4. \A c \in Admins : FlowOK(c)'
  BY <1>3, CheckEffect, AdminsAssumption, WalksFlow, TurnsFlow DEF TypeInv
<1>. QED
  BY <1>1, <1>2, <1>4 DEF TypeInv, TypeOK, SharedOK, ThreadOK, CountersOK, Steps

LEMMA EnableTyped ==
  ASSUME TypeInv, NEW a \in Admins, Enable(a)
  PROVE  TypeInv'
<1>1. SharedOK'
  BY RequestTyped, EnableEffect DEF SharedOK
<1>2. ThreadOK' /\ CountersOK'
  BY EnableEffect DEF TypeInv, Calm, Turns, Moves
<1>3. FlowOK(a)'
  BY EnableEffect, EndsFlow, GuardOwner, EvidenceFields, AdoptableDevices, AdminsAssumption
    DEF TypeInv, ThreadOK, FlowOK, Turns, Moves, Guarded, Transferring, Cleaning
<1>4. \A c \in Admins : FlowOK(c)'
  BY <1>3, EnableEffect, AdminsAssumption, TurnsFlow DEF TypeInv
<1>. QED
  BY <1>1, <1>2, <1>4 DEF TypeInv, TypeOK, SharedOK, ThreadOK, CountersOK, Steps

LEMMA ToModesTyped ==
  ASSUME TypeInv, NEW a \in Admins, ToModes(a)
  PROVE  TypeInv'
<1>1. SharedOK'
  BY ToModesEffect DEF TypeInv, TypeOK, SharedOK
<1>2. ThreadOK' /\ CountersOK'
  BY ToModesEffect DEF TypeInv, Calm, Turns, Moves
<1>3. FlowOK(a)'
  BY ToModesEffect, EndsFlow, GuardOwner, EvidenceFields, AdoptableDevices, AdminsAssumption
    DEF TypeInv, ThreadOK, FlowOK, Turns, Moves, Guarded, Transferring, Cleaning
<1>4. \A c \in Admins : FlowOK(c)'
  BY <1>3, ToModesEffect, AdminsAssumption, TurnsFlow DEF TypeInv
<1>. QED
  BY <1>1, <1>2, <1>4 DEF TypeInv, TypeOK, SharedOK, ThreadOK, CountersOK, Steps

LEMMA UnmodeTyped ==
  ASSUME TypeInv, NEW a \in Admins, Unmode(a)
  PROVE  TypeInv'
<1>1. SharedOK'
  <2>1. todo[a] \subseteq Devices /\ ev[a].was \in [Devices -> Modes]
    BY RequestTyped, UnmodeEffect, EvidenceFields
  <2>. QED
    BY <2>1, RequestTyped, UnmodeEffect DEF SharedOK
<1>2. ThreadOK' /\ CountersOK'
  BY UnmodeEffect DEF TypeInv, Calm, Turns, Moves
<1>3. FlowOK(a)'
  BY RequestTyped, UnmodeEffect, GuardOwner
    DEF FlowOK, TypeInv, Turns, Moves, Guarded, Transferring, Cleaning
<1>4. \A c \in Admins : FlowOK(c)'
  BY <1>3, UnmodeEffect, AdminsAssumption, TurnsFlow, OthersFlow DEF TypeInv
<1>. QED
  BY <1>1, <1>2, <1>4 DEF TypeInv, TypeOK, SharedOK, ThreadOK, CountersOK, Steps

LEMMA ToMembersTyped ==
  ASSUME TypeInv, NEW a \in Admins, ToMembers(a)
  PROVE  TypeInv'
<1>1. SharedOK'
  BY ToMembersEffect DEF TypeInv, TypeOK, SharedOK
<1>2. ThreadOK' /\ CountersOK'
  BY ToMembersEffect DEF TypeInv, Calm, Turns, Moves
<1>3. FlowOK(a)'
  BY ToMembersEffect, EndsFlow, GuardOwner, EvidenceFields, AdoptableDevices,
     AdminsAssumption
   DEF TypeInv, ThreadOK, FlowOK, Turns, Moves, Guarded, Transferring, Cleaning
<1>4. \A c \in Admins : FlowOK(c)'
  BY <1>3, ToMembersEffect, AdminsAssumption, TurnsFlow DEF TypeInv
<1>. QED
  BY <1>1, <1>2, <1>4 DEF TypeInv, TypeOK, SharedOK, ThreadOK, CountersOK, Steps

LEMMA UnadoptTyped ==
  ASSUME TypeInv, NEW a \in Admins, Unadopt(a)
  PROVE  TypeInv'
<1>1. SharedOK'
  BY RequestTyped, UnadoptEffect DEF SharedOK, Unadopted
<1>2. ThreadOK' /\ CountersOK'
  BY UnadoptEffect DEF TypeInv, Calm, Turns, Moves
<1>3. FlowOK(a)'
  BY UnadoptEffect, EndsFlow, GuardOwner, EvidenceFields, AdoptableDevices, AdminsAssumption
    DEF TypeInv, ThreadOK, FlowOK, Turns, Moves, Guarded, Transferring, Cleaning
<1>4. \A c \in Admins : FlowOK(c)'
  BY <1>3, UnadoptEffect, AdminsAssumption, TurnsFlow DEF TypeInv
<1>. QED
  BY <1>1, <1>2, <1>4 DEF TypeInv, TypeOK, SharedOK, ThreadOK, CountersOK, Steps

LEMMA ToLocalTyped ==
  ASSUME TypeInv, NEW a \in Admins, ToLocal(a)
  PROVE  TypeInv'
<1>1. SharedOK'
  BY ToLocalEffect DEF TypeInv, TypeOK, SharedOK
<1>2. ThreadOK' /\ CountersOK'
  BY ToLocalEffect DEF TypeInv, Calm, Walks, Moves
<1>3. FlowOK(a)'
  BY ToLocalEffect, EndsFlow, GuardOwner, EvidenceFields, AdoptableDevices, AdminsAssumption
    DEF TypeInv, ThreadOK, FlowOK, Walks, Moves, Guarded, Transferring, Cleaning
<1>4. \A c \in Admins : FlowOK(c)'
  BY <1>3, ToLocalEffect, AdminsAssumption, WalksFlow DEF TypeInv
<1>. QED
  BY <1>1, <1>2, <1>4 DEF TypeInv, TypeOK, SharedOK, ThreadOK, CountersOK, Steps

LEMMA UnlocalTyped ==
  ASSUME TypeInv, NEW a \in Admins, Unlocal(a)
  PROVE  TypeInv'
<1>0. SharedOK /\ ThreadOK
  BY TypeParts DEF TypeInv
<1>1. SharedOK'
  BY <1>0, UnlocalEffect DEF TypeInv, SharedOK, ThreadOK
<1>2. ThreadOK' /\ CountersOK'
  BY UnlocalEffect DEF TypeInv, Calm, Walks, Moves
<1>3. FlowOK(a)'
  BY UnlocalEffect, EndsFlow, GuardOwner, EvidenceFields, AdoptableDevices, AdminsAssumption
    DEF TypeInv, ThreadOK, FlowOK, Walks, Moves, Guarded, Transferring, Cleaning
<1>4. \A c \in Admins : FlowOK(c)'
  BY <1>3, UnlocalEffect, AdminsAssumption, WalksFlow DEF TypeInv
<1>. QED
  BY <1>1, <1>2, <1>4 DEF TypeInv, TypeOK, SharedOK, ThreadOK, CountersOK, Steps

LEMMA ProveTyped ==
  ASSUME TypeInv, NEW a \in Admins, Prove(a)
  PROVE  TypeInv'
<1>1. SharedOK'
  BY ProveEffect DEF TypeInv, TypeOK, SharedOK
<1>2. ThreadOK' /\ CountersOK'
  BY ProveEffect DEF TypeInv, Calm, Moves
<1>3. FlowOK(a)'
  BY ProveEffect, EndsFlow, GuardOwner, EvidenceFields, AdoptableDevices, AdminsAssumption
    DEF TypeInv, ThreadOK, FlowOK, Moves, Guarded, Transferring, Cleaning
<1>4. \A c \in Admins : FlowOK(c)'
  BY <1>3, ProveEffect, AdminsAssumption, OthersFlow DEF TypeInv
<1>. QED
  BY <1>1, <1>2, <1>4 DEF TypeInv, TypeOK, SharedOK, ThreadOK, CountersOK, Steps

LEMMA CleanupRaisesTyped ==
  ASSUME TypeInv, NEW a \in Admins, CleanupRaises(a)
  PROVE  TypeInv'
<1>1. SharedOK'
  <2>1. ev[a].was \in [Devices -> Modes]
    BY RequestTyped, EvidenceFields
  <2>2. ASSUME FailedCall(a) PROVE SharedOK'
    <3>1. PICK x \in todo[a] :
            \/ UNCHANGED <<enabled, member, mode>>
            \/ /\ pc[a] = "enable" /\ UNCHANGED <<member, mode>>
               /\ enabled' = enabled \cup {x}
            \/ /\ pc[a] = "unmode" /\ UNCHANGED <<enabled, member>>
               /\ mode' = [mode EXCEPT ![x] = ev[a].was[x]]
            \/ /\ pc[a] = "unadopt" /\ UNCHANGED <<enabled, mode>>
               /\ member' = [member EXCEPT ![x] = Unadopted(x)]
      BY <2>2 DEF FailedCall
    <3>2. UNCHANGED <<local, record>>
      BY <2>2, RequestTyped, CleanupRaisesEffect DEF FailedCall
    <3>. QED
      BY <2>1, <3>1, <3>2, RequestTyped DEF SharedOK, Unadopted
  <2>3. ASSUME FailedLocal(a) PROVE SharedOK'
    BY <2>3, RequestTyped, CleanupRaisesEffect DEF FailedLocal, SharedOK
  <2>4. ASSUME FailedProof(a) PROVE SharedOK'
    BY <2>4, RequestTyped, CleanupRaisesEffect DEF FailedProof, SharedOK
  <2>. QED
    BY <2>2, <2>3, <2>4, RequestTyped, CleanupRaisesEffect
<1>2. ThreadOK' /\ CountersOK'
  BY CleanupRaisesEffect DEF TypeInv, Faulty, Moves, FailedCall, FailedLocal, FailedProof
<1>3. FlowOK(a)'
  <2>1. FlowOK(a) /\ guard' = guard
    BY RequestTyped, CleanupRaisesEffect DEF TypeInv
  <2>2. ASSUME FailedCall(a) PROVE FlowOK(a)'
    BY <2>1, <2>2 DEF FailedCall, FlowOK, Moves, Guarded, Transferring, Cleaning
  <2>3. ASSUME FailedLocal(a) PROVE FlowOK(a)'
    BY <2>1, <2>3 DEF FailedLocal, FlowOK, Moves, Guarded, Transferring, Cleaning
  <2>4. ASSUME FailedProof(a) PROVE FlowOK(a)'
    BY <2>1, <2>4 DEF FailedProof, FlowOK, Moves, Guarded, Transferring, Cleaning
  <2>. QED
    BY <2>2, <2>3, <2>4, RequestTyped, CleanupRaisesEffect
<1>4. \A c \in Admins : FlowOK(c)'
  BY <1>3, CleanupRaisesEffect, AdminsAssumption, OthersFlow
  DEF TypeInv, FailedCall, FailedLocal, FailedProof
<1>. QED
  BY <1>1, <1>2, <1>4 DEF TypeInv, TypeOK, SharedOK, ThreadOK, CountersOK, Steps

LEMMA CloseTyped ==
  ASSUME TypeInv, NEW a \in Admins, Close(a)
  PROVE  TypeInv'
<1>1. SharedOK'
  <2>1. ev[a] \in Evidence /\ WithOutcome(ev[a], bad[a]) \in Evidence
    BY RequestTyped, WithOutcomeEffect
  <2>. QED
    BY <2>1, RequestTyped, CloseEffect, NoEvidenceType DEF SharedOK, Record, States
<1>2. ThreadOK' /\ CountersOK'
  BY CloseEffect DEF TypeInv, Calm, Ends, Moves
<1>3. \A c \in Admins : FlowOK(c)'
  BY CloseEffect, EndsFlow DEF TypeInv
<1>. QED
  BY <1>1, <1>2, <1>3 DEF TypeInv, TypeOK, SharedOK, ThreadOK, CountersOK, Steps

Dead(c) ==
  pc'[c] = "idle" /\ kind'[c] = "none" /\ ev'[c] = NoEvidence /\ todo'[c] = {} /\ bad'[c] = FALSE
Alive(c) ==
  /\ pc'[c] = pc[c] /\ kind'[c] = kind[c] /\ ev'[c] = ev[c]
  /\ todo'[c] = todo[c] /\ bad'[c] = bad[c]

LEMMA CrashEffect ==
  ASSUME TypeOK, Crash
  PROVE  /\ ThreadOK'
         /\ \A c \in Admins : \/ Dead(c) /\ guard' # c
                              \/ Alive(c) /\ (guard' = c <=> guard = c)
         /\ guard' \in {guard, None}
         /\ UNCHANGED <<enabled, member, mode, local, record>>
         /\ CountersOK' /\ faults' = faults /\ crashes' = crashes + 1 /\ outdated' = outdated
<1>1. PICK dead \in {Admins} \cup {{a} : a \in Admins} :
        /\ pc' = [a \in Admins |-> IF a \in dead THEN "idle" ELSE pc[a]]
        /\ kind' = [a \in Admins |-> IF a \in dead THEN "none" ELSE kind[a]]
        /\ ev' = [a \in Admins |-> IF a \in dead THEN NoEvidence ELSE ev[a]]
        /\ todo' = [a \in Admins |-> IF a \in dead THEN {} ELSE todo[a]]
        /\ bad' = [a \in Admins |-> bad[a] /\ a \notin dead]
        /\ guard' = IF guard \in dead THEN None ELSE guard
  BY DEF Crash
<1>2. ThreadOK /\ CountersOK
  BY TypeParts
<1>3. ThreadOK'
  <2>1. /\ pc' \in [Admins -> Steps]
        /\ kind' \in [Admins -> {"none", "cutover", "rollback"}]
        /\ ev' \in [Admins -> Evidence]
        /\ todo' \in [Admins -> SUBSET (Devices \cup Profiles)]
    BY <1>1, <1>2, NoEvidenceType DEF ThreadOK, Steps
  <2>2. bad' \in [Admins -> BOOLEAN]
    BY <1>1, <1>2 DEF ThreadOK
  <2>. QED
    BY <1>1, <1>2, <2>1, <2>2 DEF ThreadOK
<1>4. \A c \in Admins : \/ Dead(c) /\ guard' # c
                        \/ Alive(c) /\ (guard' = c <=> guard = c)
  <2>. TAKE c \in Admins
  <2>1. ASSUME c \in dead PROVE Dead(c) /\ guard' # c
    <3>1. bad'[c] = FALSE
      BY <1>1, <2>1
    <3>. QED
      BY <1>1, <2>1, <3>1, AdminsAssumption DEF Dead
  <2>2. ASSUME c \notin dead PROVE Alive(c) /\ (guard' = c <=> guard = c)
    <3>1. bad'[c] = bad[c]
      BY <1>1, <1>2, <2>2 DEF ThreadOK
    <3>. QED
      BY <1>1, <2>2, <3>1, AdminsAssumption DEF Alive
  <2>. QED
    BY <2>1, <2>2
<1>5. CountersOK' /\ faults' = faults /\ crashes' = crashes + 1 /\ outdated' = outdated
  BY <1>2, BoundsAssumption DEF Crash, CountersOK, store
<1>. QED
  BY <1>1, <1>3, <1>4, <1>5 DEF Crash, routeros, store

LEMMA CrashTyped ==
  ASSUME TypeInv, Crash
  PROVE  TypeInv'
<1>1. TypeOK'
  BY CrashEffect DEF TypeInv, TypeOK, ThreadOK, CountersOK, Steps
<1>2. \A c \in Admins : FlowOK(c)'
  <2>. TAKE c \in Admins
  <2>1. FlowOK(c)
    BY DEF TypeInv
  <2>2. ASSUME Dead(c), guard' # c PROVE FlowOK(c)'
    BY <2>2 DEF FlowOK, Dead, Guarded, Transferring, Cleaning
  <2>3. ASSUME Alive(c), guard' = c <=> guard = c PROVE FlowOK(c)'
    BY <2>1, <2>3 DEF FlowOK, Alive
  <2>. QED
    BY <2>2, <2>3, CrashEffect DEF TypeInv
<1>. QED
  BY <1>1, <1>2 DEF TypeInv

LEMMA ReconcileEffect ==
  ASSUME TypeOK, NEW d \in Devices, Reconcile(d)
  PROVE  /\ guard = None /\ member[d] # "none"
         /\ mode' = [mode EXCEPT ![d] = IF local THEN "policy" ELSE "before"]
         /\ UNCHANGED <<enabled, member, local, record, guard, pc, kind, ev, todo, bad>>
         /\ Calm
<1>1. CountersOK
  BY CountersTyped
<1>. QED
  BY <1>1 DEF Reconcile, store, thread, bounds, Calm, CountersOK

LEMMA ReconcileTyped ==
  ASSUME TypeInv, NEW d \in Devices, Reconcile(d)
  PROVE  TypeInv'
<1>1. SharedOK /\ ThreadOK
  BY TypeParts DEF TypeInv
<1>2. SharedOK'
  BY <1>1, ReconcileEffect DEF TypeInv, SharedOK, Modes
<1>3. ThreadOK' /\ CountersOK'
  BY <1>1, ReconcileEffect DEF TypeInv, ThreadOK, Calm
<1>4. \A c \in Admins : FlowOK(c)'
  BY ReconcileEffect DEF TypeInv, FlowOK
<1>. QED
  BY <1>2, <1>3, <1>4 DEF TypeInv, TypeOK, SharedOK, ThreadOK, CountersOK, Steps

\* LegacyEdit and stuttering concern the staged proposal at most.
Aside ==
  /\ UNCHANGED <<enabled, member, mode, local, record, guard, pc, kind, ev, todo, bad>>
  /\ Calm

LEMMA AsideEffect ==
  ASSUME TypeOK, LegacyEdit \/ UNCHANGED vars
  PROVE  Aside
<1>1. CountersOK
  BY CountersTyped
<1>2. ASSUME LegacyEdit PROVE Aside
  BY <1>1, <1>2 DEF LegacyEdit, routeros, thread, bounds, Aside, Calm, CountersOK
<1>3. ASSUME UNCHANGED vars PROVE Aside
  BY <1>1, <1>3 DEF vars, routeros, store, thread, bounds, Aside, Calm, CountersOK
<1>. QED
  BY <1>2, <1>3

LEMMA AsideTyped ==
  ASSUME TypeInv, Aside
  PROVE  TypeInv'
<1>1. SharedOK /\ ThreadOK
  BY TypeParts DEF TypeInv
<1>2. SharedOK'
  BY <1>1 DEF Aside, SharedOK
<1>3. ThreadOK' /\ CountersOK'
  BY <1>1 DEF Aside, ThreadOK, Calm
<1>4. \A c \in Admins : FlowOK(c)'
  BY DEF Aside, TypeInv, FlowOK
<1>. QED
  BY <1>2, <1>3, <1>4 DEF TypeInv, TypeOK, SharedOK, ThreadOK, CountersOK, Steps

\* A step of one request leaves the others alone, and so does it what they all
\* see, unless it owns the guard or takes it.
Frames(a) ==
  /\ \A c \in Admins \ {a} : Alive(c)
  /\ guard \in {a, None} \/ UNCHANGED <<enabled, member, mode, local, record, faults>>
  /\ outdated => outdated'
  /\ faults' \in {faults, faults + 1} /\ crashes' = crashes

LEMMA StagingFrames ==
  ASSUME TypeInv, NEW a \in Admins, Staging(a)
  PROVE  Frames(a)
<1>. USE RequestTyped, GuardOwner
  DEF Frames, Alive, Moves, Walks, Turns, Ends, Guarded, Transferring, Cleaning, Calm, Faulty
<1>1. ASSUME Stage(a) PROVE Frames(a)
  BY <1>1, StageEffect
<1>2. ASSUME StageWrite(a) PROVE Frames(a)
  BY <1>2, StageWriteEffect
<1>3. ASSUME Discard(a) PROVE Frames(a)
  BY <1>3, DiscardEffect
<1>4. ASSUME DiscardWrite(a) PROVE Frames(a)
  BY <1>4, DiscardWriteEffect
<1>. QED
  BY ONLY Staging(a), <1>1, <1>2, <1>3, <1>4 DEF Staging

LEMMA CutoverFrames ==
  ASSUME TypeInv, NEW a \in Admins, Cutover(a)
  PROVE  Frames(a)
<1>. USE RequestTyped, GuardOwner
  DEF Frames, Alive, Moves, Walks, Turns, Ends, Guarded, Transferring, Cleaning, Calm, Faulty
<1>1. ASSUME Begin(a) PROVE Frames(a)
  BY <1>1, BeginEffect
<1>2. ASSUME Ready(a) PROVE Frames(a)
  BY <1>2, ReadyEffect
<1>3. ASSUME ReadyRaises(a) PROVE Frames(a)
  BY <1>3, ReadyRaisesEffect
<1>4. ASSUME Contract(a) PROVE Frames(a)
  BY <1>4, ContractEffect
<1>5. ASSUME Materialize(a) PROVE Frames(a)
  BY <1>5, MaterializeEffect
<1>6. ASSUME Prepared(a) PROVE Frames(a)
  BY <1>6, PreparedEffect
<1>7. ASSUME Adopt(a) PROVE Frames(a)
  BY <1>7, AdoptEffect
<1>8. ASSUME Note(a) PROVE Frames(a)
  BY <1>8, NoteEffect
<1>9. ASSUME Enforce(a) PROVE Frames(a)
  BY <1>9, EnforceEffect
<1>10. ASSUME Proven(a) PROVE Frames(a)
  BY <1>10, ProvenEffect
<1>11. ASSUME Disable(a) PROVE Frames(a)
  BY <1>11, DisableEffect
<1>12. ASSUME Disabled(a) PROVE Frames(a)
  BY <1>12, DisabledEffect
<1>13. ASSUME Authoritative(a) PROVE Frames(a)
  BY <1>13, AuthoritativeEffect
<1>14. ASSUME CutoverRaises(a) PROVE Frames(a)
  BY <1>14, CutoverRaisesEffect
<1>. QED
  BY ONLY Cutover(a), <1>1, <1>2, <1>3, <1>4, <1>5, <1>6, <1>7, <1>8, <1>9,
     <1>10, <1>11, <1>12, <1>13, <1>14 DEF Cutover

LEMMA RollbackFrames ==
  ASSUME TypeInv, NEW a \in Admins, Rollback(a)
  PROVE  Frames(a)
<1>. USE RequestTyped, GuardOwner
  DEF Frames, Alive, Moves, Walks, Turns, Ends, Guarded, Transferring, Cleaning, Calm, Faulty
<1>1. ASSUME ReadRecord(a) PROVE Frames(a)
  BY <1>1, ReadRecordEffect
<1>2. ASSUME EnterGuard(a) PROVE Frames(a)
  BY <1>2, EnterGuardEffect DEF EnterGuard
<1>3. ASSUME RollbackRefused(a) PROVE Frames(a)
  BY <1>3, RollbackRefusedEffect
<1>4. ASSUME Check(a) PROVE Frames(a)
  BY <1>4, CheckEffect
<1>. QED
  BY ONLY Rollback(a), <1>1, <1>2, <1>3, <1>4 DEF Rollback

LEMMA CleanupFrames ==
  ASSUME TypeInv, NEW a \in Admins, Cleanup(a)
  PROVE  Frames(a)
<1>. USE RequestTyped, GuardOwner
  DEF Frames, Alive, Moves, Walks, Turns, Ends, Guarded, Transferring, Cleaning, Calm, Faulty
<1>1. ASSUME Enable(a) PROVE Frames(a)
  BY <1>1, EnableEffect
<1>2. ASSUME ToModes(a) PROVE Frames(a)
  BY <1>2, ToModesEffect
<1>3. ASSUME Unmode(a) PROVE Frames(a)
  BY <1>3, UnmodeEffect
<1>4. ASSUME ToMembers(a) PROVE Frames(a)
  BY <1>4, ToMembersEffect
<1>5. ASSUME Unadopt(a) PROVE Frames(a)
  BY <1>5, UnadoptEffect
<1>6. ASSUME ToLocal(a) PROVE Frames(a)
  BY <1>6, ToLocalEffect
<1>7. ASSUME Unlocal(a) PROVE Frames(a)
  BY <1>7, UnlocalEffect
<1>8. ASSUME Prove(a) PROVE Frames(a)
  BY <1>8, ProveEffect
<1>9. ASSUME CleanupRaises(a) PROVE Frames(a)
  BY <1>9, CleanupRaisesEffect DEF FailedCall, FailedLocal, FailedProof
<1>10. ASSUME Close(a) PROVE Frames(a)
  BY <1>10, CloseEffect
<1>. QED
  BY ONLY Cleanup(a), <1>1, <1>2, <1>3, <1>4, <1>5, <1>6, <1>7, <1>8, <1>9,
     <1>10 DEF Cleanup

LEMMA StagingTyped ==
  ASSUME TypeInv, NEW a \in Admins, Staging(a)
  PROVE  TypeInv'
BY StageTyped, StageWriteTyped, DiscardTyped, DiscardWriteTyped DEF Staging

LEMMA CutoverTyped ==
  ASSUME TypeInv, NEW a \in Admins, Cutover(a)
  PROVE  TypeInv'
BY BeginTyped, ReadyTyped, ReadyRaisesTyped, ContractTyped, MaterializeTyped,
   PreparedTyped, AdoptTyped, NoteTyped, EnforceTyped, ProvenTyped,
   DisableTyped, DisabledTyped, AuthoritativeTyped, CutoverRaisesTyped DEF Cutover

LEMMA RollbackTyped ==
  ASSUME TypeInv, NEW a \in Admins, Rollback(a)
  PROVE  TypeInv'
BY ReadRecordTyped, EnterGuardTyped, RollbackRefusedTyped, CheckTyped DEF Rollback

LEMMA CleanupTyped ==
  ASSUME TypeInv, NEW a \in Admins, Cleanup(a)
  PROVE  TypeInv'
BY EnableTyped, ToModesTyped, UnmodeTyped, ToMembersTyped, UnadoptTyped,
   ToLocalTyped, UnlocalTyped, ProveTyped, CleanupRaisesTyped, CloseTyped DEF Cleanup

LEMMA NextTyped ==
  ASSUME TypeInv, [Next]_vars
  PROVE  TypeInv'
<1>1. ASSUME NEW a \in Admins, Staging(a) \/ Cutover(a) \/ Rollback(a) \/ Cleanup(a)
      PROVE  TypeInv'
  BY <1>1, StagingTyped, CutoverTyped, RollbackTyped, CleanupTyped
<1>2. ASSUME NEW d \in Devices, Reconcile(d) PROVE TypeInv'
  BY <1>2, ReconcileTyped
<1>3. ASSUME LegacyEdit \/ UNCHANGED vars PROVE TypeInv'
  BY <1>3, AsideEffect, AsideTyped DEF TypeInv
<1>. QED
  BY <1>1, <1>2, <1>3, CrashTyped DEF Next

\* Every state of the transfer is of its type: evidence names devices and profiles
\* only, and the guard is owned by one request or by none.
THEOREM TypeCorrect == Spec => []TypeOK
<1>1. TypeInv /\ [Next]_vars => TypeInv'
  BY NextTyped
<1>2. TypeInv => TypeOK
  BY DEF TypeInv
<1>. QED
  BY <1>1, <1>2, InitTyped, PTL DEF Spec

-----------------------------------------------------------------------------
(* Recovery: the event reaches all that was changed.                       *)

Served(a) == CutoverOK(a) /\ CleanupOK(a)

LEMMA Known ==
  ASSUME RecoveryInv, ~outdated, NEW a \in Admins
  PROVE  /\ TypeInv /\ TypeOK /\ SharedOK /\ EventOK /\ CutoverOK(a) /\ CleanupOK(a) /\ FlowOK(a)
         /\ ev[a] \in Evidence /\ record.evidence \in Evidence /\ bad[a] \in BOOLEAN
<1>1. TypeInv /\ EventOK /\ CutoverOK(a) /\ CleanupOK(a)
  BY DEF RecoveryInv
<1>2. TypeOK /\ SharedOK /\ FlowOK(a) /\ ev[a] \in Evidence /\ bad[a] \in BOOLEAN
  BY <1>1, RequestTyped DEF TypeInv
<1>3. record.evidence \in Evidence
  BY <1>2 DEF SharedOK
<1>. QED
  BY <1>1, <1>2, <1>3

\* Only the owner of the guard changes what recovery is about.
LEMMA BystanderServed ==
  ASSUME TypeInv, NEW a \in Admins, Frames(a), NEW c \in Admins \ {a}, Served(c)
  PROVE  Served(c)'
<1>1. ASSUME guard \in {a, None} PROVE Served(c)'
  <2>1. pc'[c] \notin Guarded
    BY <1>1, GuardOwner, AdminsAssumption DEF Frames, Alive
  <2>. QED
    BY <2>1 DEF Served, CutoverOK, CleanupOK, Guarded, Transferring, Cleaning
<1>2. ASSUME UNCHANGED <<enabled, member, mode, local, record>> PROVE Served(c)'
  BY <1>2
   DEF Frames, Alive, Served, CutoverOK, CleanupOK, RestoredSoFar, ActiveTransfer, Clear,
       Migrated, Reaches, Adoptable, Owned
<1>. QED
  BY <1>1, <1>2 DEF Frames

LEMMA OthersServed ==
  ASSUME RecoveryInv, NEW a \in Admins, Frames(a), TypeInv',
         ~outdated /\ ~outdated' => EventOK' /\ Served(a)'
  PROVE  RecoveryInv'
<1>1. ASSUME ~outdated', NEW c \in Admins PROVE EventOK' /\ Served(c)'
  <2>1. ~outdated
    BY <1>1 DEF Frames
  <2>2. ASSUME c # a PROVE Served(c)'
    BY <2>1, <2>2, BystanderServed DEF RecoveryInv, Served
  <2>. QED
    BY <1>1, <2>1, <2>2
<1>. QED
  BY <1>1 DEF RecoveryInv, Served

LEMMA StillEvent ==
  ASSUME EventOK, UNCHANGED <<enabled, member, record>>
  PROVE  EventOK'
BY DEF EventOK, Clear, Migrated, ActiveTransfer, Reaches, Adoptable, Owned

\* Evidence with every profile and artifacts reaches whatever there is.
LEMMA WholeReaches ==
  ASSUME NEW e \in Evidence, SharedOK', e.profiles = Profiles, e.artifacts # "none"
  PROVE  Profiles \ enabled' \subseteq e.profiles /\ Migrated' \subseteq Adoptable(e)
BY AdoptableDevices DEF Migrated, Adoptable

\* A row of ZEN's own stays.
OwnKept == \A c \in Devices : member[c] = "own" => member'[c] = "own"

LEMMA AdoptedRow ==
  ASSUME SharedOK, NEW d \in Devices, member' = [member EXCEPT ![d] = Adopted(d)]
  PROVE  /\ OwnKept /\ member'[d] # "none"
         /\ \A c \in Devices \ {d} : member'[c] = member[c]
         /\ member[d] # "none" => member'[d] = member[d]
BY DEF SharedOK, Adopted, OwnKept

LEMMA UnadoptedRow ==
  ASSUME SharedOK, NEW d \in Devices, member' = [member EXCEPT ![d] = Unadopted(d)]
  PROVE  OwnKept /\ Migrated' = Migrated \ {d}
BY DEF SharedOK, Unadopted, OwnKept, Migrated

LEMMA OwnedKept ==
  ASSUME NEW e \in Evidence, Owned(e), OwnKept \/ member' = member
  PROVE  \A d \in e.devices \ e.created : member'[d] = "own"
BY EvidenceFields DEF Owned, OwnKept

\* A step of the clean-up that restores, or fails to, but undoes nothing.
LEMMA CleaningServes ==
  ASSUME RecoveryInv, ~outdated, NEW a \in Admins,
         pc[a] \in Cleaning, pc'[a] \in Cleaning,
         kind'[a] = kind[a], ev'[a] = ev[a], record' = record,
         OwnKept, Migrated' \subseteq Migrated, enabled \subseteq enabled', enabled' \subseteq Profiles,
         ~bad'[a] => RestoredSoFar(a)'
  PROVE  EventOK' /\ Served(a)'
<1>1. /\ Reaches(ev[a]) /\ Owned(ev[a])
      /\ kind[a] = "rollback" => ActiveTransfer /\ ev[a] = record.evidence
  BY Known DEF CleanupOK
<1>2. \A d \in ev[a].devices \ ev[a].created : member'[d] = "own"
  BY <1>1, Known, OwnedKept
<1>3. Reaches(ev[a])' /\ Owned(ev[a])'
  BY <1>1, <1>2 DEF Reaches, Owned, Adoptable
<1>4. kind'[a] = "rollback" => ActiveTransfer' /\ ev'[a] = record'.evidence
  BY <1>1 DEF ActiveTransfer
<1>5. Served(a)'
  BY <1>3, <1>4 DEF Served, CutoverOK, CleanupOK, Transferring, Cleaning
<1>6. EventOK'
  <2>1. Clear => Clear'
    BY DEF Clear
  <2>2. Reaches(record.evidence) => Reaches(record.evidence)'
    BY DEF Reaches, Adoptable
  <2>3. ActiveTransfer => Owned(record.evidence)'
    <3>1. ASSUME ActiveTransfer
          PROVE  \A d \in record.evidence.devices \ record.evidence.created : member'[d] = "own"
      BY <3>1, Known, OwnedKept DEF EventOK
    <3>. QED
      BY <3>1 DEF Owned
  <2>. QED
    BY <2>1, <2>2, <2>3, Known DEF EventOK, ActiveTransfer
<1>. QED
  BY <1>5, <1>6

LEMMA StageServes ==
  ASSUME RecoveryInv, ~outdated, ~outdated', NEW a \in Admins, Stage(a)
  PROVE  EventOK' /\ Served(a)'
<1>1. EventOK'
  BY Known, StageEffect, StillEvent
<1>2. Served(a)'
  BY Known, StageEffect
   DEF Served, ActiveTransfer, Clear, Migrated, Reaches, Adoptable, Owned, CutoverOK,
       CleanupOK, RestoredSoFar, Walks, Moves, Transferring, Cleaning
<1>. QED
  BY <1>1, <1>2

LEMMA StageWriteServes ==
  ASSUME RecoveryInv, ~outdated, ~outdated', NEW a \in Admins, StageWrite(a)
  PROVE  EventOK' /\ Served(a)'
<1>1. EventOK'
  BY Known, StageWriteEffect, StillEvent
<1>2. Served(a)'
  BY Known, StageWriteEffect
   DEF Served, ActiveTransfer, Clear, Migrated, Reaches, Adoptable, Owned, CutoverOK,
       CleanupOK, RestoredSoFar, Walks, Moves, Transferring, Cleaning
<1>. QED
  BY <1>1, <1>2

LEMMA DiscardServes ==
  ASSUME RecoveryInv, ~outdated, ~outdated', NEW a \in Admins, Discard(a)
  PROVE  EventOK' /\ Served(a)'
<1>1. EventOK'
  BY Known, DiscardEffect, StillEvent
<1>2. Served(a)'
  BY Known, DiscardEffect
   DEF Served, ActiveTransfer, Clear, Migrated, Reaches, Adoptable, Owned, CutoverOK,
       CleanupOK, RestoredSoFar, Walks, Moves, Transferring, Cleaning
<1>. QED
  BY <1>1, <1>2

LEMMA DiscardWriteServes ==
  ASSUME RecoveryInv, ~outdated, ~outdated', NEW a \in Admins, DiscardWrite(a)
  PROVE  EventOK' /\ Served(a)'
<1>1. EventOK'
  BY Known, DiscardWriteEffect, StillEvent
<1>2. Served(a)'
  BY Known, DiscardWriteEffect
   DEF Served, ActiveTransfer, Clear, Migrated, Reaches, Adoptable, Owned, CutoverOK,
       CleanupOK, RestoredSoFar, Walks, Moves, Transferring, Cleaning
<1>. QED
  BY <1>1, <1>2

LEMMA BeginServes ==
  ASSUME RecoveryInv, ~outdated, ~outdated', NEW a \in Admins, Begin(a)
  PROVE  EventOK' /\ Served(a)'
<1>1. EventOK'
  BY Known, BeginEffect, StillEvent
<1>2. ev[a].devices = {} /\ ~ev[a].clean
  BY Known, BeginEffect DEF FlowOK, NoEvidence
<1>3. Served(a)'
  BY <1>2, BeginEffect, Known
   DEF Served, Owned, CutoverOK, CleanupOK, RestoredSoFar, Moves, Transferring, Cleaning
<1>. QED
  BY <1>1, <1>3

LEMMA ReadyServes ==
  ASSUME RecoveryInv, ~outdated, ~outdated', NEW a \in Admins, Ready(a)
  PROVE  EventOK' /\ Served(a)'
<1>1. EventOK'
  BY Known, ReadyEffect, StillEvent
<1>2. ASSUME IsReady, Walks(a, "contract") PROVE Served(a)'
  <2>1. ~ActiveTransfer /\ Clear
    BY <1>2, Known DEF EventOK, IsReady
  <2>2. ~ActiveTransfer' /\ Clear'
    BY <2>1, Known, ReadyEffect DEF ActiveTransfer, Clear, Migrated
  <2>3. Owned(ev[a])'
    BY <1>2, Known, ReadyEffect DEF CutoverOK, Owned, Walks, Moves, Transferring
  <2>. QED
    BY <1>2, <2>2, <2>3, Known, ReadyEffect
     DEF Served, CutoverOK, CleanupOK, RestoredSoFar, Walks, Moves, Transferring, Cleaning
<1>3. ASSUME Ends(a) PROVE Served(a)'
  BY <1>3
   DEF Served, CutoverOK, CleanupOK, RestoredSoFar, Ends, Moves, Transferring, Cleaning
<1>. QED
  BY <1>1, <1>2, <1>3, Known, ReadyEffect

LEMMA ReadyRaisesServes ==
  ASSUME RecoveryInv, ~outdated, ~outdated', NEW a \in Admins, ReadyRaises(a)
  PROVE  EventOK' /\ Served(a)'
<1>1. EventOK'
  BY Known, ReadyRaisesEffect, StillEvent
<1>2. Served(a)'
  BY Known, ReadyRaisesEffect
   DEF Served, ActiveTransfer, Clear, Migrated, Reaches, Adoptable, Owned, CutoverOK,
       CleanupOK, RestoredSoFar, Ends, Moves, Transferring, Cleaning
<1>. QED
  BY <1>1, <1>2

LEMMA ContractServes ==
  ASSUME RecoveryInv, ~outdated, ~outdated', NEW a \in Admins, Contract(a)
  PROVE  EventOK' /\ Served(a)'
<1>1. EventOK'
  BY Known, ContractEffect, StillEvent
<1>2. ~ActiveTransfer' /\ Clear'
  BY Known, ContractEffect DEF CutoverOK, ActiveTransfer, Clear, Migrated
<1>3. /\ ev'[a].profiles = Profiles /\ ~ev'[a].clean /\ ev'[a].devices = {}
      /\ pc'[a] = "materialize"
  BY Known, ContractEffect, WithProfilesEffect DEF CutoverOK, Moves, Transferring
<1>. QED
  BY <1>1, <1>2, <1>3
  DEF Served, CutoverOK, CleanupOK, RestoredSoFar, Owned, Transferring, Cleaning

LEMMA MaterializeServes ==
  ASSUME RecoveryInv, ~outdated, ~outdated', NEW a \in Admins, Materialize(a)
  PROVE  EventOK' /\ Served(a)'
<1>1. EventOK'
  BY Known, MaterializeEffect, StillEvent
<1>2. ~ActiveTransfer' /\ Clear'
  BY Known, MaterializeEffect DEF CutoverOK, ActiveTransfer, Clear, Migrated
<1>3. /\ ev[a].profiles = Profiles /\ ~ev[a].clean /\ ev[a].devices = {}
      /\ pc'[a] = "prepared" /\ ev'[a] = WithArtifacts(ev[a])
  BY Known, MaterializeEffect DEF CutoverOK, Moves, Transferring
<1>4. /\ WithArtifacts(ev[a]).profiles = ev[a].profiles
      /\ WithArtifacts(ev[a]).clean = ev[a].clean
      /\ WithArtifacts(ev[a]).devices = ev[a].devices
      /\ WithArtifacts(ev[a]).artifacts # "none"
  BY Known, WithArtifactsEffect
<1>. QED
  BY <1>1, <1>2, <1>3, <1>4
  DEF Served, CutoverOK, CleanupOK, RestoredSoFar, Owned, Transferring, Cleaning

LEMMA PreparedServes ==
  ASSUME RecoveryInv, ~outdated, ~outdated', NEW a \in Admins, Prepared(a)
  PROVE  EventOK' /\ Served(a)'
<1>1. /\ Clear /\ ~ev[a].clean /\ ev[a].profiles = Profiles /\ ev[a].artifacts # "none"
      /\ ev[a].devices = {}
  BY Known, PreparedEffect DEF CutoverOK, Transferring
<1>2. /\ record'.state = "prepared" /\ record'.evidence = ev[a] /\ ActiveTransfer' /\ Clear'
      /\ pc'[a] = "adopt" /\ ev'[a] = ev[a] /\ todo'[a] = Devices /\ member' = member
  BY <1>1, Known, PreparedEffect DEF Record, ActiveTransfer, Clear, Migrated, Turns, Moves
<1>3. EventOK'
  BY <1>1, <1>2 DEF EventOK, Owned
<1>4. \A d \in Devices : member[d] # "migration"
  BY <1>1 DEF Clear, Migrated
<1>. QED
  BY <1>1, <1>2, <1>3, <1>4
  DEF Served, CutoverOK, CleanupOK, RestoredSoFar, Owned, Transferring, Cleaning

LEMMA AdoptServes ==
  ASSUME RecoveryInv, ~outdated, ~outdated', NEW a \in Admins, Adopt(a)
  PROVE  EventOK' /\ Served(a)'
<1>1. /\ ActiveTransfer /\ ~record.evidence.clean /\ record.evidence.profiles = Profiles
      /\ record.evidence.artifacts # "none" /\ ev[a].profiles = Profiles /\ ~ev[a].clean
      /\ ev[a].artifacts # "none" /\ Owned(ev[a]) /\ Owned(record.evidence)
  BY Known, AdoptEffect DEF CutoverOK, EventOK, Transferring
<1>2. PICK d \in todo[a] :
        /\ Moves(a, "note", kind[a], WithDevice(ev[a], d), todo[a] \ {d}, bad[a])
        /\ member' = [member EXCEPT ![d] = Adopted(d)]
  BY Known, AdoptEffect
<1>3. d \in Devices /\ todo[a] \subseteq Devices /\ member[d] # "migration"
  BY Known, AdoptEffect DEF CutoverOK, FlowOK
<1>4. /\ OwnKept /\ \A c \in Devices \ {d} : member'[c] = member[c]
      /\ member[d] # "none" => member'[d] = "own"
  BY <1>2, <1>3, Known, AdoptedRow DEF SharedOK
<1>5. record' = record
  BY Known, AdoptEffect
<1>6. EventOK'
  <2>1. Reaches(record.evidence)'
    BY <1>1, <1>5, Known, AdoptTyped, TypeParts, WholeReaches
     DEF TypeInv, TypeOK, SharedOK, Reaches
  <2>2. Owned(record.evidence)'
    BY <1>1, <1>4, <1>5, Known, OwnedKept DEF Owned
  <2>. QED
    BY <1>1, <1>5, <2>1, <2>2 DEF EventOK, ActiveTransfer
<1>7. /\ WithDevice(ev[a], d).profiles = Profiles /\ ~WithDevice(ev[a], d).clean
      /\ WithDevice(ev[a], d).artifacts # "none"
      /\ WithDevice(ev[a], d).devices = ev[a].devices \cup {d}
      /\ member[d] = "none" => WithDevice(ev[a], d).created = ev[a].created \cup {d}
      /\ member[d] # "none" => WithDevice(ev[a], d).created = ev[a].created
  BY <1>1, <1>3, Known, WithDeviceEffect DEF SharedOK
<1>8. \A c \in WithDevice(ev[a], d).devices \ WithDevice(ev[a], d).created : member'[c] = "own"
  <2>1. \A c \in ev[a].devices \ ev[a].created : member'[c] = "own"
    BY <1>1, <1>4, Known, OwnedKept
  <2>. QED
    BY <1>4, <1>7, <2>1
<1>9. \A c \in todo[a] \ {d} : member'[c] # "migration"
  BY <1>3, <1>4, Known, AdoptEffect DEF CutoverOK
<1>10. /\ pc'[a] = "note" /\ ev'[a] = WithDevice(ev[a], d) /\ todo'[a] = todo[a] \ {d}
  BY <1>2 DEF Moves
<1>11. Owned(ev[a])'
  BY <1>8, <1>10 DEF Owned
<1>. QED
  BY <1>1, <1>5, <1>6, <1>7, <1>9, <1>10, <1>11
  DEF Served, CutoverOK, CleanupOK, RestoredSoFar, ActiveTransfer, Transferring, Cleaning

LEMMA NoteServes ==
  ASSUME RecoveryInv, ~outdated, ~outdated', NEW a \in Admins, Note(a)
  PROVE  EventOK' /\ Served(a)'
<1>1. /\ ~ev[a].clean /\ ev[a].profiles = Profiles /\ ev[a].artifacts # "none"
      /\ Owned(ev[a])
  BY Known, NoteEffect DEF CutoverOK, Transferring
<1>2. /\ record'.state = "prepared" /\ record'.evidence = ev[a] /\ ActiveTransfer'
      /\ ev'[a] = ev[a] /\ member' = member
  BY Known, NoteEffect DEF Record, ActiveTransfer, Walks, Turns, Moves
<1>3. Owned(ev[a])' /\ Owned(record.evidence)'
  BY <1>1, <1>2 DEF Owned
<1>4. Reaches(record.evidence)'
  BY <1>1, <1>2, Known, NoteTyped, TypeParts, WholeReaches
   DEF TypeInv, TypeOK, SharedOK, Reaches
<1>5. EventOK'
  BY <1>1, <1>2, <1>3, <1>4 DEF EventOK
<1>6. \/ pc'[a] = "enforce"
      \/ pc'[a] = "adopt" /\ \A d \in todo'[a] : member'[d] # "migration"
  BY Known, NoteEffect DEF CutoverOK, Walks, Turns, Moves
<1>. QED
  BY <1>1, <1>2, <1>3, <1>5, <1>6
   DEF Served, CutoverOK, CleanupOK, RestoredSoFar, Transferring, Cleaning

LEMMA EnforceServes ==
  ASSUME RecoveryInv, ~outdated, ~outdated', NEW a \in Admins, Enforce(a)
  PROVE  EventOK' /\ Served(a)'
<1>1. EventOK'
  BY Known, EnforceEffect, StillEvent
<1>2. /\ pc[a] = "enforce" /\ pc'[a] = "enforce" /\ ev'[a] = ev[a]
      /\ UNCHANGED <<enabled, member, record>>
  BY Known, EnforceEffect DEF Turns, Moves
<1>. QED
  BY <1>1, <1>2, Known
   DEF Served, CutoverOK, CleanupOK, RestoredSoFar, Owned, ActiveTransfer, Transferring,
       Cleaning

LEMMA ProvenServes ==
  ASSUME RecoveryInv, ~outdated, ~outdated', NEW a \in Admins, Proven(a)
  PROVE  EventOK' /\ Served(a)'
<1>1. /\ ~ev[a].clean /\ ev[a].profiles = Profiles /\ ev[a].artifacts # "none"
      /\ Owned(ev[a])
  BY Known, ProvenEffect DEF CutoverOK, Transferring
<1>2. /\ record'.state = "prepared" /\ record'.evidence = ev[a] /\ ActiveTransfer'
      /\ ev'[a] = ev[a] /\ member' = member
  BY Known, ProvenEffect DEF Record, ActiveTransfer, Turns, Moves
<1>3. Owned(ev[a])' /\ Owned(record.evidence)'
  BY <1>1, <1>2 DEF Owned
<1>4. Reaches(record.evidence)'
  BY <1>1, <1>2, Known, ProvenTyped, TypeParts, WholeReaches
   DEF TypeInv, TypeOK, SharedOK, Reaches
<1>5. EventOK'
  BY <1>1, <1>2, <1>3, <1>4 DEF EventOK
<1>6. pc'[a] = "disable"
  BY Known, ProvenEffect DEF Turns, Moves
<1>. QED
  BY <1>1, <1>2, <1>3, <1>5, <1>6
   DEF Served, CutoverOK, CleanupOK, RestoredSoFar, Transferring, Cleaning

LEMMA DisableServes ==
  ASSUME RecoveryInv, ~outdated, ~outdated', NEW a \in Admins, Disable(a)
  PROVE  EventOK' /\ Served(a)'
<1>1. /\ pc[a] = "disable" /\ pc'[a] = "disable" /\ ev'[a] = ev[a]
      /\ UNCHANGED <<member, record>>
  BY Known, DisableEffect DEF Turns, Moves
<1>2. /\ ActiveTransfer /\ ~record.evidence.clean /\ record.evidence.profiles = Profiles
      /\ record.evidence.artifacts # "none"
  BY <1>1, Known DEF CutoverOK
<1>3. EventOK'
  <2>1. Reaches(record.evidence)'
    BY <1>1, <1>2, Known, DisableTyped, TypeParts, WholeReaches
     DEF TypeInv, TypeOK, SharedOK, Reaches
  <2>. QED
    BY <1>1, <1>2, <2>1, Known DEF EventOK, ActiveTransfer, Owned
<1>. QED
  BY <1>1, <1>3, Known
   DEF Served, CutoverOK, CleanupOK, RestoredSoFar, Owned, ActiveTransfer, Transferring,
       Cleaning

LEMMA DisabledServes ==
  ASSUME RecoveryInv, ~outdated, ~outdated', NEW a \in Admins, Disabled(a)
  PROVE  EventOK' /\ Served(a)'
<1>1. EventOK'
  BY Known, DisabledEffect, StillEvent
<1>2. Served(a)'
  BY Known, DisabledEffect
   DEF Served, ActiveTransfer, Clear, Migrated, Reaches, Adoptable, Owned, CutoverOK,
       CleanupOK, RestoredSoFar, Walks, Moves, Transferring, Cleaning
<1>. QED
  BY <1>1, <1>2

LEMMA AuthoritativeServes ==
  ASSUME RecoveryInv, ~outdated, ~outdated', NEW a \in Admins, Authoritative(a)
  PROVE  EventOK' /\ Served(a)'
<1>1. /\ ~ev[a].clean /\ ev[a].profiles = Profiles /\ ev[a].artifacts # "none"
      /\ Owned(ev[a])
  BY Known, AuthoritativeEffect DEF CutoverOK, Transferring
<1>2. /\ record'.state = "authoritative" /\ record'.evidence = ev[a] /\ ActiveTransfer'
      /\ member' = member
  BY Known, AuthoritativeEffect DEF Record, ActiveTransfer
<1>5. pc'[a] = "idle"
  BY Known, AuthoritativeEffect DEF Ends, Moves
<1>3. Reaches(record.evidence)'
  BY <1>1, <1>2, Known, AuthoritativeTyped, TypeParts, WholeReaches
  DEF TypeInv, TypeOK, SharedOK, Reaches
<1>4. Owned(record.evidence)'
  BY <1>1, <1>2 DEF Owned
<1>. QED
  BY <1>1, <1>2, <1>3, <1>4, <1>5
  DEF EventOK, Served, CutoverOK, CleanupOK, RestoredSoFar, Transferring, Cleaning

LEMMA CutoverRaisesServes ==
  ASSUME RecoveryInv, ~outdated, ~outdated', NEW a \in Admins, CutoverRaises(a)
  PROVE  EventOK' /\ Served(a)'
<1>1. /\ pc[a] \in Transferring \ {"ready"} /\ record' = record
      /\ pc'[a] = "enable" /\ kind'[a] = "cutover" /\ ev'[a] = ev[a]
      /\ todo'[a] = ev[a].profiles
  BY Known, CutoverRaisesEffect DEF FlowOK, Turns, Moves, Transferring
<1>2. OwnKept
  <2>1. ASSUME NEW d \in todo[a], pc[a] = "adopt", member' = [member EXCEPT ![d] = Adopted(d)]
        PROVE  OwnKept
    BY <2>1, Known, AdoptedRow DEF FlowOK
  <2>2. ASSUME member' = member PROVE OwnKept
    BY <2>2 DEF OwnKept
  <2>. QED
    BY <2>1, <2>2, Known, CutoverRaisesEffect
<1>3. Owned(ev[a])' /\ (ActiveTransfer => Owned(record.evidence)')
  <2>1. Owned(ev[a]) /\ (ActiveTransfer => Owned(record.evidence))
    BY <1>1, Known DEF CutoverOK, EventOK
  <2>2. \A d \in ev[a].devices \ ev[a].created : member'[d] = "own"
    BY <1>2, <2>1, Known, OwnedKept
  <2>3. ASSUME ActiveTransfer
        PROVE  \A d \in record.evidence.devices \ record.evidence.created : member'[d] = "own"
    BY <1>2, <2>1, <2>3, Known, OwnedKept
  <2>. QED
    BY <1>1, <2>2, <2>3 DEF Owned
<1>4. Reaches(ev[a])'
  <2>1. ASSUME pc[a] \in {"contract", "materialize"} PROVE Reaches(ev[a])'
    <3>1. Clear /\ UNCHANGED <<enabled, member>>
      BY <2>1, Known, CutoverRaisesEffect DEF CutoverOK
    <3>. QED
      BY <3>1 DEF Clear, Migrated, Reaches
  <2>2. ASSUME pc[a] \in {"adopt", "enforce", "disable"} PROVE Reaches(ev[a])'
    <3>1. ev[a].profiles = Profiles /\ ev[a].artifacts # "none"
      BY <2>2, Known DEF CutoverOK, Transferring
    <3>. QED
      BY <1>1, <3>1, Known, CutoverRaisesTyped, TypeParts, WholeReaches
      DEF TypeInv, TypeOK, SharedOK, Reaches
  <2>. QED
    BY <2>1, <2>2, Known, CutoverRaisesEffect
<1>5. EventOK'
  <2>1. ASSUME pc[a] \in {"contract", "materialize"} PROVE EventOK'
    BY <1>1, <2>1, Known, CutoverRaisesEffect, StillEvent
  <2>2. ASSUME pc[a] \in {"adopt", "enforce", "disable"} PROVE EventOK'
    <3>1. /\ ActiveTransfer /\ ~record.evidence.clean /\ record.evidence.profiles = Profiles
          /\ record.evidence.artifacts # "none"
      BY <2>2, Known DEF CutoverOK
    <3>2. Reaches(record.evidence)'
      BY <1>1, <3>1, Known, CutoverRaisesTyped, TypeParts, WholeReaches
      DEF TypeInv, TypeOK, SharedOK, Reaches
    <3>. QED
      BY <1>1, <1>3, <3>1, <3>2 DEF EventOK, ActiveTransfer
  <2>. QED
    BY <2>1, <2>2, Known, CutoverRaisesEffect
<1>. QED
  BY <1>1, <1>3, <1>4, <1>5
   DEF Served, CutoverOK, CleanupOK, RestoredSoFar, Reaches, Transferring, Cleaning

LEMMA ReadRecordServes ==
  ASSUME RecoveryInv, ~outdated, ~outdated', NEW a \in Admins, ReadRecord(a)
  PROVE  EventOK' /\ Served(a)'
<1>1. EventOK'
  BY Known, ReadRecordEffect, StillEvent
<1>2. Served(a)'
  BY Known, ReadRecordEffect
   DEF Served, ActiveTransfer, Clear, Migrated, Reaches, Adoptable, Owned, CutoverOK,
       CleanupOK, RestoredSoFar, Moves, Transferring, Cleaning
<1>. QED
  BY <1>1, <1>2

LEMMA EnterGuardServes ==
  ASSUME RecoveryInv, ~outdated, ~outdated', NEW a \in Admins, EnterGuard(a)
  PROVE  EventOK' /\ Served(a)'
<1>1. EventOK'
  BY Known, EnterGuardEffect, StillEvent
<1>2. Served(a)'
  BY Known, EnterGuardEffect
   DEF Served, ActiveTransfer, Clear, Migrated, Reaches, Adoptable, Owned, CutoverOK,
       CleanupOK, RestoredSoFar, Moves, Transferring, Cleaning
<1>. QED
  BY <1>1, <1>2

LEMMA RollbackRefusedServes ==
  ASSUME RecoveryInv, ~outdated, ~outdated', NEW a \in Admins, RollbackRefused(a)
  PROVE  EventOK' /\ Served(a)'
<1>1. EventOK'
  BY Known, RollbackRefusedEffect, StillEvent
<1>2. Served(a)'
  BY Known, RollbackRefusedEffect
   DEF Served, ActiveTransfer, Clear, Migrated, Reaches, Adoptable, Owned, CutoverOK,
       CleanupOK, RestoredSoFar, Ends, Moves, Transferring, Cleaning
<1>. QED
  BY <1>1, <1>2

LEMMA CheckServes ==
  ASSUME RecoveryInv, ~outdated, ~outdated', NEW a \in Admins, Check(a)
  PROVE  EventOK' /\ Served(a)'
<1>1. EventOK'
  BY Known, CheckEffect, StillEvent
<1>2. ActiveTransfer /\ ev[a] = record.evidence /\ kind[a] = "rollback"
  BY Known, CheckEffect DEF CleanupOK, RestoredSoFar, FlowOK
<1>3. Owned(ev[a]) /\ Reaches(ev[a])
  BY <1>2, Known, EvidenceFields DEF EventOK, Reaches, Clear
<1>4. /\ ActiveTransfer' /\ ev'[a] = record'.evidence /\ Owned(ev[a])' /\ Reaches(ev[a])'
      /\ pc'[a] \in Cleaning
  BY <1>2, <1>3, Known, CheckEffect
  DEF ActiveTransfer, Owned, Reaches, Migrated, Adoptable, Walks, Turns, Moves, Cleaning
<1>5. ASSUME ev[a].clean, Walks(a, "prove") PROVE CleanupOK(a)'
  <2>1. Clear
    BY <1>2, <1>5, Known DEF EventOK
  <2>. QED
    BY <1>4, <1>5, <2>1, Known, CheckEffect
     DEF CleanupOK, RestoredSoFar, Clear, Migrated, Walks, Moves
<1>6. ASSUME Turns(a, "enable", ev[a].profiles) PROVE CleanupOK(a)'
  BY <1>3, <1>4, <1>6, Known, CheckEffect
   DEF CleanupOK, RestoredSoFar, Reaches, Turns, Moves, Cleaning
<1>7. CutoverOK(a)'
  BY <1>4 DEF CutoverOK, Transferring, Cleaning
<1>. QED
  BY <1>1, <1>5, <1>6, <1>7, Known, CheckEffect DEF Served

LEMMA EnableServes ==
  ASSUME RecoveryInv, ~outdated, ~outdated', NEW a \in Admins, Enable(a)
  PROVE  EventOK' /\ Served(a)'
<1>1. PICK p \in todo[a] : Turns(a, "enable", todo[a] \ {p}) /\ enabled' = enabled \cup {p}
  BY Known, EnableEffect
<1>2. /\ pc[a] = "enable" /\ pc'[a] = "enable" /\ kind'[a] = kind[a] /\ ev'[a] = ev[a]
      /\ todo'[a] = todo[a] \ {p} /\ bad'[a] = bad[a] /\ UNCHANGED <<member, record>>
  BY <1>1, Known, EnableEffect DEF Turns, Moves
<1>3. enabled' \subseteq Profiles
  BY EnableTyped, Known DEF TypeInv, TypeOK
<1>4. ~bad[a] => Profiles \ enabled \subseteq todo[a]
  BY <1>2, Known DEF CleanupOK, RestoredSoFar, Cleaning
<1>5. ~bad'[a] => RestoredSoFar(a)'
  BY <1>1, <1>2, <1>4 DEF RestoredSoFar, Cleaning
<1>6. OwnKept /\ Migrated' \subseteq Migrated
  BY <1>2 DEF OwnKept, Migrated
<1>7. pc[a] \in Cleaning /\ pc'[a] \in Cleaning
  BY <1>2 DEF Cleaning
<1>. QED
  BY <1>1, <1>2, <1>3, <1>5, <1>6, <1>7, CleaningServes

LEMMA ToModesServes ==
  ASSUME RecoveryInv, ~outdated, ~outdated', NEW a \in Admins, ToModes(a)
  PROVE  EventOK' /\ Served(a)'
<1>1. EventOK'
  BY Known, ToModesEffect, StillEvent
<1>2. /\ pc'[a] = "unmode" /\ kind'[a] = kind[a] /\ ev'[a] = ev[a] /\ bad'[a] = bad[a]
  BY Known, ToModesEffect DEF Turns, Moves
<1>3. Reaches(ev[a])' /\ Owned(ev[a])'
  BY <1>2, Known, ToModesEffect
   DEF CleanupOK, RestoredSoFar, Cleaning, Reaches, Owned, Migrated, Adoptable
<1>4. ~bad[a] => enabled' = Profiles
  BY Known, ToModesEffect DEF CleanupOK, RestoredSoFar, SharedOK, Cleaning
<1>5. kind[a] = "rollback" => ActiveTransfer' /\ ev'[a] = record'.evidence
  BY <1>2, Known, ToModesEffect DEF CleanupOK, RestoredSoFar, Cleaning, ActiveTransfer
<1>. QED
  BY <1>1, <1>2, <1>3, <1>4, <1>5
   DEF Served, CutoverOK, CleanupOK, RestoredSoFar, Transferring, Cleaning

LEMMA UnmodeServes ==
  ASSUME RecoveryInv, ~outdated, ~outdated', NEW a \in Admins, Unmode(a)
  PROVE  EventOK' /\ Served(a)'
<1>1. PICK d \in todo[a] :
        \/ Turns(a, "unmode", todo[a] \ {d})
        \/ Moves(a, "unmode", kind[a], ev[a], todo[a] \ {d}, TRUE)
  BY Known, UnmodeEffect
<1>2. /\ pc[a] = "unmode" /\ pc'[a] = "unmode" /\ kind'[a] = kind[a] /\ ev'[a] = ev[a]
      /\ UNCHANGED <<enabled, member, record>>
  BY <1>1, Known, UnmodeEffect DEF Turns, Moves
<1>3. bad'[a] = bad[a] \/ bad'[a] = TRUE
  BY <1>1 DEF Turns, Moves
<1>4. ~bad[a] => enabled = Profiles
  BY <1>2, Known DEF CleanupOK, RestoredSoFar, Cleaning
<1>5. ~bad'[a] => RestoredSoFar(a)'
  BY <1>2, <1>3, <1>4 DEF RestoredSoFar, Cleaning
<1>6. OwnKept /\ Migrated' \subseteq Migrated
  BY <1>2 DEF OwnKept, Migrated
<1>7. pc[a] \in Cleaning /\ pc'[a] \in Cleaning /\ enabled \subseteq Profiles
  BY <1>2, Known DEF Cleaning, SharedOK
<1>. QED
  BY <1>2, <1>5, <1>6, <1>7, CleaningServes

LEMMA ToMembersServes ==
  ASSUME RecoveryInv, ~outdated, ~outdated', NEW a \in Admins, ToMembers(a)
  PROVE  EventOK' /\ Served(a)'
<1>1. EventOK'
  BY Known, ToMembersEffect, StillEvent
<1>2. Served(a)'
  BY Known, ToMembersEffect
   DEF Served, ActiveTransfer, Clear, Migrated, Reaches, Adoptable, Owned, CutoverOK,
       CleanupOK, RestoredSoFar, Turns, Moves, Transferring, Cleaning
<1>. QED
  BY <1>1, <1>2

LEMMA UnadoptServes ==
  ASSUME RecoveryInv, ~outdated, ~outdated', NEW a \in Admins, Unadopt(a)
  PROVE  EventOK' /\ Served(a)'
<1>1. PICK d \in todo[a] :
        /\ Turns(a, "unadopt", todo[a] \ {d})
        /\ member' = [member EXCEPT ![d] = Unadopted(d)]
  BY Known, UnadoptEffect
<1>2. /\ pc[a] = "unadopt" /\ pc'[a] = "unadopt" /\ kind'[a] = kind[a] /\ ev'[a] = ev[a]
      /\ todo'[a] = todo[a] \ {d} /\ bad'[a] = bad[a] /\ UNCHANGED <<enabled, record>>
  BY <1>1, Known, UnadoptEffect DEF Turns, Moves
<1>3. OwnKept /\ Migrated' = Migrated \ {d}
  BY <1>1, <1>2, Known, UnadoptedRow DEF FlowOK
<1>4. ~bad[a] => enabled = Profiles /\ Migrated \subseteq todo[a]
  BY <1>2, Known DEF CleanupOK, RestoredSoFar, Cleaning
<1>5. ~bad'[a] => RestoredSoFar(a)'
  BY <1>2, <1>3, <1>4 DEF RestoredSoFar, Cleaning
<1>6. pc[a] \in Cleaning /\ pc'[a] \in Cleaning /\ enabled \subseteq Profiles
  BY <1>2, Known DEF Cleaning, SharedOK
<1>. QED
  BY <1>2, <1>3, <1>5, <1>6, CleaningServes

LEMMA ToLocalServes ==
  ASSUME RecoveryInv, ~outdated, ~outdated', NEW a \in Admins, ToLocal(a)
  PROVE  EventOK' /\ Served(a)'
<1>1. EventOK'
  BY Known, ToLocalEffect, StillEvent
<1>2. Served(a)'
  BY Known, ToLocalEffect
   DEF Served, ActiveTransfer, Clear, Migrated, Reaches, Adoptable, Owned, CutoverOK,
       CleanupOK, RestoredSoFar, Walks, Moves, Transferring, Cleaning
<1>. QED
  BY <1>1, <1>2

LEMMA UnlocalServes ==
  ASSUME RecoveryInv, ~outdated, ~outdated', NEW a \in Admins, Unlocal(a)
  PROVE  EventOK' /\ Served(a)'
<1>1. /\ pc[a] = "unlocal" /\ pc'[a] = "prove" /\ kind'[a] = kind[a] /\ ev'[a] = ev[a]
      /\ bad'[a] = bad[a] /\ UNCHANGED <<enabled, member, record>>
  BY Known, UnlocalEffect DEF Walks, Moves
<1>2. ~bad[a] => enabled = Profiles /\ Migrated = {}
  BY <1>1, Known DEF CleanupOK, RestoredSoFar, Cleaning
<1>3. OwnKept /\ Migrated' = Migrated
  BY <1>1 DEF OwnKept, Migrated
<1>4. ~bad'[a] => RestoredSoFar(a)'
  BY <1>1, <1>2, <1>3 DEF RestoredSoFar, Cleaning
<1>5. pc[a] \in Cleaning /\ pc'[a] \in Cleaning /\ enabled \subseteq Profiles
  BY <1>1, Known DEF Cleaning, SharedOK
<1>. QED
  BY <1>1, <1>3, <1>4, <1>5, CleaningServes

LEMMA ProveServes ==
  ASSUME RecoveryInv, ~outdated, ~outdated', NEW a \in Admins, Prove(a)
  PROVE  EventOK' /\ Served(a)'
<1>1. EventOK'
  BY Known, ProveEffect, StillEvent
<1>2. Served(a)'
  BY Known, ProveEffect
   DEF Served, ActiveTransfer, Clear, Migrated, Reaches, Adoptable, Owned, CutoverOK,
       CleanupOK, RestoredSoFar, Moves, Transferring, Cleaning
<1>. QED
  BY <1>1, <1>2

LEMMA CleanupRaisesServes ==
  ASSUME RecoveryInv, ~outdated, ~outdated', NEW a \in Admins, CleanupRaises(a)
  PROVE  EventOK' /\ Served(a)'
<1>1. /\ pc[a] \in Cleaning /\ pc'[a] \in Cleaning /\ kind'[a] = kind[a]
      /\ ev'[a] = ev[a] /\ bad'[a] /\ record' = record
  <2>1. record' = record
    BY Known, CleanupRaisesEffect
  <2>2. ASSUME FailedCall(a)
        PROVE  /\ pc[a] \in Cleaning /\ pc'[a] \in Cleaning /\ kind'[a] = kind[a]
               /\ ev'[a] = ev[a] /\ bad'[a]
    BY <2>2 DEF FailedCall, Moves, Cleaning
  <2>3. ASSUME FailedLocal(a) \/ FailedProof(a)
        PROVE  /\ pc[a] \in Cleaning /\ pc'[a] \in Cleaning /\ kind'[a] = kind[a]
               /\ ev'[a] = ev[a] /\ bad'[a]
    BY <2>3 DEF FailedLocal, FailedProof, Moves, Cleaning
  <2>. QED
    BY <2>1, <2>2, <2>3, Known, CleanupRaisesEffect
<1>2. OwnKept /\ Migrated' \subseteq Migrated /\ enabled \subseteq enabled'
  <2>1. ASSUME FailedCall(a)
        PROVE  \/ member' = member /\ enabled \subseteq enabled'
               \/ /\ enabled' = enabled
                  /\ \E d \in Devices : member' = [member EXCEPT ![d] = Unadopted(d)]
    BY <2>1, Known DEF FailedCall, FlowOK
  <2>2. ASSUME FailedLocal(a) \/ FailedProof(a) PROVE member' = member /\ enabled' = enabled
    BY <2>2 DEF FailedLocal, FailedProof
  <2>3. ASSUME member' = member PROVE OwnKept /\ Migrated' \subseteq Migrated
    BY <2>3 DEF OwnKept, Migrated
  <2>4. ASSUME NEW d \in Devices, member' = [member EXCEPT ![d] = Unadopted(d)]
        PROVE  OwnKept /\ Migrated' \subseteq Migrated
    BY <2>4, Known, UnadoptedRow
  <2>. QED
    BY <2>1, <2>2, <2>3, <2>4, Known, CleanupRaisesEffect
<1>3. enabled' \subseteq Profiles
  BY CleanupRaisesTyped, Known DEF TypeInv, TypeOK
<1>. QED
  BY <1>1, <1>2, <1>3, CleaningServes

LEMMA CloseServes ==
  ASSUME RecoveryInv, ~outdated, ~outdated', NEW a \in Admins, Close(a)
  PROVE  EventOK' /\ Served(a)'
<1>1. pc[a] = "close" /\ pc'[a] = "idle" /\ UNCHANGED <<enabled, member>>
  BY Known, CloseEffect DEF Ends, Moves
<1>2. Reaches(ev[a]) /\ Owned(ev[a]) /\ (~bad[a] => Clear)
  BY <1>1, Known DEF CleanupOK, RestoredSoFar, Clear, Cleaning
<1>3. ASSUME Record("failed", WithOutcome(ev[a], bad[a])) PROVE EventOK'
  <2>1. /\ record'.state = "failed" /\ record'.evidence = WithOutcome(ev[a], bad[a])
    BY <1>3 DEF Record
  <2>2. /\ record'.evidence.profiles = ev[a].profiles
        /\ record'.evidence.artifacts = ev[a].artifacts
        /\ record'.evidence.devices = ev[a].devices
        /\ record'.evidence.created = ev[a].created
        /\ record'.evidence.clean = ~bad[a]
    BY <2>1, Known, WithOutcomeEffect
  <2>3. Reaches(record.evidence)' /\ Owned(record.evidence)'
    BY <1>1, <1>2, <2>2 DEF Reaches, Owned, Migrated, Adoptable
  <2>4. bad[a] \/ Clear'
    BY <1>1, <1>2 DEF Clear, Migrated
  <2>5. Clear' \/ ~record'.evidence.clean
    BY <2>2, <2>4
  <2>. QED
    BY <2>1, <2>3, <2>5 DEF EventOK, ActiveTransfer
<1>4. ASSUME ~bad[a], Record("rolled_back", NoEvidence) PROVE EventOK'
  <2>1. Clear'
    BY <1>1, <1>2, <1>4 DEF Clear, Migrated
  <2>. QED
    BY <1>4, <2>1 DEF EventOK, Record, ActiveTransfer
<1>5. ASSUME record' = record PROVE EventOK'
  BY <1>1, <1>5, Known, StillEvent
<1>6. EventOK'
  BY <1>3, <1>4, <1>5, Known, CloseEffect
<1>. QED
  BY <1>1, <1>6 DEF Served, CutoverOK, CleanupOK, Transferring, Cleaning

LEMMA StagingRecovers ==
  ASSUME RecoveryInv, NEW a \in Admins, Staging(a)
  PROVE  RecoveryInv'
<1>1. TypeInv
  BY DEF RecoveryInv
<1>2. Frames(a) /\ TypeInv'
  BY <1>1, StagingFrames, StagingTyped
<1>3. ~outdated /\ ~outdated' => EventOK' /\ Served(a)'
  BY StageServes, StageWriteServes, DiscardServes, DiscardWriteServes DEF Staging
<1>. QED
  BY <1>2, <1>3, OthersServed

LEMMA CutoverRecovers ==
  ASSUME RecoveryInv, NEW a \in Admins, Cutover(a)
  PROVE  RecoveryInv'
<1>1. TypeInv
  BY DEF RecoveryInv
<1>2. Frames(a) /\ TypeInv'
  BY <1>1, CutoverFrames, CutoverTyped
<1>3. ~outdated /\ ~outdated' => EventOK' /\ Served(a)'
  BY BeginServes, ReadyServes, ReadyRaisesServes, ContractServes,
     MaterializeServes, PreparedServes, AdoptServes, NoteServes,
     EnforceServes, ProvenServes, DisableServes, DisabledServes,
     AuthoritativeServes, CutoverRaisesServes DEF Cutover
<1>. QED
  BY <1>2, <1>3, OthersServed

LEMMA RollbackRecovers ==
  ASSUME RecoveryInv, NEW a \in Admins, Rollback(a)
  PROVE  RecoveryInv'
<1>1. TypeInv
  BY DEF RecoveryInv
<1>2. Frames(a) /\ TypeInv'
  BY <1>1, RollbackFrames, RollbackTyped
<1>3. ~outdated /\ ~outdated' => EventOK' /\ Served(a)'
  BY ReadRecordServes, EnterGuardServes, RollbackRefusedServes, CheckServes DEF Rollback
<1>. QED
  BY <1>2, <1>3, OthersServed

LEMMA CleanupRecovers ==
  ASSUME RecoveryInv, NEW a \in Admins, Cleanup(a)
  PROVE  RecoveryInv'
<1>1. TypeInv
  BY DEF RecoveryInv
<1>2. Frames(a) /\ TypeInv'
  BY <1>1, CleanupFrames, CleanupTyped
<1>3. ~outdated /\ ~outdated' => EventOK' /\ Served(a)'
  BY EnableServes, ToModesServes, UnmodeServes, ToMembersServes,
     UnadoptServes, ToLocalServes, UnlocalServes, ProveServes,
     CleanupRaisesServes, CloseServes DEF Cleanup
<1>. QED
  BY <1>2, <1>3, OthersServed

LEMMA AloneRecovers ==
  ASSUME RecoveryInv, TypeInv', outdated' = outdated, UNCHANGED <<enabled, member, record>>,
         \A c \in Admins : Dead(c) \/ Alive(c)
  PROVE  RecoveryInv'
<1>1. ASSUME ~outdated PROVE EventOK'
  BY <1>1, StillEvent DEF RecoveryInv
<1>2. ASSUME ~outdated, NEW c \in Admins PROVE CutoverOK(c)' /\ CleanupOK(c)'
  <2>1. CutoverOK(c) /\ CleanupOK(c)
    BY <1>2 DEF RecoveryInv
  <2>2. ASSUME Dead(c) PROVE CutoverOK(c)' /\ CleanupOK(c)'
    BY <2>2 DEF Dead, CutoverOK, CleanupOK, Transferring, Cleaning
  <2>3. ASSUME Alive(c) PROVE CutoverOK(c)' /\ CleanupOK(c)'
    BY <2>1, <2>3
     DEF Alive, CutoverOK, CleanupOK, RestoredSoFar, ActiveTransfer, Clear, Migrated,
         Reaches, Adoptable, Owned
  <2>. QED
    BY <2>2, <2>3
<1>. QED
  BY <1>1, <1>2 DEF RecoveryInv

LEMMA InitRecovery == Init => RecoveryInv
<1>. SUFFICES ASSUME Init PROVE RecoveryInv
  OBVIOUS
<1>1. EventOK
  BY DEF Init, EventOK, Clear, Migrated, ActiveTransfer
<1>2. \A a \in Admins : CutoverOK(a) /\ CleanupOK(a)
  BY DEF Init, CutoverOK, CleanupOK, Transferring, Cleaning
<1>. QED
  BY <1>1, <1>2, InitTyped DEF RecoveryInv

LEMMA NextRecovers ==
  ASSUME RecoveryInv, [Next]_vars
  PROVE  RecoveryInv'
<1>. TypeInv /\ TypeOK /\ TypeInv'
  BY NextTyped DEF RecoveryInv, TypeInv
<1>1. ASSUME NEW a \in Admins, Staging(a) \/ Cutover(a) \/ Rollback(a) \/ Cleanup(a)
      PROVE  RecoveryInv'
  BY <1>1, StagingRecovers, CutoverRecovers, RollbackRecovers, CleanupRecovers
<1>2. ASSUME NEW d \in Devices, Reconcile(d) PROVE RecoveryInv'
  BY <1>2, ReconcileEffect, AloneRecovers DEF Alive, Calm
<1>3. ASSUME LegacyEdit \/ UNCHANGED vars PROVE RecoveryInv'
  BY <1>3, AsideEffect, AloneRecovers DEF Aside, Alive, Calm
<1>4. ASSUME Crash PROVE RecoveryInv'
  BY <1>4, CrashEffect, AloneRecovers
<1>. QED
  BY <1>1, <1>2, <1>3, <1>4 DEF Next

\* Whatever step a cutover, its clean-up or a rollback dies in, and however many
\* calls fail, the last event lets a rollback reach every disabled profile and
\* every migration row (record_legacy_migration_cutover precedes the writes), unless
\* a rollback worked from evidence that had changed while it waited for the guard.
THEOREM AlwaysRecoverable == Spec => []RecoveryEvidence
<1>1. RecoveryInv /\ [Next]_vars => RecoveryInv'
  BY NextRecovers
<1>2. RecoveryInv => RecoveryEvidence
  BY DEF RecoveryInv, EventOK, RecoveryEvidence, Clear, Migrated, Reaches
<1>. QED
  BY <1>1, <1>2, InitRecovery, PTL DEF Spec

\* A rollback that is tried again finds in Restricted_Devices every device whose
\* mode it restores: those are ZEN's own, which no clean-up removes.  Outdated
\* evidence is excluded as in AlwaysRecoverable.
THEOREM RollbackStaysFeasible == Spec => []RollbackFeasible
<1>1. RecoveryInv /\ [Next]_vars => RecoveryInv'
  BY NextRecovers
<1>2. RecoveryInv => RollbackFeasible
  BY DEF RecoveryInv, EventOK, RollbackFeasible, Owned
<1>. QED
  BY <1>1, <1>2, InitRecovery, PTL DEF Spec

-----------------------------------------------------------------------------
(* No gap: legacy authority goes last and comes back first.              *)

GapFree ==
  /\ enabled = Profiles \/ Covered
  /\ ActiveTransfer => Whole(record.evidence)

LEMMA Guided ==
  ASSUME GapInv, faults = 0, NEW a \in Admins
  PROVE  /\ TypeInv /\ TypeOK /\ SharedOK /\ GapFree /\ AuthorityOK(a) /\ FlowOK(a)
         /\ ev[a] \in Evidence /\ record.evidence \in Evidence
<1>1. TypeInv /\ GapFree /\ AuthorityOK(a)
  BY DEF GapInv, GapFree
<1>2. TypeOK /\ SharedOK /\ FlowOK(a) /\ ev[a] \in Evidence
  BY <1>1, RequestTyped DEF TypeInv
<1>3. record.evidence \in Evidence
  BY <1>2 DEF SharedOK
<1>. QED
  BY <1>1, <1>2, <1>3

LEMMA BystanderGuided ==
  ASSUME TypeInv, NEW a \in Admins, Frames(a), NEW c \in Admins \ {a}, AuthorityOK(c)
  PROVE  AuthorityOK(c)'
<1>1. ASSUME guard \in {a, None} PROVE AuthorityOK(c)'
  <2>1. pc[c] \notin Guarded /\ pc'[c] = pc[c] /\ kind'[c] = kind[c] /\ ev'[c] = ev[c]
    BY <1>1, GuardOwner, AdminsAssumption DEF Frames, Alive
  <2>. QED
    BY <2>1 DEF AuthorityOK, Whole, Guarded, Transferring, Cleaning
<1>2. ASSUME UNCHANGED <<enabled, member, mode, local, record>> PROVE AuthorityOK(c)'
  BY <1>2 DEF Frames, Alive, AuthorityOK, Covered, Whole
<1>. QED
  BY <1>1, <1>2 DEF Frames

LEMMA NoFaultBefore ==
  ASSUME CountersOK, NEW a \in Admins, Frames(a), faults' = 0
  PROVE  faults = 0
BY DEF CountersOK, Frames

LEMMA OthersGuided ==
  ASSUME GapInv, NEW a \in Admins, Frames(a), TypeInv',
         faults = 0 /\ faults' = 0 => GapFree' /\ AuthorityOK(a)'
  PROVE  GapInv'
<1>1. ASSUME faults' = 0 PROVE GapFree' /\ \A c \in Admins : AuthorityOK(c)'
  <2>1. faults = 0
    BY <1>1, NoFaultBefore, TypeParts DEF GapInv, TypeInv
  <2>2. ASSUME NEW c \in Admins, c # a PROVE AuthorityOK(c)'
    BY <2>1, <2>2, BystanderGuided DEF GapInv
  <2>. QED
    BY <1>1, <2>1, <2>2
<1>. QED
  BY <1>1 DEF GapInv, GapFree

LEMMA StillGapFree ==
  ASSUME GapFree, UNCHANGED <<enabled, member, mode, local, record>>
  PROVE  GapFree'
BY DEF GapFree, Covered, ActiveTransfer, Whole

LEMMA StageGuides ==
  ASSUME GapInv, faults = 0, faults' = 0, NEW a \in Admins, Stage(a)
  PROVE  GapFree' /\ AuthorityOK(a)'
<1>1. GapFree'
  BY Guided, StageEffect, StillGapFree
<1>2. AuthorityOK(a)'
  BY Guided, StageEffect
   DEF Covered, Whole, AuthorityOK, Walks, Moves, Transferring, Cleaning
<1>. QED
  BY <1>1, <1>2

LEMMA StageWriteGuides ==
  ASSUME GapInv, faults = 0, faults' = 0, NEW a \in Admins, StageWrite(a)
  PROVE  GapFree' /\ AuthorityOK(a)'
<1>1. GapFree'
  BY Guided, StageWriteEffect, StillGapFree
<1>2. AuthorityOK(a)'
  BY Guided, StageWriteEffect
   DEF Covered, Whole, AuthorityOK, Walks, Moves, Transferring, Cleaning
<1>. QED
  BY <1>1, <1>2

LEMMA DiscardGuides ==
  ASSUME GapInv, faults = 0, faults' = 0, NEW a \in Admins, Discard(a)
  PROVE  GapFree' /\ AuthorityOK(a)'
<1>1. GapFree'
  BY Guided, DiscardEffect, StillGapFree
<1>2. AuthorityOK(a)'
  BY Guided, DiscardEffect
   DEF Covered, Whole, AuthorityOK, Walks, Moves, Transferring, Cleaning
<1>. QED
  BY <1>1, <1>2

LEMMA DiscardWriteGuides ==
  ASSUME GapInv, faults = 0, faults' = 0, NEW a \in Admins, DiscardWrite(a)
  PROVE  GapFree' /\ AuthorityOK(a)'
<1>1. GapFree'
  BY Guided, DiscardWriteEffect, StillGapFree
<1>2. AuthorityOK(a)'
  BY Guided, DiscardWriteEffect
   DEF Covered, Whole, AuthorityOK, Walks, Moves, Transferring, Cleaning
<1>. QED
  BY <1>1, <1>2

LEMMA BeginGuides ==
  ASSUME GapInv, faults = 0, faults' = 0, NEW a \in Admins, Begin(a)
  PROVE  GapFree' /\ AuthorityOK(a)'
<1>1. GapFree'
  BY Guided, BeginEffect, StillGapFree
<1>2. ~ev[a].clean /\ pc'[a] = "ready" /\ ev'[a] = ev[a]
  BY Guided, BeginEffect DEF FlowOK, NoEvidence, Moves
<1>. QED
  BY <1>1, <1>2 DEF AuthorityOK, Transferring, Cleaning

LEMMA ReadyGuides ==
  ASSUME GapInv, faults = 0, faults' = 0, NEW a \in Admins, Ready(a)
  PROVE  GapFree' /\ AuthorityOK(a)'
<1>1. GapFree'
  BY Guided, ReadyEffect, StillGapFree
<1>2. ASSUME IsReady, Walks(a, "contract") PROVE AuthorityOK(a)'
  <2>1. enabled' = Profiles /\ ~ev[a].clean /\ pc'[a] = "contract" /\ ev'[a] = ev[a]
    BY <1>2, Guided, ReadyEffect DEF IsReady, AuthorityOK, Walks, Moves, Transferring
  <2>. QED
    BY <2>1 DEF AuthorityOK, Transferring, Cleaning
<1>3. ASSUME Ends(a) PROVE AuthorityOK(a)'
  BY <1>3 DEF AuthorityOK, Ends, Moves, Transferring, Cleaning
<1>. QED
  BY <1>1, <1>2, <1>3, Guided, ReadyEffect

LEMMA ReadyRaisesGuides ==
  ASSUME GapInv, faults = 0, faults' = 0, NEW a \in Admins, ReadyRaises(a)
  PROVE  GapFree' /\ AuthorityOK(a)'
<1>1. faults' = faults + 1
  BY Guided, ReadyRaisesEffect DEF Faulty
<1>. QED
  BY <1>1

LEMMA ContractGuides ==
  ASSUME GapInv, faults = 0, faults' = 0, NEW a \in Admins, Contract(a)
  PROVE  GapFree' /\ AuthorityOK(a)'
<1>1. GapFree'
  BY Guided, ContractEffect, StillGapFree
<1>2. /\ enabled' = Profiles /\ ~ev[a].clean
      /\ pc'[a] = "materialize" /\ ev'[a] = WithProfiles(ev[a])
  BY Guided, ContractEffect DEF AuthorityOK, Moves, Transferring
<1>3. ev'[a].profiles = Profiles /\ ~ev'[a].clean
  BY <1>2, Guided, WithProfilesEffect
<1>. QED
  BY <1>1, <1>2, <1>3 DEF AuthorityOK, Transferring, Cleaning

LEMMA MaterializeGuides ==
  ASSUME GapInv, faults = 0, faults' = 0, NEW a \in Admins, Materialize(a)
  PROVE  GapFree' /\ AuthorityOK(a)'
<1>1. /\ enabled = Profiles /\ ~ev[a].clean /\ ev[a].profiles = Profiles
      /\ pc'[a] = "prepared" /\ ev'[a] = WithArtifacts(ev[a])
      /\ local' /\ UNCHANGED <<enabled, record>>
  BY Guided, MaterializeEffect DEF AuthorityOK, Moves, Transferring
<1>2. ev'[a].profiles = Profiles /\ ~ev'[a].clean
  BY <1>1, Guided, WithArtifactsEffect
<1>3. GapFree'
  BY <1>1, Guided DEF GapFree, ActiveTransfer, Whole
<1>. QED
  BY <1>1, <1>2, <1>3 DEF AuthorityOK, Transferring, Cleaning

LEMMA PreparedGuides ==
  ASSUME GapInv, faults = 0, faults' = 0, NEW a \in Admins, Prepared(a)
  PROVE  GapFree' /\ AuthorityOK(a)'
<1>1. /\ enabled = Profiles /\ ~ev[a].clean /\ ev[a].profiles = Profiles /\ local
  BY Guided, PreparedEffect DEF AuthorityOK, Transferring
<1>2. /\ record'.evidence = ev[a] /\ UNCHANGED <<enabled, member, mode, local>>
      /\ pc'[a] = "adopt" /\ ev'[a] = ev[a] /\ todo'[a] = Devices
  BY Guided, PreparedEffect DEF Record, Turns, Moves
<1>3. GapFree'
  BY <1>1, <1>2 DEF GapFree, Whole
<1>. QED
  BY <1>1, <1>2, <1>3 DEF AuthorityOK, Transferring, Cleaning

LEMMA AdoptGuides ==
  ASSUME GapInv, faults = 0, faults' = 0, NEW a \in Admins, Adopt(a)
  PROVE  GapFree' /\ AuthorityOK(a)'
<1>1. /\ enabled = Profiles /\ ~ev[a].clean /\ ev[a].profiles = Profiles /\ local
      /\ UNCHANGED <<enabled, local, record>>
  BY Guided, AdoptEffect DEF AuthorityOK, Transferring
<1>2. GapFree'
  BY <1>1, Guided DEF GapFree, ActiveTransfer, Whole
<1>3. PICK d \in todo[a] :
        /\ Moves(a, "note", kind[a], WithDevice(ev[a], d), todo[a] \ {d}, bad[a])
        /\ member' = [member EXCEPT ![d] = Adopted(d)]
  BY Guided, AdoptEffect
<1>4. /\ pc'[a] = "note" /\ ev'[a] = WithDevice(ev[a], d) /\ todo'[a] = todo[a] \ {d}
  BY <1>3 DEF Moves
<1>5. d \in Devices /\ todo[a] \subseteq Devices
  BY Guided, AdoptEffect DEF FlowOK
<1>6. ev'[a].profiles = Profiles /\ ~ev'[a].clean
  BY <1>1, <1>4, <1>5, Guided, WithDeviceEffect DEF SharedOK
<1>7. \A c \in Devices \ todo[a] : member[c] # "none"
  BY Guided, AdoptEffect DEF AuthorityOK
<1>8. \A c \in Devices \ (todo[a] \ {d}) : member'[c] # "none"
  BY <1>3, <1>5, <1>7, Guided, AdoptedRow
<1>. QED
  BY <1>1, <1>2, <1>4, <1>6, <1>8 DEF AuthorityOK, Transferring, Cleaning

LEMMA NoteGuides ==
  ASSUME GapInv, faults = 0, faults' = 0, NEW a \in Admins, Note(a)
  PROVE  GapFree' /\ AuthorityOK(a)'
<1>1. /\ enabled = Profiles /\ ~ev[a].clean /\ ev[a].profiles = Profiles /\ local
      /\ \A d \in Devices \ todo[a] : member[d] # "none"
  BY Guided, NoteEffect DEF AuthorityOK, Transferring
<1>2. record'.evidence = ev[a] /\ ev'[a] = ev[a] /\ UNCHANGED <<enabled, member, mode, local>>
  BY Guided, NoteEffect DEF Record, Walks, Turns, Moves
<1>3. GapFree'
  BY <1>1, <1>2 DEF GapFree, Whole
<1>4. \/ pc'[a] = "adopt" /\ todo'[a] = todo[a]
      \/ pc'[a] = "enforce" /\ todo[a] = {} /\ todo'[a] = Devices
  BY Guided, NoteEffect DEF Walks, Turns, Moves
<1>. QED
  BY <1>1, <1>2, <1>3, <1>4 DEF AuthorityOK, Transferring, Cleaning

LEMMA EnforceGuides ==
  ASSUME GapInv, faults = 0, faults' = 0, NEW a \in Admins, Enforce(a)
  PROVE  GapFree' /\ AuthorityOK(a)'
<1>1. PICK d \in todo[a] :
        Turns(a, "enforce", todo[a] \ {d}) /\ mode' = [mode EXCEPT ![d] = "policy"]
  BY Guided, EnforceEffect
<1>2. /\ pc[a] = "enforce" /\ pc'[a] = "enforce" /\ ev'[a] = ev[a]
      /\ todo'[a] = todo[a] \ {d} /\ UNCHANGED <<enabled, member, local, record>>
  BY <1>1, Guided, EnforceEffect DEF Turns, Moves
<1>3. /\ enabled = Profiles /\ ~ev[a].clean /\ ev[a].profiles = Profiles /\ local
      /\ \A c \in Devices : member[c] # "none"
      /\ \A c \in Devices \ todo[a] : mode[c] = "policy"
  BY <1>2, Guided DEF AuthorityOK, Transferring
<1>4. \A c \in Devices \ todo'[a] : mode'[c] = "policy"
  BY <1>1, <1>2, <1>3, Guided DEF SharedOK
<1>5. GapFree'
  BY <1>2, <1>3, Guided DEF GapFree, ActiveTransfer, Whole
<1>. QED
  BY <1>2, <1>3, <1>4, <1>5 DEF AuthorityOK, Transferring, Cleaning

LEMMA ProvenGuides ==
  ASSUME GapInv, faults = 0, faults' = 0, NEW a \in Admins, Proven(a)
  PROVE  GapFree' /\ AuthorityOK(a)'
<1>1. /\ enabled = Profiles /\ ~ev[a].clean /\ ev[a].profiles = Profiles /\ Covered
  BY Guided, ProvenEffect DEF AuthorityOK, Covered, Transferring
<1>2. /\ record'.evidence = ev[a] /\ UNCHANGED <<enabled, member, mode, local>>
      /\ pc'[a] = "disable" /\ ev'[a] = ev[a]
  BY Guided, ProvenEffect DEF Record, Turns, Moves
<1>3. GapFree' /\ Covered'
  BY <1>1, <1>2 DEF GapFree, Covered, Whole
<1>. QED
  BY <1>1, <1>2, <1>3 DEF AuthorityOK, Covered, Transferring, Cleaning

LEMMA DisableGuides ==
  ASSUME GapInv, faults = 0, faults' = 0, NEW a \in Admins, Disable(a)
  PROVE  GapFree' /\ AuthorityOK(a)'
<1>1. /\ pc[a] = "disable" /\ pc'[a] = "disable" /\ ev'[a] = ev[a]
      /\ UNCHANGED <<member, mode, local, record>>
  BY Guided, DisableEffect DEF Turns, Moves
<1>2. ~ev[a].clean /\ ev[a].profiles = Profiles /\ Covered
  BY <1>1, Guided DEF AuthorityOK, Transferring
<1>3. GapFree' /\ Covered'
  BY <1>1, <1>2, Guided DEF GapFree, Covered, ActiveTransfer, Whole
<1>. QED
  BY <1>1, <1>2, <1>3 DEF AuthorityOK, Covered, Transferring, Cleaning

LEMMA DisabledGuides ==
  ASSUME GapInv, faults = 0, faults' = 0, NEW a \in Admins, Disabled(a)
  PROVE  GapFree' /\ AuthorityOK(a)'
<1>1. GapFree'
  BY Guided, DisabledEffect, StillGapFree
<1>2. AuthorityOK(a)'
  BY Guided, DisabledEffect
   DEF Covered, Whole, AuthorityOK, Walks, Moves, Transferring, Cleaning
<1>. QED
  BY <1>1, <1>2

LEMMA AuthoritativeGuides ==
  ASSUME GapInv, faults = 0, faults' = 0, NEW a \in Admins, Authoritative(a)
  PROVE  GapFree' /\ AuthorityOK(a)'
<1>1. ~ev[a].clean /\ ev[a].profiles = Profiles /\ Covered
  BY Guided, AuthoritativeEffect DEF AuthorityOK, Transferring
<1>2. record'.evidence = ev[a] /\ UNCHANGED <<enabled, member, mode, local>>
  BY Guided, AuthoritativeEffect DEF Record
<1>3. pc'[a] = "idle"
  BY Guided, AuthoritativeEffect DEF Ends, Moves
<1>4. GapFree'
  BY <1>1, <1>2 DEF GapFree, Covered, Whole
<1>. QED
  BY <1>3, <1>4 DEF AuthorityOK, Transferring, Cleaning

LEMMA CutoverRaisesGuides ==
  ASSUME GapInv, faults = 0, faults' = 0, NEW a \in Admins, CutoverRaises(a)
  PROVE  GapFree' /\ AuthorityOK(a)'
<1>1. faults' = faults + 1
  BY Guided, CutoverRaisesEffect DEF Faulty
<1>. QED
  BY <1>1

LEMMA ReadRecordGuides ==
  ASSUME GapInv, faults = 0, faults' = 0, NEW a \in Admins, ReadRecord(a)
  PROVE  GapFree' /\ AuthorityOK(a)'
<1>1. GapFree'
  BY Guided, ReadRecordEffect, StillGapFree
<1>2. /\ Whole(record.evidence) /\ pc'[a] = "wait" /\ kind'[a] = "rollback"
      /\ ev'[a] = record.evidence
  BY Guided, ReadRecordEffect DEF GapFree, Moves
<1>. QED
  BY <1>1, <1>2 DEF AuthorityOK, Whole, Transferring, Cleaning

LEMMA EnterGuardGuides ==
  ASSUME GapInv, faults = 0, faults' = 0, NEW a \in Admins, EnterGuard(a)
  PROVE  GapFree' /\ AuthorityOK(a)'
<1>1. GapFree'
  BY Guided, EnterGuardEffect, StillGapFree
<1>2. AuthorityOK(a)'
  BY Guided, EnterGuardEffect
   DEF Covered, Whole, AuthorityOK, Moves, Transferring, Cleaning
<1>. QED
  BY <1>1, <1>2

LEMMA RollbackRefusedGuides ==
  ASSUME GapInv, faults = 0, faults' = 0, NEW a \in Admins, RollbackRefused(a)
  PROVE  GapFree' /\ AuthorityOK(a)'
<1>1. GapFree'
  BY Guided, RollbackRefusedEffect, StillGapFree
<1>2. AuthorityOK(a)'
  BY Guided, RollbackRefusedEffect
   DEF Covered, Whole, AuthorityOK, Ends, Moves, Transferring, Cleaning
<1>. QED
  BY <1>1, <1>2

LEMMA CheckGuides ==
  ASSUME GapInv, faults = 0, faults' = 0, NEW a \in Admins, Check(a)
  PROVE  GapFree' /\ AuthorityOK(a)'
<1>1. GapFree'
  BY Guided, CheckEffect, StillGapFree
<1>2. AuthorityOK(a)'
  BY Guided, CheckEffect
   DEF Covered, Whole, AuthorityOK, Walks, Turns, Moves, Transferring, Cleaning
<1>. QED
  BY <1>1, <1>2

LEMMA EnableGuides ==
  ASSUME GapInv, faults = 0, faults' = 0, NEW a \in Admins, Enable(a)
  PROVE  GapFree' /\ AuthorityOK(a)'
<1>1. PICK p \in todo[a] : Turns(a, "enable", todo[a] \ {p}) /\ enabled' = enabled \cup {p}
  BY Guided, EnableEffect
<1>2. /\ pc[a] = "enable" /\ pc'[a] = "enable" /\ kind'[a] = kind[a] /\ ev'[a] = ev[a]
      /\ todo'[a] = todo[a] \ {p} /\ UNCHANGED <<member, mode, local, record>>
  BY <1>1, Guided, EnableEffect DEF Turns, Moves
<1>3. kind[a] = "rollback" /\ Whole(ev[a]) /\ Profiles \ enabled \subseteq todo[a] /\ p \in Profiles
  BY <1>2, Guided DEF AuthorityOK, FlowOK, Cleaning
<1>4. GapFree'
  BY <1>1, <1>2, <1>3, Guided DEF GapFree, Covered, ActiveTransfer, Whole
<1>. QED
  BY <1>1, <1>2, <1>3, <1>4 DEF AuthorityOK, Whole, Transferring, Cleaning

LEMMA ToModesGuides ==
  ASSUME GapInv, faults = 0, faults' = 0, NEW a \in Admins, ToModes(a)
  PROVE  GapFree' /\ AuthorityOK(a)'
<1>1. GapFree'
  BY Guided, ToModesEffect, StillGapFree
<1>2. /\ pc'[a] = "unmode" /\ kind'[a] = kind[a] /\ ev'[a] = ev[a]
      /\ kind[a] = "rollback" /\ Whole(ev[a])
  BY Guided, ToModesEffect DEF AuthorityOK, Turns, Moves, Cleaning
<1>3. enabled' = Profiles
  BY Guided, ToModesEffect DEF AuthorityOK, SharedOK
<1>. QED
  BY <1>1, <1>2, <1>3 DEF AuthorityOK, Whole, Transferring, Cleaning

LEMMA UnmodeGuides ==
  ASSUME GapInv, faults = 0, faults' = 0, NEW a \in Admins, Unmode(a)
  PROVE  GapFree' /\ AuthorityOK(a)'
<1>1. /\ pc[a] \in Cleaning \ {"enable"} /\ pc'[a] \in Cleaning \ {"enable"}
      /\ kind'[a] = kind[a] /\ ev'[a] = ev[a] /\ UNCHANGED <<enabled, record>>
  BY Guided, UnmodeEffect DEF Walks, Turns, Moves, Cleaning
<1>2. enabled = Profiles /\ kind[a] = "rollback" /\ Whole(ev[a])
  BY <1>1, Guided DEF AuthorityOK
<1>3. GapFree'
  BY <1>1, <1>2, Guided DEF GapFree, ActiveTransfer, Whole
<1>. QED
  BY <1>1, <1>2, <1>3 DEF AuthorityOK, Whole, Transferring, Cleaning

LEMMA ToMembersGuides ==
  ASSUME GapInv, faults = 0, faults' = 0, NEW a \in Admins, ToMembers(a)
  PROVE  GapFree' /\ AuthorityOK(a)'
<1>1. GapFree'
  BY Guided, ToMembersEffect, StillGapFree
<1>2. AuthorityOK(a)'
  BY Guided, ToMembersEffect
   DEF Covered, Whole, AuthorityOK, Turns, Moves, Transferring, Cleaning
<1>. QED
  BY <1>1, <1>2

LEMMA UnadoptGuides ==
  ASSUME GapInv, faults = 0, faults' = 0, NEW a \in Admins, Unadopt(a)
  PROVE  GapFree' /\ AuthorityOK(a)'
<1>1. /\ pc[a] \in Cleaning \ {"enable"} /\ pc'[a] \in Cleaning \ {"enable"}
      /\ kind'[a] = kind[a] /\ ev'[a] = ev[a] /\ UNCHANGED <<enabled, record>>
  BY Guided, UnadoptEffect DEF Walks, Turns, Moves, Cleaning
<1>2. enabled = Profiles /\ kind[a] = "rollback" /\ Whole(ev[a])
  BY <1>1, Guided DEF AuthorityOK
<1>3. GapFree'
  BY <1>1, <1>2, Guided DEF GapFree, ActiveTransfer, Whole
<1>. QED
  BY <1>1, <1>2, <1>3 DEF AuthorityOK, Whole, Transferring, Cleaning

LEMMA ToLocalGuides ==
  ASSUME GapInv, faults = 0, faults' = 0, NEW a \in Admins, ToLocal(a)
  PROVE  GapFree' /\ AuthorityOK(a)'
<1>1. GapFree'
  BY Guided, ToLocalEffect, StillGapFree
<1>2. AuthorityOK(a)'
  BY Guided, ToLocalEffect
   DEF Covered, Whole, AuthorityOK, Walks, Moves, Transferring, Cleaning
<1>. QED
  BY <1>1, <1>2

LEMMA UnlocalGuides ==
  ASSUME GapInv, faults = 0, faults' = 0, NEW a \in Admins, Unlocal(a)
  PROVE  GapFree' /\ AuthorityOK(a)'
<1>1. /\ pc[a] \in Cleaning \ {"enable"} /\ pc'[a] \in Cleaning \ {"enable"}
      /\ kind'[a] = kind[a] /\ ev'[a] = ev[a] /\ UNCHANGED <<enabled, record>>
  BY Guided, UnlocalEffect DEF Walks, Turns, Moves, Cleaning
<1>2. enabled = Profiles /\ kind[a] = "rollback" /\ Whole(ev[a])
  BY <1>1, Guided DEF AuthorityOK
<1>3. GapFree'
  BY <1>1, <1>2, Guided DEF GapFree, ActiveTransfer, Whole
<1>. QED
  BY <1>1, <1>2, <1>3 DEF AuthorityOK, Whole, Transferring, Cleaning

LEMMA ProveGuides ==
  ASSUME GapInv, faults = 0, faults' = 0, NEW a \in Admins, Prove(a)
  PROVE  GapFree' /\ AuthorityOK(a)'
<1>1. GapFree'
  BY Guided, ProveEffect, StillGapFree
<1>2. AuthorityOK(a)'
  BY Guided, ProveEffect
   DEF Covered, Whole, AuthorityOK, Moves, Transferring, Cleaning
<1>. QED
  BY <1>1, <1>2

LEMMA CleanupRaisesGuides ==
  ASSUME GapInv, faults = 0, faults' = 0, NEW a \in Admins, CleanupRaises(a)
  PROVE  GapFree' /\ AuthorityOK(a)'
<1>1. faults' = faults + 1
  BY Guided, CleanupRaisesEffect DEF Faulty
<1>. QED
  BY <1>1

LEMMA CloseGuides ==
  ASSUME GapInv, faults = 0, faults' = 0, NEW a \in Admins, Close(a)
  PROVE  GapFree' /\ AuthorityOK(a)'
<1>1. enabled = Profiles /\ kind[a] = "rollback"
  BY Guided, CloseEffect DEF AuthorityOK, Cleaning
<1>2. enabled' = enabled /\ (record'.state = "rolled_back" \/ record' = record)
  BY <1>1, Guided, CloseEffect DEF Record
<1>3. pc'[a] = "idle"
  BY Guided, CloseEffect DEF Ends, Moves
<1>4. GapFree'
  BY <1>1, <1>2, Guided DEF GapFree, ActiveTransfer, Whole
<1>. QED
  BY <1>3, <1>4 DEF AuthorityOK, Transferring, Cleaning

LEMMA StagingGuides ==
  ASSUME GapInv, NEW a \in Admins, Staging(a)
  PROVE  GapInv'
<1>1. TypeInv
  BY DEF GapInv
<1>2. Frames(a) /\ TypeInv'
  BY <1>1, StagingFrames, StagingTyped
<1>3. faults = 0 /\ faults' = 0 => GapFree' /\ AuthorityOK(a)'
  BY StageGuides, StageWriteGuides, DiscardGuides, DiscardWriteGuides DEF Staging
<1>. QED
  BY <1>2, <1>3, OthersGuided

LEMMA CutoverGuides ==
  ASSUME GapInv, NEW a \in Admins, Cutover(a)
  PROVE  GapInv'
<1>1. TypeInv
  BY DEF GapInv
<1>2. Frames(a) /\ TypeInv'
  BY <1>1, CutoverFrames, CutoverTyped
<1>3. faults = 0 /\ faults' = 0 => GapFree' /\ AuthorityOK(a)'
  BY BeginGuides, ReadyGuides, ReadyRaisesGuides, ContractGuides,
     MaterializeGuides, PreparedGuides, AdoptGuides, NoteGuides,
     EnforceGuides, ProvenGuides, DisableGuides, DisabledGuides,
     AuthoritativeGuides, CutoverRaisesGuides DEF Cutover
<1>. QED
  BY <1>2, <1>3, OthersGuided

LEMMA RollbackGuides ==
  ASSUME GapInv, NEW a \in Admins, Rollback(a)
  PROVE  GapInv'
<1>1. TypeInv
  BY DEF GapInv
<1>2. Frames(a) /\ TypeInv'
  BY <1>1, RollbackFrames, RollbackTyped
<1>3. faults = 0 /\ faults' = 0 => GapFree' /\ AuthorityOK(a)'
  BY ReadRecordGuides, EnterGuardGuides, RollbackRefusedGuides, CheckGuides DEF Rollback
<1>. QED
  BY <1>2, <1>3, OthersGuided

LEMMA CleanupGuides ==
  ASSUME GapInv, NEW a \in Admins, Cleanup(a)
  PROVE  GapInv'
<1>1. TypeInv
  BY DEF GapInv
<1>2. Frames(a) /\ TypeInv'
  BY <1>1, CleanupFrames, CleanupTyped
<1>3. faults = 0 /\ faults' = 0 => GapFree' /\ AuthorityOK(a)'
  BY EnableGuides, ToModesGuides, UnmodeGuides, ToMembersGuides,
     UnadoptGuides, ToLocalGuides, UnlocalGuides, ProveGuides,
     CleanupRaisesGuides, CloseGuides DEF Cleanup
<1>. QED
  BY <1>2, <1>3, OthersGuided

LEMMA InitGap == Init => GapInv
<1>. SUFFICES ASSUME Init PROVE GapInv
  OBVIOUS
<1>1. GapFree
  BY DEF Init, GapFree, ActiveTransfer
<1>2. \A a \in Admins : AuthorityOK(a)
  BY DEF Init, AuthorityOK, Transferring, Cleaning
<1>. QED
  BY <1>1, <1>2, InitTyped DEF GapInv, GapFree

LEMMA NextGuides ==
  ASSUME GapInv, [Next]_vars
  PROVE  GapInv'
<1>0. TypeInv /\ TypeOK /\ SharedOK /\ TypeInv'
  BY NextTyped, TypeParts DEF GapInv, TypeInv
<1>1. ASSUME NEW a \in Admins, Staging(a) \/ Cutover(a) \/ Rollback(a) \/ Cleanup(a)
      PROVE  GapInv'
  BY <1>1, StagingGuides, CutoverGuides, RollbackGuides, CleanupGuides
<1>2. ASSUME NEW d \in Devices, Reconcile(d) PROVE GapInv'
  <2>1. /\ guard = None /\ mode' = [mode EXCEPT ![d] = IF local THEN "policy" ELSE "before"]
        /\ UNCHANGED <<enabled, member, local, record, pc, kind, ev, todo>> /\ faults' = faults
    BY <1>0, <1>2, ReconcileEffect DEF Calm
  <2>2. Covered => Covered'
    BY <1>0, <2>1 DEF Covered, SharedOK
  <2>3. ASSUME NEW a \in Admins PROVE pc[a] \notin Guarded
    BY <1>0, <2>1, GuardOwner, AdminsAssumption
  <2>4. ASSUME faults = 0 PROVE GapFree' /\ \A a \in Admins : AuthorityOK(a)'
    BY <2>1, <2>2, <2>3, <2>4
    DEF GapInv, GapFree, ActiveTransfer, Whole, AuthorityOK, Guarded, Transferring, Cleaning
  <2>. QED
    BY <1>0, <2>1, <2>4 DEF GapInv, GapFree
<1>3. ASSUME LegacyEdit \/ UNCHANGED vars PROVE GapInv'
  <2>1. Aside
    BY <1>0, <1>3, AsideEffect
  <2>. QED
    BY <1>0, <2>1
    DEF Aside, Calm, GapInv, AuthorityOK, Covered, Whole, ActiveTransfer
<1>4. ASSUME Crash PROVE GapInv'
  <2>1. /\ UNCHANGED <<enabled, member, mode, local, record>> /\ faults' = faults
        /\ \A c \in Admins : Dead(c) \/ Alive(c)
    BY <1>0, <1>4, CrashEffect
  <2>2. ASSUME NEW c \in Admins, AuthorityOK(c), Dead(c) PROVE AuthorityOK(c)'
    BY <2>2 DEF Dead, AuthorityOK, Transferring, Cleaning
  <2>3. ASSUME NEW c \in Admins, AuthorityOK(c), Alive(c) PROVE AuthorityOK(c)'
    BY <2>1, <2>3 DEF Alive, AuthorityOK, Covered, Whole
  <2>4. GapFree => GapFree'
    BY <2>1, StillGapFree
  <2>. QED
    BY <1>0, <2>1, <2>2, <2>3, <2>4 DEF GapInv, GapFree
<1>. QED
  BY <1>1, <1>2, <1>3, <1>4 DEF Next

\* As long as no call fails, no step of cutover, rollback, reconciler or crash
\* leaves a device without an enabled legacy profile or ZEN's enforced policy.
THEOREM AuthorityHasNoGap == Spec => []NoGap
<1>1. GapInv /\ [Next]_vars => GapInv'
  BY NextGuides
<1>2. GapInv => NoGap
  BY DevicesAssumption DEF GapInv, NoGap, Covered
<1>. QED
  BY <1>1, <1>2, InitGap, PTL DEF Spec

-----------------------------------------------------------------------------
(* Restoration: what ZEN managed before is as it was.                     *)

LEMMA Kept ==
  ASSUME RestoreInv, Undisturbed, NEW a \in Admins
  PROVE  /\ RecoveryInv /\ ~outdated /\ TypeInv /\ TypeOK /\ SharedOK /\ FlowOK(a)
         /\ HistoryOK /\ StartOK(a) /\ UndoOK(a) /\ CutoverOK(a) /\ CleanupOK(a)
         /\ ev[a] \in Evidence /\ record.evidence \in Evidence /\ bad[a] \in BOOLEAN
         /\ \A d \in Managed : d \in Devices /\ member[d] = "own"
<1>1. RecoveryInv /\ ~outdated /\ HistoryOK /\ StartOK(a) /\ UndoOK(a)
  BY DEF RestoreInv, Undisturbed
<1>2. \A d \in Managed : d \in Devices /\ member[d] = "own"
  BY DevicesAssumption DEF RestoreInv
<1>. QED
  BY <1>1, <1>2, Known

LEMMA BystanderKept ==
  ASSUME TypeInv, NEW a \in Admins, Frames(a), NEW c \in Admins \ {a}, StartOK(c), UndoOK(c)
  PROVE  StartOK(c)' /\ UndoOK(c)'
<1>1. ASSUME guard \in {a, None} PROVE StartOK(c)' /\ UndoOK(c)'
  <2>1. pc'[c] \notin Guarded
    BY <1>1, GuardOwner, AdminsAssumption DEF Frames, Alive
  <2>. QED
    BY <2>1 DEF StartOK, UndoOK, Guarded, Transferring, Cleaning
<1>2. ASSUME UNCHANGED <<enabled, member, mode, local, record, faults>>
      PROVE  StartOK(c)' /\ UndoOK(c)'
  <2>1. StartOK(c)'
    BY <1>2 DEF Frames, Alive, StartOK, Pristine, Noted
  <2>2. UndoOK(c)'
    BY <1>2 DEF Frames, Alive, UndoOK, Pristine, Noted
  <2>. QED
    BY <2>1, <2>2
<1>. QED
  BY <1>1, <1>2 DEF Frames

LEMMA UndisturbedBefore ==
  ASSUME CountersOK, NEW a \in Admins, Frames(a), Undisturbed'
  PROVE  Undisturbed
<1>1. crashes = 0 /\ faults <= 1
  BY DEF CountersOK, Frames, Undisturbed
<1>. QED
  BY <1>1 DEF Frames, Undisturbed

LEMMA OthersKept ==
  ASSUME RestoreInv, NEW a \in Admins, Frames(a), RecoveryInv', OwnKept,
         Undisturbed /\ Undisturbed' => HistoryOK' /\ StartOK(a)' /\ UndoOK(a)'
  PROVE  RestoreInv'
<1>1. \A d \in Managed : member'[d] = "own"
  BY DevicesAssumption DEF RestoreInv, OwnKept
<1>2. ASSUME Undisturbed' PROVE HistoryOK' /\ \A c \in Admins : StartOK(c)' /\ UndoOK(c)'
  <2>1. Undisturbed
    BY <1>2, UndisturbedBefore, TypeParts DEF RestoreInv, RecoveryInv, TypeInv
  <2>2. ASSUME NEW c \in Admins, c # a PROVE StartOK(c)' /\ UndoOK(c)'
    BY <2>1, <2>2, BystanderKept DEF RestoreInv, RecoveryInv
  <2>. QED
    BY <1>2, <2>1, <2>2
<1>. QED
  BY <1>1, <1>2 DEF RestoreInv

\* The guard of a request that goes on stays its own.
LEMMA HeldGuard ==
  ASSUME TypeInv, NEW a \in Admins, pc[a] \in Guarded
  PROVE  guard = a /\ guard # None
BY GuardOwner, AdminsAssumption

LEMMA StillHistory ==
  ASSUME HistoryOK, UNCHANGED <<mode, local, record>>, guard' = None => guard = None
  PROVE  HistoryOK'
BY DEF HistoryOK, Full, Noted, Pristine

LEMMA HeldHistory ==
  ASSUME HistoryOK, record' = record \/ record'.state = "prepared", guard' # None
  PROVE  HistoryOK'
BY DEF HistoryOK, Full, Noted

LEMMA NotStarting ==
  ASSUME NEW a \in Admins, pc'[a] \notin Transferring \cup {"check"}
  PROVE  StartOK(a)'
BY DEF StartOK, Transferring

LEMMA NotUndoing ==
  ASSUME NEW a \in Admins, pc'[a] \notin Cleaning \cup {"check"}
  PROVE  UndoOK(a)'
BY DEF UndoOK, Cleaning

\* What Ends leaves behind: the guard is free, or was not this request's.
LEMMA EndsKeeps ==
  ASSUME NEW a \in Admins, Ends(a)
  PROVE  StartOK(a)' /\ UndoOK(a)'
BY NotStarting, NotUndoing DEF Ends, Moves, Transferring, Cleaning

LEMMA StageKeeps ==
  ASSUME RestoreInv, Undisturbed, Undisturbed', NEW a \in Admins, Stage(a)
  PROVE  HistoryOK' /\ StartOK(a)' /\ UndoOK(a)'
<1>1. /\ pc'[a] \in {"idle", "stage", "discard", "wait"} /\ guard' = guard
      /\ UNCHANGED <<mode, local, record>>
  BY Kept, StageEffect DEF Walks, Moves
<1>2. pc'[a] \notin Transferring \cup Cleaning \cup {"check"}
  BY <1>1 DEF Transferring, Cleaning
<1>. QED
  BY <1>1, <1>2, Kept, StillHistory, NotStarting, NotUndoing

LEMMA StageWriteKeeps ==
  ASSUME RestoreInv, Undisturbed, Undisturbed', NEW a \in Admins, StageWrite(a)
  PROVE  HistoryOK' /\ StartOK(a)' /\ UndoOK(a)'
<1>1. /\ pc'[a] \in {"idle", "stage", "discard", "wait"} /\ guard' = guard
      /\ UNCHANGED <<mode, local, record>>
  BY Kept, StageWriteEffect DEF Walks, Moves
<1>2. pc'[a] \notin Transferring \cup Cleaning \cup {"check"}
  BY <1>1 DEF Transferring, Cleaning
<1>. QED
  BY <1>1, <1>2, Kept, StillHistory, NotStarting, NotUndoing

LEMMA DiscardKeeps ==
  ASSUME RestoreInv, Undisturbed, Undisturbed', NEW a \in Admins, Discard(a)
  PROVE  HistoryOK' /\ StartOK(a)' /\ UndoOK(a)'
<1>1. /\ pc'[a] \in {"idle", "stage", "discard", "wait"} /\ guard' = guard
      /\ UNCHANGED <<mode, local, record>>
  BY Kept, DiscardEffect DEF Walks, Moves
<1>2. pc'[a] \notin Transferring \cup Cleaning \cup {"check"}
  BY <1>1 DEF Transferring, Cleaning
<1>. QED
  BY <1>1, <1>2, Kept, StillHistory, NotStarting, NotUndoing

LEMMA DiscardWriteKeeps ==
  ASSUME RestoreInv, Undisturbed, Undisturbed', NEW a \in Admins, DiscardWrite(a)
  PROVE  HistoryOK' /\ StartOK(a)' /\ UndoOK(a)'
<1>1. /\ pc'[a] \in {"idle", "stage", "discard", "wait"} /\ guard' = guard
      /\ UNCHANGED <<mode, local, record>>
  BY Kept, DiscardWriteEffect DEF Walks, Moves
<1>2. pc'[a] \notin Transferring \cup Cleaning \cup {"check"}
  BY <1>1 DEF Transferring, Cleaning
<1>. QED
  BY <1>1, <1>2, Kept, StillHistory, NotStarting, NotUndoing

LEMMA BeginKeeps ==
  ASSUME RestoreInv, Undisturbed, Undisturbed', NEW a \in Admins, Begin(a)
  PROVE  HistoryOK' /\ StartOK(a)' /\ UndoOK(a)'
<1>1. /\ guard = None /\ guard' # None /\ pc'[a] = "ready" /\ ev'[a] = ev[a]
      /\ ev[a] = NoEvidence /\ UNCHANGED <<mode, local, record>>
  BY Kept, BeginEffect, AdminsAssumption DEF FlowOK, Moves
<1>2. record.state # "prepared" /\ (record.state # "authoritative" => Pristine)
  BY <1>1, Kept DEF HistoryOK
<1>3. ev'[a].artifacts = "none" /\ ev'[a].created = {} /\ ev'[a].devices = {}
  BY <1>1 DEF NoEvidence
<1>4. StartOK(a)'
  BY <1>1, <1>2, <1>3 DEF StartOK, Pristine
<1>5. UndoOK(a)'
  BY <1>1, NotUndoing DEF Cleaning
<1>. QED
  BY <1>1, <1>4, <1>5, Kept, HeldHistory

LEMMA ReadyKeeps ==
  ASSUME RestoreInv, Undisturbed, Undisturbed', NEW a \in Admins, Ready(a)
  PROVE  HistoryOK' /\ StartOK(a)' /\ UndoOK(a)'
<1>1. /\ pc[a] = "ready" /\ UNCHANGED <<mode, local, record>>
      /\ record.state # "prepared" /\ (record.state # "authoritative" => Pristine)
      /\ ev[a].artifacts = "none" /\ ev[a].devices = {} /\ Managed \cap ev[a].created = {}
  BY Kept, ReadyEffect DEF StartOK, CutoverOK, Transferring
<1>2. ASSUME IsReady, Walks(a, "contract") PROVE HistoryOK' /\ StartOK(a)' /\ UndoOK(a)'
  <2>1. Pristine /\ pc'[a] = "contract" /\ ev'[a] = ev[a] /\ guard' = guard
    BY <1>1, <1>2 DEF IsReady, ActiveTransfer, Walks, Moves
  <2>2. guard' # None
    BY <1>1, <2>1, Kept, HeldGuard DEF Guarded, Transferring
  <2>3. StartOK(a)'
    BY <1>1, <2>1 DEF StartOK, Pristine, Transferring
  <2>4. UndoOK(a)'
    BY <2>1, NotUndoing DEF Cleaning
  <2>. QED
    BY <1>1, <2>2, <2>3, <2>4, Kept, HeldHistory
<1>3. ASSUME Ends(a) PROVE HistoryOK' /\ StartOK(a)' /\ UndoOK(a)'
  <2>1. HistoryOK'
    BY <1>1, Kept DEF HistoryOK, Full, Noted, Pristine
  <2>. QED
    BY <1>3, <2>1, EndsKeeps
<1>. QED
  BY <1>2, <1>3, Kept, ReadyEffect

LEMMA ReadyRaisesKeeps ==
  ASSUME RestoreInv, Undisturbed, Undisturbed', NEW a \in Admins, ReadyRaises(a)
  PROVE  HistoryOK' /\ StartOK(a)' /\ UndoOK(a)'
<1>1. /\ UNCHANGED <<mode, local, record>>
      /\ record.state # "prepared" /\ (record.state # "authoritative" => Pristine)
  BY Kept, ReadyRaisesEffect DEF StartOK
<1>2. HistoryOK'
  BY <1>1, Kept DEF HistoryOK, Full, Noted, Pristine
<1>. QED
  BY <1>2, Kept, ReadyRaisesEffect, EndsKeeps

LEMMA ContractKeeps ==
  ASSUME RestoreInv, Undisturbed, Undisturbed', NEW a \in Admins, Contract(a)
  PROVE  HistoryOK' /\ StartOK(a)' /\ UndoOK(a)'
<1>1. /\ pc[a] = "contract" /\ guard' # None /\ record' = record
  BY Kept, ContractEffect, HeldGuard DEF Guarded, Transferring, Cleaning
<1>2. /\ Pristine /\ ev[a].artifacts = "none" /\ Managed \cap ev[a].created = {}
      /\ ev[a].devices = {} /\ UNCHANGED <<mode, local>>
  BY <1>1, Kept, ContractEffect DEF StartOK, CutoverOK, Transferring
<1>3. pc'[a] = "materialize" /\ ev'[a] = WithProfiles(ev[a])
  BY Kept, ContractEffect DEF Moves
<1>4. /\ ev'[a].artifacts = "none" /\ ev'[a].devices = {} /\ Managed \cap ev'[a].created = {}
  BY <1>2, <1>3, Kept, WithProfilesEffect
<1>5. StartOK(a)'
  BY <1>2, <1>3, <1>4 DEF StartOK, Pristine
<1>6. UndoOK(a)'
  BY <1>3, NotUndoing DEF Cleaning
<1>. QED
  BY <1>1, <1>5, <1>6, Kept, HeldHistory

LEMMA MaterializeKeeps ==
  ASSUME RestoreInv, Undisturbed, Undisturbed', NEW a \in Admins, Materialize(a)
  PROVE  HistoryOK' /\ StartOK(a)' /\ UndoOK(a)'
<1>1. /\ pc[a] = "materialize" /\ guard' # None /\ record' = record
  BY Kept, MaterializeEffect, HeldGuard DEF Guarded, Transferring, Cleaning
<1>2. /\ Pristine /\ ev[a].devices = {} /\ Managed \cap ev[a].created = {} /\ mode' = mode
  BY <1>1, Kept, MaterializeEffect DEF StartOK, CutoverOK, Transferring
<1>3. pc'[a] = "prepared" /\ ev'[a] = WithArtifacts(ev[a])
  BY Kept, MaterializeEffect DEF Moves
<1>4. ~local
  BY <1>2 DEF Pristine
<1>5. /\ ev'[a].devices = {} /\ Managed \cap ev'[a].created = {}
  BY <1>2, <1>3, Kept, WithArtifactsEffect
<1>6. ev'[a].artifacts = "owned"
  BY <1>3, <1>4, Kept, WithArtifactsEffect
<1>7. StartOK(a)'
  BY <1>2, <1>3, <1>5, <1>6 DEF StartOK, Pristine
<1>8. UndoOK(a)'
  BY <1>3, NotUndoing DEF Cleaning
<1>. QED
  BY <1>1, <1>7, <1>8, Kept, HeldHistory

LEMMA PreparedKeeps ==
  ASSUME RestoreInv, Undisturbed, Undisturbed', NEW a \in Admins, Prepared(a)
  PROVE  HistoryOK' /\ StartOK(a)' /\ UndoOK(a)'
<1>1. /\ pc[a] = "prepared" /\ guard' # None /\ record'.state = "prepared"
      /\ ev'[a] = ev[a] /\ mode' = mode
  BY Kept, PreparedEffect, HeldGuard DEF Record, Guarded, Transferring, Turns, Moves
<1>2. pc'[a] = "adopt" /\ todo'[a] = Devices
  BY Kept, PreparedEffect DEF Turns, Moves
<1>3. StartOK(a)'
  BY <1>1, <1>2, Kept, DevicesAssumption DEF StartOK, Noted, Transferring
<1>4. UndoOK(a)'
  BY <1>2, NotUndoing DEF Cleaning
<1>. QED
  BY <1>1, <1>3, <1>4, Kept, HeldHistory

LEMMA AdoptKeeps ==
  ASSUME RestoreInv, Undisturbed, Undisturbed', NEW a \in Admins, Adopt(a)
  PROVE  HistoryOK' /\ StartOK(a)' /\ UndoOK(a)'
<1>1. /\ pc[a] = "adopt" /\ guard' # None /\ record' = record
  BY Kept, AdoptEffect, HeldGuard DEF Guarded, Transferring, Cleaning
<1>2. PICK d \in todo[a] :
        Moves(a, "note", kind[a], WithDevice(ev[a], d), todo[a] \ {d}, bad[a])
  BY Kept, AdoptEffect
<1>3. /\ pc'[a] = "note" /\ ev'[a] = WithDevice(ev[a], d) /\ todo'[a] = todo[a] \ {d}
      /\ d \in Devices /\ mode' = mode
  BY <1>1, <1>2, Kept, AdoptEffect DEF FlowOK, Moves
<1>4. /\ \A c \in Managed : mode[c] = "before"
      /\ ev[a].artifacts = "owned" /\ Managed \cap ev[a].created = {}
      /\ \A c \in Managed \cap ev[a].devices : Noted(ev[a], c)
      /\ Managed \ todo[a] \subseteq ev[a].devices
  BY <1>1, Kept DEF StartOK, Transferring
<1>5. /\ ev'[a].artifacts = ev[a].artifacts /\ ev'[a].devices = ev[a].devices \cup {d}
      /\ member[d] = "none" => ev'[a].created = ev[a].created \cup {d}
      /\ member[d] # "none" => ev'[a].created = ev[a].created
      /\ member[d] # "none" => ev'[a].was[d] = mode[d]
      /\ \A c \in Devices \ {d} : ev'[a].was[c] = ev[a].was[c]
  BY <1>3, Kept, WithDeviceEffect DEF SharedOK
<1>6. member[d] = "none" => d \notin Managed
  BY Kept
<1>7. Managed \cap ev'[a].created = {}
  BY <1>4, <1>5, <1>6
<1>8. \A c \in Managed \cap ev'[a].devices : Noted(ev'[a], c)
  <2>. TAKE c \in Managed \cap ev'[a].devices
  <2>1. c \in ev'[a].devices \ ev'[a].created
    BY <1>7
  <2>2. ASSUME c = d PROVE ev'[a].was[c] = "before"
    BY <1>4, <1>5, <1>6, <2>2
  <2>3. ASSUME c # d PROVE ev'[a].was[c] = "before"
    BY <1>4, <1>5, <2>3, Kept DEF Noted
  <2>. QED
    BY <2>1, <2>2, <2>3 DEF Noted
<1>9. StartOK(a)'
  <2>1. \A c \in Managed \cap ev'[a].devices : Noted(ev[a], c)'
    BY <1>8 DEF Noted
  <2>. QED
    BY <1>3, <1>4, <1>5, <1>7, <2>1 DEF StartOK
<1>10. UndoOK(a)'
  BY <1>3, NotUndoing DEF Cleaning
<1>. QED
  BY <1>1, <1>9, <1>10, Kept, HeldHistory

LEMMA NoteKeeps ==
  ASSUME RestoreInv, Undisturbed, Undisturbed', NEW a \in Admins, Note(a)
  PROVE  HistoryOK' /\ StartOK(a)' /\ UndoOK(a)'
<1>1. /\ pc[a] = "note" /\ guard' # None /\ record'.state = "prepared"
      /\ ev'[a] = ev[a] /\ mode' = mode
  BY Kept, NoteEffect, HeldGuard DEF Record, Guarded, Transferring, Walks, Turns, Moves
<1>2. \/ pc'[a] = "adopt" /\ todo'[a] = todo[a]
      \/ pc'[a] = "enforce" /\ todo[a] = {}
  BY Kept, NoteEffect DEF Walks, Turns, Moves
<1>3. StartOK(a)'
  BY <1>1, <1>2, Kept DEF StartOK, Noted, Transferring
<1>4. UndoOK(a)'
  BY <1>2, NotUndoing DEF Cleaning
<1>. QED
  BY <1>1, <1>3, <1>4, Kept, HeldHistory

LEMMA EnforceKeeps ==
  ASSUME RestoreInv, Undisturbed, Undisturbed', NEW a \in Admins, Enforce(a)
  PROVE  HistoryOK' /\ StartOK(a)' /\ UndoOK(a)'
<1>1. /\ pc[a] = "enforce" /\ guard' # None /\ record' = record
  BY Kept, EnforceEffect, HeldGuard DEF Guarded, Transferring, Cleaning, Turns
<1>2. pc'[a] = "enforce" /\ ev'[a] = ev[a]
  BY Kept, EnforceEffect DEF Walks, Turns, Moves
<1>3. StartOK(a)'
  BY <1>1, <1>2, Kept DEF StartOK, Noted, Transferring
<1>4. UndoOK(a)'
  BY <1>2, NotUndoing DEF Cleaning
<1>. QED
  BY <1>1, <1>3, <1>4, Kept, HeldHistory

LEMMA ProvenKeeps ==
  ASSUME RestoreInv, Undisturbed, Undisturbed', NEW a \in Admins, Proven(a)
  PROVE  HistoryOK' /\ StartOK(a)' /\ UndoOK(a)'
<1>1. /\ pc[a] = "enforce" /\ guard' # None /\ record'.state = "prepared"
      /\ ev'[a] = ev[a] /\ mode' = mode
  BY Kept, ProvenEffect, HeldGuard DEF Record, Guarded, Transferring, Turns, Moves
<1>2. pc'[a] = "disable"
  BY Kept, ProvenEffect DEF Turns, Moves
<1>3. StartOK(a)'
  BY <1>1, <1>2, Kept DEF StartOK, Noted, Transferring
<1>4. UndoOK(a)'
  BY <1>2, NotUndoing DEF Cleaning
<1>. QED
  BY <1>1, <1>3, <1>4, Kept, HeldHistory

LEMMA DisableKeeps ==
  ASSUME RestoreInv, Undisturbed, Undisturbed', NEW a \in Admins, Disable(a)
  PROVE  HistoryOK' /\ StartOK(a)' /\ UndoOK(a)'
<1>1. /\ pc[a] = "disable" /\ guard' # None /\ record' = record
  BY Kept, DisableEffect, HeldGuard DEF Guarded, Transferring, Cleaning, Turns
<1>2. pc'[a] = "disable" /\ ev'[a] = ev[a]
  BY Kept, DisableEffect DEF Walks, Turns, Moves
<1>3. StartOK(a)'
  BY <1>1, <1>2, Kept DEF StartOK, Noted, Transferring
<1>4. UndoOK(a)'
  BY <1>2, NotUndoing DEF Cleaning
<1>. QED
  BY <1>1, <1>3, <1>4, Kept, HeldHistory

LEMMA DisabledKeeps ==
  ASSUME RestoreInv, Undisturbed, Undisturbed', NEW a \in Admins, Disabled(a)
  PROVE  HistoryOK' /\ StartOK(a)' /\ UndoOK(a)'
<1>1. /\ pc[a] = "disable" /\ guard' # None /\ record' = record
  BY Kept, DisabledEffect, HeldGuard DEF Guarded, Transferring, Cleaning, Walks
<1>2. pc'[a] = "authoritative" /\ ev'[a] = ev[a]
  BY Kept, DisabledEffect DEF Walks, Turns, Moves
<1>3. StartOK(a)'
  BY <1>1, <1>2, Kept DEF StartOK, Noted, Transferring
<1>4. UndoOK(a)'
  BY <1>2, NotUndoing DEF Cleaning
<1>. QED
  BY <1>1, <1>3, <1>4, Kept, HeldHistory

LEMMA AuthoritativeKeeps ==
  ASSUME RestoreInv, Undisturbed, Undisturbed', NEW a \in Admins, Authoritative(a)
  PROVE  HistoryOK' /\ StartOK(a)' /\ UndoOK(a)'
<1>1. /\ Full(ev[a]) /\ ~ev[a].clean
  BY Kept, AuthoritativeEffect DEF StartOK, CutoverOK, Full, Transferring
<1>2. record'.state = "authoritative" /\ record'.evidence = ev[a]
  BY Kept, AuthoritativeEffect DEF Record
<1>3. HistoryOK'
  BY <1>1, <1>2 DEF HistoryOK, Full, Noted
<1>. QED
  BY <1>3, Kept, AuthoritativeEffect, EndsKeeps

LEMMA CutoverRaisesKeeps ==
  ASSUME RestoreInv, Undisturbed, Undisturbed', NEW a \in Admins, CutoverRaises(a)
  PROVE  HistoryOK' /\ StartOK(a)' /\ UndoOK(a)'
<1>1. /\ pc[a] \in {"contract", "materialize", "adopt", "enforce", "disable"}
      /\ pc'[a] = "enable" /\ kind'[a] = "cutover" /\ ev'[a] = ev[a] /\ bad'[a] = bad[a]
      /\ guard' = guard /\ UNCHANGED <<local, record>>
  BY Kept, CutoverRaisesEffect DEF FlowOK, Turns, Moves, Transferring
<1>2. guard' # None
  BY <1>1, Kept, HeldGuard DEF Guarded, Transferring
<1>3. faults' = 1
  <2>1. faults' = faults + 1 /\ faults \in Nat
    BY Kept, CutoverRaisesEffect, CountersTyped DEF Faulty, CountersOK
  <2>. QED
    BY <2>1 DEF Undisturbed
<1>4. ~bad'[a]
  BY <1>1, Kept DEF FlowOK, Cleaning
<1>5. /\ ~local \/ ev[a].artifacts = "owned"
      /\ \A d \in Managed \cap ev[a].devices : Noted(ev[a], d)
  BY <1>1, Kept DEF StartOK, Pristine, Transferring
<1>6. \A d \in Managed : mode'[d] = "before" \/ d \in ev[a].devices
  <2>1. ASSUME pc[a] \in {"contract", "materialize", "adopt"}
        PROVE  \A d \in Managed : mode'[d] = "before"
    BY <2>1, Kept, CutoverRaisesEffect DEF StartOK, Pristine
  <2>2. ASSUME pc[a] \in {"enforce", "disable"} PROVE Managed \subseteq ev[a].devices
    BY <2>2, Kept DEF StartOK
  <2>. QED
    BY <1>1, <2>1, <2>2
<1>7. UndoOK(a)'
  BY <1>1, <1>3, <1>4, <1>5, <1>6 DEF UndoOK, Noted
<1>8. StartOK(a)'
  BY <1>1, NotStarting DEF Transferring
<1>. QED
  BY <1>1, <1>2, <1>7, <1>8, Kept, HeldHistory

LEMMA ReadRecordKeeps ==
  ASSUME RestoreInv, Undisturbed, Undisturbed', NEW a \in Admins, ReadRecord(a)
  PROVE  HistoryOK' /\ StartOK(a)' /\ UndoOK(a)'
<1>1. /\ pc'[a] \in {"idle", "stage", "discard", "wait"} /\ guard' = guard
      /\ UNCHANGED <<mode, local, record>>
  BY Kept, ReadRecordEffect DEF Walks, Moves
<1>2. pc'[a] \notin Transferring \cup Cleaning \cup {"check"}
  BY <1>1 DEF Transferring, Cleaning
<1>. QED
  BY <1>1, <1>2, Kept, StillHistory, NotStarting, NotUndoing

LEMMA EnterGuardKeeps ==
  ASSUME RestoreInv, Undisturbed, Undisturbed', NEW a \in Admins, EnterGuard(a)
  PROVE  HistoryOK' /\ StartOK(a)' /\ UndoOK(a)'
<1>1. /\ guard = None /\ guard' # None /\ pc'[a] = "check" /\ UNCHANGED <<mode, local, record>>
  BY Kept, EnterGuardEffect, AdminsAssumption DEF Moves
<1>2. record.state # "prepared" /\ (record.state # "authoritative" => Pristine)
  BY <1>1, Kept DEF HistoryOK
<1>3. StartOK(a)'
  BY <1>1, <1>2 DEF StartOK, Pristine, Transferring
<1>4. UndoOK(a)'
  BY <1>1, <1>2 DEF UndoOK, Cleaning
<1>. QED
  BY <1>1, <1>3, <1>4, Kept, HeldHistory

LEMMA RollbackRefusedKeeps ==
  ASSUME RestoreInv, Undisturbed, Undisturbed', NEW a \in Admins, RollbackRefused(a)
  PROVE  HistoryOK' /\ StartOK(a)' /\ UndoOK(a)'
<1>1. Ends(a) /\ UNCHANGED <<mode, local, record>>
  BY Kept, RollbackRefusedEffect
<1>2. ASSUME pc[a] = "wait" PROVE HistoryOK'
  <2>1. guard' = guard
    BY <1>1, <1>2, Kept DEF FlowOK, Ends, Guarded, Transferring, Cleaning
  <2>. QED
    BY <1>1, <2>1, Kept, StillHistory
<1>3. ASSUME pc[a] = "check" PROVE HistoryOK'
  <2>1. record.state # "prepared" /\ (record.state # "authoritative" => Pristine)
    BY <1>3, Kept DEF StartOK, UndoOK, FlowOK
  <2>. QED
    BY <1>1, <2>1, Kept DEF HistoryOK, Full, Noted, Pristine
<1>. QED
  BY <1>1, <1>2, <1>3, Kept, RollbackRefusedEffect, EndsKeeps

LEMMA CheckKeeps ==
  ASSUME RestoreInv, Undisturbed, Undisturbed', NEW a \in Admins, Check(a)
  PROVE  HistoryOK' /\ StartOK(a)' /\ UndoOK(a)'
<1>1. /\ pc[a] = "check" /\ guard' # None /\ record' = record
  BY Kept, CheckEffect, HeldGuard DEF Guarded, Transferring, Cleaning, Walks, Turns
<1>2. /\ kind[a] = "rollback" /\ ActiveTransfer /\ ev[a] = record.evidence
      /\ record.state # "prepared" /\ (record.state # "authoritative" => Pristine)
      /\ UNCHANGED <<mode, local>> /\ ~bad[a]
  BY <1>1, Kept, CheckEffect DEF FlowOK, CleanupOK, StartOK, UndoOK, Cleaning
<1>3. ASSUME ev[a].clean, Walks(a, "prove") PROVE UndoOK(a)' /\ pc'[a] = "prove"
  <2>1. record.state # "authoritative" /\ Pristine
    BY <1>2, <1>3, Kept DEF HistoryOK
  <2>2. pc'[a] = "prove" /\ kind'[a] = "rollback"
    BY <1>2, <1>3 DEF Walks, Moves
  <2>. QED
    BY <1>1, <1>2, <2>1, <2>2 DEF UndoOK, Pristine
<1>4. ASSUME ~ev[a].clean, Turns(a, "enable", ev[a].profiles) PROVE UndoOK(a)' /\ pc'[a] = "enable"
  <2>1. record.state = "authoritative"
    BY <1>2, <1>4, Kept DEF HistoryOK, ActiveTransfer
  <2>2. Full(ev[a])
    BY <1>2, <2>1, Kept DEF HistoryOK
  <2>3. pc'[a] = "enable" /\ kind'[a] = "rollback" /\ ev'[a] = ev[a]
    BY <1>2, <1>4 DEF Turns, Moves
  <2>. QED
    BY <1>1, <2>1, <2>2, <2>3 DEF UndoOK, Full, Noted
<1>5. UndoOK(a)' /\ pc'[a] \in Cleaning
  BY <1>3, <1>4, Kept, CheckEffect DEF Cleaning
<1>6. StartOK(a)'
  BY <1>5, NotStarting DEF Transferring, Cleaning
<1>. QED
  BY <1>1, <1>5, <1>6, Kept, HeldHistory

LEMMA EnableKeeps ==
  ASSUME RestoreInv, Undisturbed, Undisturbed', NEW a \in Admins, Enable(a)
  PROVE  HistoryOK' /\ StartOK(a)' /\ UndoOK(a)'
<1>1. /\ pc[a] = "enable" /\ guard' # None /\ record' = record
  BY Kept, EnableEffect, HeldGuard DEF Guarded, Transferring, Cleaning, Turns
<1>2. /\ pc'[a] = "enable" /\ kind'[a] = kind[a] /\ ev'[a] = ev[a]
      /\ bad'[a] = bad[a] /\ UNCHANGED <<mode, local, faults>>
  BY Kept, EnableEffect DEF Calm, Walks, Turns, Moves
<1>8. UndoOK(a)'
  BY <1>1, <1>2, Kept DEF UndoOK, Pristine, Noted, Cleaning
<1>9. StartOK(a)'
  BY <1>2, NotStarting DEF Transferring
<1>. QED
  BY <1>1, <1>8, <1>9, Kept, HeldHistory

LEMMA ToModesKeeps ==
  ASSUME RestoreInv, Undisturbed, Undisturbed', NEW a \in Admins, ToModes(a)
  PROVE  HistoryOK' /\ StartOK(a)' /\ UndoOK(a)'
<1>1. /\ pc[a] = "enable" /\ guard' # None /\ record' = record
  BY Kept, ToModesEffect, HeldGuard DEF Guarded, Transferring, Cleaning, Turns
<1>2. /\ pc'[a] = "unmode" /\ kind'[a] = kind[a] /\ ev'[a] = ev[a]
      /\ bad'[a] = bad[a] /\ UNCHANGED <<mode, local, faults>>
      /\ todo'[a] = ev[a].devices \ ev[a].created
  BY Kept, ToModesEffect DEF Calm, Walks, Turns, Moves
<1>8. UndoOK(a)'
  BY <1>1, <1>2, Kept DEF UndoOK, Pristine, Noted, Cleaning
<1>9. StartOK(a)'
  BY <1>2, NotStarting DEF Transferring
<1>. QED
  BY <1>1, <1>8, <1>9, Kept, HeldHistory

LEMMA UnmodeKeeps ==
  ASSUME RestoreInv, Undisturbed, Undisturbed', NEW a \in Admins, Unmode(a)
  PROVE  HistoryOK' /\ StartOK(a)' /\ UndoOK(a)'
<1>1. /\ pc[a] = "unmode" /\ guard' # None /\ record' = record
  BY Kept, UnmodeEffect, HeldGuard DEF Guarded, Cleaning
<1>2. /\ todo[a] \subseteq ev[a].devices \ ev[a].created /\ todo[a] \subseteq Devices
      /\ Owned(ev[a]) /\ \A c \in Managed \cap ev[a].devices : Noted(ev[a], c)
  BY <1>1, Kept DEF UndoOK, CleanupOK, FlowOK, Cleaning
<1>3. \A d \in todo[a] : member[d] # "none"
  BY <1>2 DEF Owned
<1>4. PICK d \in todo[a] :
        /\ Turns(a, "unmode", todo[a] \ {d}) /\ mode' = [mode EXCEPT ![d] = ev[a].was[d]]
  <2>0. TypeOK
    BY Kept
  <2>1. PICK d \in todo[a] :
          \/ /\ member[d] # "none" /\ Turns(a, "unmode", todo[a] \ {d})
             /\ mode' = [mode EXCEPT ![d] = ev[a].was[d]]
          \/ member[d] = "none"
    BY <2>0, UnmodeEffect
  <2>. QED
    BY <1>3, <2>1
<1>5. /\ pc'[a] = "unmode" /\ kind'[a] = kind[a] /\ ev'[a] = ev[a] /\ bad'[a] = bad[a]
      /\ todo'[a] = todo[a] \ {d} /\ UNCHANGED <<local, faults>>
  BY <1>4, Kept, UnmodeEffect DEF Calm, Turns, Moves
<1>6. \A c \in Managed : mode[c] = "before" \/ c = d => mode'[c] = "before"
  BY <1>2, <1>4, Kept DEF Noted, SharedOK
<1>7. UndoOK(a)'
  BY <1>1, <1>2, <1>5, <1>6, Kept DEF UndoOK, Noted, Cleaning
<1>8. StartOK(a)'
  BY <1>5, NotStarting DEF Transferring
<1>. QED
  BY <1>1, <1>7, <1>8, Kept, HeldHistory

LEMMA ToMembersKeeps ==
  ASSUME RestoreInv, Undisturbed, Undisturbed', NEW a \in Admins, ToMembers(a)
  PROVE  HistoryOK' /\ StartOK(a)' /\ UndoOK(a)'
<1>1. /\ pc[a] = "unmode" /\ guard' # None /\ record' = record
  BY Kept, ToMembersEffect, HeldGuard DEF Guarded, Transferring, Cleaning, Turns
<1>2. /\ pc'[a] = "unadopt" /\ kind'[a] = kind[a] /\ ev'[a] = ev[a]
      /\ bad'[a] = bad[a] /\ UNCHANGED <<mode, local, faults>> /\ todo[a] = {}
  BY Kept, ToMembersEffect DEF Calm, Walks, Turns, Moves
<1>8. UndoOK(a)'
  BY <1>1, <1>2, Kept DEF UndoOK, Pristine, Noted, Cleaning
<1>9. StartOK(a)'
  BY <1>2, NotStarting DEF Transferring
<1>. QED
  BY <1>1, <1>8, <1>9, Kept, HeldHistory

LEMMA UnadoptKeeps ==
  ASSUME RestoreInv, Undisturbed, Undisturbed', NEW a \in Admins, Unadopt(a)
  PROVE  HistoryOK' /\ StartOK(a)' /\ UndoOK(a)'
<1>1. /\ pc[a] = "unadopt" /\ guard' # None /\ record' = record
  BY Kept, UnadoptEffect, HeldGuard DEF Guarded, Transferring, Cleaning, Turns
<1>2. /\ pc'[a] = "unadopt" /\ kind'[a] = kind[a] /\ ev'[a] = ev[a]
      /\ bad'[a] = bad[a] /\ UNCHANGED <<mode, local, faults>>
  BY Kept, UnadoptEffect DEF Calm, Walks, Turns, Moves
<1>8. UndoOK(a)'
  BY <1>1, <1>2, Kept DEF UndoOK, Pristine, Noted, Cleaning
<1>9. StartOK(a)'
  BY <1>2, NotStarting DEF Transferring
<1>. QED
  BY <1>1, <1>8, <1>9, Kept, HeldHistory

LEMMA ToLocalKeeps ==
  ASSUME RestoreInv, Undisturbed, Undisturbed', NEW a \in Admins, ToLocal(a)
  PROVE  HistoryOK' /\ StartOK(a)' /\ UndoOK(a)'
<1>1. /\ pc[a] = "unadopt" /\ guard' # None /\ record' = record
  BY Kept, ToLocalEffect, HeldGuard DEF Guarded, Transferring, Cleaning, Walks
<1>2. /\ pc'[a] = "unlocal" /\ kind'[a] = kind[a] /\ ev'[a] = ev[a]
      /\ bad'[a] = bad[a] /\ UNCHANGED <<mode, local, faults>>
  BY Kept, ToLocalEffect DEF Calm, Walks, Turns, Moves
<1>8. UndoOK(a)'
  BY <1>1, <1>2, Kept DEF UndoOK, Pristine, Noted, Cleaning
<1>9. StartOK(a)'
  BY <1>2, NotStarting DEF Transferring
<1>. QED
  BY <1>1, <1>8, <1>9, Kept, HeldHistory

LEMMA UnlocalKeeps ==
  ASSUME RestoreInv, Undisturbed, Undisturbed', NEW a \in Admins, Unlocal(a)
  PROVE  HistoryOK' /\ StartOK(a)' /\ UndoOK(a)'
<1>1. /\ pc[a] = "unlocal" /\ guard' # None /\ record' = record
  BY Kept, UnlocalEffect, HeldGuard DEF Guarded, Transferring, Cleaning, Walks
<1>2. /\ pc'[a] = "prove" /\ kind'[a] = kind[a] /\ ev'[a] = ev[a]
      /\ bad'[a] = bad[a] /\ UNCHANGED <<mode, faults>>
  BY Kept, UnlocalEffect DEF Calm, Walks, Turns, Moves
<1>3. ~local'
  BY <1>1, Kept, UnlocalEffect DEF UndoOK
<1>4. kind[a] \in {"cutover", "rollback"}
  BY <1>1, Kept DEF FlowOK, Cleaning
<1>8. UndoOK(a)'
  BY <1>1, <1>2, <1>3, <1>4, Kept DEF UndoOK, Pristine, Noted, Cleaning
<1>9. StartOK(a)'
  BY <1>2, NotStarting DEF Transferring
<1>. QED
  BY <1>1, <1>8, <1>9, Kept, HeldHistory

LEMMA ProveKeeps ==
  ASSUME RestoreInv, Undisturbed, Undisturbed', NEW a \in Admins, Prove(a)
  PROVE  HistoryOK' /\ StartOK(a)' /\ UndoOK(a)'
<1>1. /\ pc[a] = "prove" /\ guard' # None /\ record' = record
  BY Kept, ProveEffect, HeldGuard DEF Guarded, Transferring, Cleaning
<1>2. /\ pc'[a] = "close" /\ kind'[a] = kind[a] /\ ev'[a] = ev[a]
      /\ UNCHANGED <<mode, local, faults>>
  BY Kept, ProveEffect DEF Calm, Walks, Turns, Moves
<1>3. bad'[a] = (bad[a] \/ ~(ev[a].profiles \subseteq enabled))
  BY Kept, ProveEffect DEF Moves
<1>4. ~bad'[a] => ~bad[a]
  BY <1>3
<1>5. ~bad[a] => enabled = Profiles
  BY <1>1, Kept DEF CleanupOK, RestoredSoFar, Cleaning
<1>6. ~bad[a] => ~bad'[a]
  BY <1>3, <1>5, Kept, EvidenceFields
<1>8. UndoOK(a)'
  BY <1>1, <1>2, <1>4, <1>6, Kept DEF UndoOK, Pristine, Noted, Cleaning
<1>9. StartOK(a)'
  BY <1>2, NotStarting DEF Transferring
<1>. QED
  BY <1>1, <1>8, <1>9, Kept, HeldHistory

LEMMA CleanupRaisesKeeps ==
  ASSUME RestoreInv, Undisturbed, Undisturbed', NEW a \in Admins, CleanupRaises(a)
  PROVE  HistoryOK' /\ StartOK(a)' /\ UndoOK(a)'
<1>1. faults = 0
  <2>1. faults' = faults + 1 /\ faults \in Nat
    BY Kept, CleanupRaisesEffect, CountersTyped DEF Faulty, CountersOK
  <2>. QED
    BY <2>1 DEF Undisturbed
<1>2. pc[a] \in Cleaning /\ record' = record /\ guard' = guard
  BY Kept, CleanupRaisesEffect DEF FailedCall, FailedLocal, FailedProof, Cleaning
<1>3. kind[a] = "rollback" /\ record.state # "prepared"
  BY <1>1, <1>2, Kept DEF UndoOK, FlowOK
<1>4. guard' # None
  BY <1>2, Kept, HeldGuard DEF Guarded
<1>5. ASSUME FailedCall(a) PROVE UndoOK(a)' /\ pc'[a] \in Cleaning
  <2>1. PICK x \in todo[a] :
          /\ Moves(a, pc[a], kind[a], ev[a], todo[a] \ {x}, TRUE)
          /\ mode' = mode \/ (pc[a] = "unmode" /\ mode' = [mode EXCEPT ![x] = ev[a].was[x]])
    BY <1>5 DEF FailedCall
  <2>2. /\ pc'[a] = pc[a] /\ pc[a] \in {"enable", "unmode", "unadopt"} /\ kind'[a] = kind[a]
        /\ ev'[a] = ev[a] /\ todo'[a] = todo[a] \ {x} /\ bad'[a] /\ local' = local
    BY <1>5, <2>1 DEF FailedCall, Moves
  <2>. QED
    BY <1>2, <1>3, <2>1, <2>2, Kept DEF UndoOK, Noted, Cleaning
<1>6. ASSUME FailedLocal(a) PROVE UndoOK(a)' /\ pc'[a] \in Cleaning
  <2>1. pc[a] = "unlocal" /\ pc'[a] = "prove" /\ kind'[a] = kind[a] /\ bad'[a]
    BY <1>6 DEF FailedLocal, Moves
  <2>2. record.state = "authoritative"
    BY <1>3, <2>1, Kept DEF UndoOK
  <2>. QED
    BY <1>2, <1>3, <2>1, <2>2 DEF UndoOK, Cleaning
<1>7. ASSUME FailedProof(a) PROVE UndoOK(a)' /\ pc'[a] \in Cleaning
  <2>1. /\ pc[a] = "prove" /\ pc'[a] = "close" /\ kind'[a] = kind[a] /\ bad'[a]
        /\ UNCHANGED <<mode, local>>
    BY <1>7 DEF FailedProof, Moves
  <2>. QED
    BY <1>2, <1>3, <2>1, Kept DEF UndoOK, Pristine, Cleaning
<1>8. UndoOK(a)' /\ pc'[a] \in Cleaning
  BY <1>5, <1>6, <1>7, Kept, CleanupRaisesEffect
<1>9. StartOK(a)'
  BY <1>8, NotStarting DEF Transferring, Cleaning
<1>. QED
  BY <1>2, <1>4, <1>8, <1>9, Kept, HeldHistory

LEMMA CloseKeeps ==
  ASSUME RestoreInv, Undisturbed, Undisturbed', NEW a \in Admins, Close(a)
  PROVE  HistoryOK' /\ StartOK(a)' /\ UndoOK(a)'
<1>1. /\ pc[a] = "close" /\ UNCHANGED <<mode, local>>
      /\ kind[a] = "cutover" => ~bad[a]
      /\ kind[a] = "rollback" => record.state # "prepared"
      /\ ~bad[a] \/ record.state # "authoritative" => Pristine
  BY Kept, CloseEffect DEF UndoOK, Cleaning
<1>2. Pristine => Pristine'
  BY <1>1 DEF Pristine
<1>3. ASSUME ~bad[a], Record("failed", WithOutcome(ev[a], bad[a])) PROVE HistoryOK'
  <2>1. record'.state = "failed" /\ record'.evidence = WithOutcome(ev[a], bad[a])
    BY <1>3 DEF Record
  <2>2. WithOutcome(ev[a], bad[a]).clean = ~bad[a]
    BY Kept, WithOutcomeEffect
  <2>3. record'.evidence.clean
    BY <1>3, <2>1, <2>2
  <2>. QED
    BY <1>1, <1>2, <1>3, <2>1, <2>3 DEF HistoryOK
<1>4. ASSUME ~bad[a], Record("rolled_back", NoEvidence) PROVE HistoryOK'
  BY <1>1, <1>2, <1>4 DEF HistoryOK, Record
<1>5. ASSUME kind[a] = "rollback", record' = record PROVE HistoryOK'
  BY <1>1, <1>2, <1>5, Kept DEF HistoryOK, Full, Noted
<1>6. HistoryOK'
  BY <1>1, <1>3, <1>4, <1>5, Kept, CloseEffect
<1>. QED
  BY <1>6, Kept, CloseEffect, EndsKeeps

LEMMA StagingOwnKeeps ==
  ASSUME TypeInv, NEW a \in Admins, Staging(a)
  PROVE  OwnKept
BY RequestTyped, StageEffect, StageWriteEffect, DiscardEffect,
   DiscardWriteEffect DEF Staging, OwnKept

LEMMA CutoverOwnKeeps ==
  ASSUME TypeInv, NEW a \in Admins, Cutover(a)
  PROVE  OwnKept
<1>1. ASSUME Adopt(a) PROVE OwnKept
  BY <1>1, RequestTyped, AdoptEffect, AdoptedRow
<1>2. ASSUME CutoverRaises(a) PROVE OwnKept
  <2>1. \/ member' = member
        \/ pc[a] = "adopt" /\ \E d \in todo[a] : member' = [member EXCEPT ![d] = Adopted(d)]
    BY <1>2, RequestTyped, CutoverRaisesEffect
  <2>. QED
    BY <2>1, RequestTyped, AdoptedRow DEF OwnKept
<1>3. ASSUME Begin(a) \/ Ready(a) \/ ReadyRaises(a) \/ Contract(a) \/ Materialize(a) \/ Prepared(a)
             \/ Note(a) \/ Enforce(a) \/ Proven(a) \/ Disable(a) \/ Disabled(a) \/ Authoritative(a)
      PROVE  OwnKept
  BY <1>3, RequestTyped, BeginEffect, ReadyEffect, ReadyRaisesEffect,
     ContractEffect, MaterializeEffect, PreparedEffect, NoteEffect,
     EnforceEffect, ProvenEffect, DisableEffect, DisabledEffect,
     AuthoritativeEffect DEF OwnKept
<1>. QED
  BY <1>1, <1>2, <1>3 DEF Cutover

LEMMA RollbackOwnKeeps ==
  ASSUME TypeInv, NEW a \in Admins, Rollback(a)
  PROVE  OwnKept
BY RequestTyped, ReadRecordEffect, EnterGuardEffect, RollbackRefusedEffect,
   CheckEffect DEF Rollback, OwnKept

LEMMA CleanupOwnKeeps ==
  ASSUME TypeInv, NEW a \in Admins, Cleanup(a)
  PROVE  OwnKept
<1>1. ASSUME Unadopt(a) PROVE OwnKept
  BY <1>1, RequestTyped, UnadoptEffect, UnadoptedRow
<1>2. ASSUME CleanupRaises(a) PROVE OwnKept
  <2>1. \/ member' = member
        \/ pc[a] = "unadopt" /\ \E d \in todo[a] : member' = [member EXCEPT ![d] = Unadopted(d)]
    BY <1>2, RequestTyped, CleanupRaisesEffect DEF FailedCall, FailedLocal, FailedProof
  <2>. QED
    BY <2>1, RequestTyped, UnadoptedRow DEF OwnKept
<1>3. ASSUME Enable(a) \/ ToModes(a) \/ Unmode(a) \/ ToMembers(a) \/ ToLocal(a) \/ Unlocal(a)
             \/ Prove(a) \/ Close(a)
      PROVE  OwnKept
  BY <1>3, RequestTyped, EnableEffect, ToModesEffect, UnmodeEffect,
     ToMembersEffect, ToLocalEffect, UnlocalEffect, ProveEffect, CloseEffect DEF OwnKept
<1>. QED
  BY <1>1, <1>2, <1>3 DEF Cleanup

LEMMA StagingKeeps ==
  ASSUME RestoreInv, NEW a \in Admins, Staging(a)
  PROVE  RestoreInv'
<1>1. RecoveryInv /\ TypeInv
  BY DEF RestoreInv, RecoveryInv
<1>2. Frames(a) /\ RecoveryInv' /\ OwnKept
  BY <1>1, StagingFrames, StagingRecovers, StagingOwnKeeps
<1>3. Undisturbed /\ Undisturbed' => HistoryOK' /\ StartOK(a)' /\ UndoOK(a)'
  BY StageKeeps, StageWriteKeeps, DiscardKeeps, DiscardWriteKeeps DEF Staging
<1>. QED
  BY <1>2, <1>3, OthersKept

LEMMA CutoverKeeps ==
  ASSUME RestoreInv, NEW a \in Admins, Cutover(a)
  PROVE  RestoreInv'
<1>1. RecoveryInv /\ TypeInv
  BY DEF RestoreInv, RecoveryInv
<1>2. Frames(a) /\ RecoveryInv' /\ OwnKept
  BY <1>1, CutoverFrames, CutoverRecovers, CutoverOwnKeeps
<1>3. Undisturbed /\ Undisturbed' => HistoryOK' /\ StartOK(a)' /\ UndoOK(a)'
  BY BeginKeeps, ReadyKeeps, ReadyRaisesKeeps, ContractKeeps,
     MaterializeKeeps, PreparedKeeps, AdoptKeeps, NoteKeeps, EnforceKeeps,
     ProvenKeeps, DisableKeeps, DisabledKeeps, AuthoritativeKeeps,
     CutoverRaisesKeeps DEF Cutover
<1>. QED
  BY <1>2, <1>3, OthersKept

LEMMA RollbackKeeps ==
  ASSUME RestoreInv, NEW a \in Admins, Rollback(a)
  PROVE  RestoreInv'
<1>1. RecoveryInv /\ TypeInv
  BY DEF RestoreInv, RecoveryInv
<1>2. Frames(a) /\ RecoveryInv' /\ OwnKept
  BY <1>1, RollbackFrames, RollbackRecovers, RollbackOwnKeeps
<1>3. Undisturbed /\ Undisturbed' => HistoryOK' /\ StartOK(a)' /\ UndoOK(a)'
  BY ReadRecordKeeps, EnterGuardKeeps, RollbackRefusedKeeps, CheckKeeps DEF Rollback
<1>. QED
  BY <1>2, <1>3, OthersKept

LEMMA CleanupKeeps ==
  ASSUME RestoreInv, NEW a \in Admins, Cleanup(a)
  PROVE  RestoreInv'
<1>1. RecoveryInv /\ TypeInv
  BY DEF RestoreInv, RecoveryInv
<1>2. Frames(a) /\ RecoveryInv' /\ OwnKept
  BY <1>1, CleanupFrames, CleanupRecovers, CleanupOwnKeeps
<1>3. Undisturbed /\ Undisturbed' => HistoryOK' /\ StartOK(a)' /\ UndoOK(a)'
  BY EnableKeeps, ToModesKeeps, UnmodeKeeps, ToMembersKeeps, UnadoptKeeps,
     ToLocalKeeps, UnlocalKeeps, ProveKeeps, CleanupRaisesKeeps, CloseKeeps DEF Cleanup
<1>. QED
  BY <1>2, <1>3, OthersKept

LEMMA InitKept == Init => RestoreInv
<1>. SUFFICES ASSUME Init PROVE RestoreInv
  OBVIOUS
<1>1. \A d \in Managed : member[d] = "own"
  BY DevicesAssumption DEF Init
<1>2. HistoryOK
  BY DevicesAssumption DEF Init, HistoryOK, Pristine
<1>3. \A a \in Admins : StartOK(a) /\ UndoOK(a)
  BY DEF Init, StartOK, UndoOK, Transferring, Cleaning
<1>. QED
  BY <1>1, <1>2, <1>3, InitRecovery DEF RestoreInv

LEMMA NextKeeps ==
  ASSUME RestoreInv, [Next]_vars
  PROVE  RestoreInv'
<1>0. RecoveryInv /\ TypeInv /\ TypeOK /\ SharedOK /\ CountersOK /\ RecoveryInv'
  BY NextRecovers, TypeParts DEF RestoreInv, RecoveryInv, TypeInv
<1>1. ASSUME NEW a \in Admins, Staging(a) \/ Cutover(a) \/ Rollback(a) \/ Cleanup(a)
      PROVE  RestoreInv'
  BY <1>1, StagingKeeps, CutoverKeeps, RollbackKeeps, CleanupKeeps
<1>2. ASSUME NEW d \in Devices, Reconcile(d) PROVE RestoreInv'
  <2>1. /\ guard = None /\ mode' = [mode EXCEPT ![d] = IF local THEN "policy" ELSE "before"]
        /\ UNCHANGED <<member, local, record, guard, pc, faults, crashes, outdated>>
    BY <1>0, <1>2, ReconcileEffect DEF Calm
  <2>2. Pristine => Pristine'
    BY <1>0, <2>1, DevicesAssumption DEF Pristine, SharedOK
  <2>3. ASSUME NEW a \in Admins PROVE pc'[a] \notin Guarded
    BY <1>0, <2>1, GuardOwner, AdminsAssumption
  <2>4. ASSUME NEW a \in Admins PROVE StartOK(a)' /\ UndoOK(a)'
    BY <2>3, NotStarting, NotUndoing DEF Guarded
  <2>5. HistoryOK => HistoryOK'
    BY <2>1, <2>2 DEF HistoryOK, Full, Noted
  <2>. QED
    BY <1>0, <2>1, <2>4, <2>5 DEF RestoreInv, Undisturbed
<1>3. ASSUME LegacyEdit \/ UNCHANGED vars PROVE RestoreInv'
  <2>1. /\ UNCHANGED <<enabled, member, mode, local, record, guard, pc, kind, ev, todo, bad>>
        /\ UNCHANGED <<faults, crashes, outdated>>
    BY <1>0, <1>3, AsideEffect DEF Aside, Calm
  <2>2. ASSUME NEW a \in Admins, StartOK(a), UndoOK(a) PROVE StartOK(a)' /\ UndoOK(a)'
    <3>1. StartOK(a)'
      BY <2>1, <2>2 DEF StartOK, Pristine, Noted
    <3>2. UndoOK(a)'
      BY <2>1, <2>2 DEF UndoOK, Pristine, Noted
    <3>. QED
      BY <3>1, <3>2
  <2>3. HistoryOK => HistoryOK'
    BY <2>1, StillHistory
  <2>. QED
    BY <1>0, <2>1, <2>2, <2>3 DEF RestoreInv, Undisturbed
<1>4. ASSUME Crash PROVE RestoreInv'
  <2>1. crashes' = crashes + 1 /\ crashes \in Nat /\ member' = member
    BY <1>0, <1>4, CrashEffect DEF CountersOK
  <2>2. crashes' # 0
    BY <2>1
  <2>. QED
    BY <1>0, <2>1, <2>2 DEF RestoreInv, Undisturbed
<1>. QED
  BY <1>1, <1>2, <1>3, <1>4 DEF Next

\* A transfer that is rolled back, after at most one failing call and no crash and
\* from current evidence, leaves the devices that ZEN managed before as they were
\* (_kid_control_restore_failed_transfer).
THEOREM RollbackRestores == Spec => []RolledBackRestores
<1>1. RestoreInv /\ [Next]_vars => RestoreInv'
  BY NextKeeps
<1>2. RestoreInv => RolledBackRestores
  BY DEF RestoreInv, HistoryOK, Pristine, RolledBackRestores, RolledBack, Undisturbed
<1>. QED
  BY <1>1, <1>2, InitKept, PTL DEF Spec

=============================================================================
