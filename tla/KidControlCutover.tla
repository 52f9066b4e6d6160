--------------------------- MODULE KidControlCutover ---------------------------
(***************************************************************************)
(* Transfer of authority from MikroTik Kid Control to ZEN, and back        *)
(* (app/main.py, app/kid_control_cutover.py, and the calls they make in    *)
(* app/policy_store.py and app/router.py).                                 *)
(*                                                                         *)
(* A cutover materialises the staged policy in SQLite, adopts the devices  *)
(* into Restricted_Devices, has ZEN enforce them, and only then disables   *)
(* the legacy profiles.  After each part it appends an event with the      *)
(* evidence that a rollback, or its own clean-up, works from.  One action  *)
(* is one RouterOS operation or one SQLite transaction.                    *)
(*                                                                         *)
(* The mode of a device is "policy" when RouterOS carries what the staged  *)
(* policy asks for and "before" when it carries what was there earlier.    *)
(* Devices and profiles are handled in any order.                          *)
(***************************************************************************)
EXTENDS Naturals, FiniteSets

CONSTANTS
  Admins,       \* request threads of administrators
  None,         \* nobody owns the authority-transfer guard
  Devices,      \* devices configured in Kid Control
  Managed,      \* those that ZEN managed before
  Profiles,     \* Kid Control profiles
  ProfileOf,    \* device -> its Kid Control profile
  MaxTransfers, \* bound: cutovers and rollbacks
  MaxFaults,    \* bound: calls that fail
  MaxCrashes    \* bound: crashes, and SQLite errors nobody catches

ASSUME AdminsAssumption == None \notin Admins
ASSUME DevicesAssumption ==
  Managed \subseteq Devices /\ ProfileOf \in [Devices -> Profiles]
ASSUME BoundsAssumption ==
  MaxTransfers \in Nat /\ MaxFaults \in Nat /\ MaxCrashes \in Nat

VARIABLES
  enabled,  \* legacy profiles that are enabled
  member,   \* device -> its row in Restricted_Devices: none, ZEN's own, migration's
  mode,     \* device -> its enforced mode
  local,    \* the staged policy is the devices' desired policy
  staged,   \* legacy_migration_staging, and whether its fingerprint still matches
  record,   \* last legacy_migration_cutover_events row: state and evidence
  guard,    \* owner of authority_transfer_guard
  pc, kind, \* admin -> next step, of a cutover or a rollback
  ev,       \* admin -> evidence it gathers, or that its rollback works from
  todo,     \* admin -> devices or profiles left in this step
  bad,      \* admin -> its clean-up met an error
  outdated, \* history: a rollback got the guard with evidence that had changed
  transfers, faults, crashes

routeros == <<enabled, member, mode>>
store == <<local, staged, record>>
thread == <<pc, kind, ev, todo, bad>>
bounds == <<transfers, faults, crashes>>
vars == <<routeros, store, guard, thread, outdated, bounds>>

-----------------------------------------------------------------------------
Modes == {"before", "policy"}
\* artifacts: the ledger of materialize_kid_control_replacement, which owns what
\* it created and leaves alone what it found.  devices, created, was:
\* router_devices and live_before.  clean: cleanup_complete of a failed event.
Evidence ==
  [profiles : SUBSET Profiles, artifacts : {"none", "owned", "reused"},
   devices : SUBSET Devices, created : SUBSET Devices, was : [Devices -> Modes],
   clean : BOOLEAN]
NoEvidence ==
  [profiles |-> {}, artifacts |-> "none", devices |-> {}, created |-> {},
   was |-> [d \in Devices |-> "before"], clean |-> FALSE]
States == {"none", "prepared", "authoritative", "failed", "rolled_back"}

Transferring == {"ready", "contract", "materialize", "prepared", "adopt", "note",
                 "enforce", "proven", "disable", "authoritative"}
Cleaning == {"enable", "unmode", "unadopt", "unlocal", "prove", "close"}
Guarded == Transferring \cup Cleaning \cup {"check"}

TypeOK ==
  /\ enabled \subseteq Profiles
  /\ member \in [Devices -> {"none", "own", "migration"}]
  /\ mode \in [Devices -> Modes]
  /\ local \in BOOLEAN
  /\ staged \in {"none", "fresh", "stale"}
  /\ record \in [state : States, evidence : Evidence]
  /\ guard \in Admins \cup {None}
  /\ pc \in [Admins -> Guarded \cup {"idle", "stage", "discard", "wait"}]
  /\ kind \in [Admins -> {"none", "cutover", "rollback"}]
  /\ ev \in [Admins -> Evidence]
  /\ todo \in [Admins -> SUBSET (Devices \cup Profiles)]
  /\ bad \in [Admins -> BOOLEAN]
  /\ outdated \in BOOLEAN
  /\ transfers \in 0..MaxTransfers
  /\ faults \in 0..MaxFaults
  /\ crashes \in 0..MaxCrashes

Init ==
  /\ enabled = Profiles
  /\ member = [d \in Devices |-> IF d \in Managed THEN "own" ELSE "none"]
  /\ mode = [d \in Devices |-> "before"]
  /\ local = FALSE
  /\ staged = "none"
  /\ record = [state |-> "none", evidence |-> NoEvidence]
  /\ guard = None
  /\ pc = [a \in Admins |-> "idle"]
  /\ kind = [a \in Admins |-> "none"]
  /\ ev = [a \in Admins |-> NoEvidence]
  /\ todo = [a \in Admins |-> {}]
  /\ bad = [a \in Admins |-> FALSE]
  /\ outdated = FALSE
  /\ transfers = 0 /\ faults = 0 /\ crashes = 0

-----------------------------------------------------------------------------
(* Control flow of a request.                                              *)

ActiveTransfer == record.state \in {"prepared", "authoritative", "failed"}

Goto(a, l) == pc' = [pc EXCEPT ![a] = l] /\ UNCHANGED <<kind, ev, todo, bad, guard>>
Each(a, l, s) ==
  /\ pc' = [pc EXCEPT ![a] = l]
  /\ todo' = [todo EXCEPT ![a] = s]
  /\ UNCHANGED <<kind, ev, bad, guard>>
Done(a, x) == todo' = [todo EXCEPT ![a] = @ \ {x}]

\* The request ends, and leaves the guard.
End(a) ==
  /\ pc' = [pc EXCEPT ![a] = "idle"]
  /\ kind' = [kind EXCEPT ![a] = "none"]
  /\ ev' = [ev EXCEPT ![a] = NoEvidence]
  /\ todo' = [todo EXCEPT ![a] = {}]
  /\ bad' = [bad EXCEPT ![a] = FALSE]
  /\ guard' = IF guard = a THEN None ELSE guard

Record(s, e) == record' = [state |-> s, evidence |-> e]
Fault == faults < MaxFaults /\ faults' = faults + 1 /\ UNCHANGED <<transfers, crashes>>
Transfer ==
  transfers < MaxTransfers /\ transfers' = transfers + 1 /\ UNCHANGED <<faults, crashes>>

-----------------------------------------------------------------------------
(* Staging: the state of the transfer is read first, the row written later. *)

Stage(a) ==
  /\ pc[a] = "idle" /\ ~ActiveTransfer /\ staged # "fresh"
  /\ Goto(a, "stage")
  /\ UNCHANGED <<routeros, store, bounds, outdated>>

StageWrite(a) ==
  /\ pc[a] = "stage"
  /\ staged' = "fresh"
  /\ Goto(a, "idle")
  /\ UNCHANGED <<routeros, local, record, bounds, outdated>>

Discard(a) ==
  /\ pc[a] = "idle" /\ ~ActiveTransfer /\ staged # "none"
  /\ Goto(a, "discard")
  /\ UNCHANGED <<routeros, store, bounds, outdated>>

DiscardWrite(a) ==
  /\ pc[a] = "discard"
  /\ staged' = "none"
  /\ Goto(a, "idle")
  /\ UNCHANGED <<routeros, local, record, bounds, outdated>>

\* Kid Control is edited in RouterOS, so the staged fingerprint is outdated.
LegacyEdit ==
  /\ staged = "fresh"
  /\ staged' = "stale"
  /\ UNCHANGED <<routeros, local, record, guard, thread, bounds, outdated>>

-----------------------------------------------------------------------------
(* kid_control_migration_cutover.                                          *)

Begin(a) ==
  /\ pc[a] = "idle" /\ guard = None
  /\ Transfer
  /\ guard' = a
  /\ pc' = [pc EXCEPT ![a] = "ready"]
  /\ kind' = [kind EXCEPT ![a] = "cutover"]
  /\ UNCHANGED <<routeros, store, ev, todo, bad, outdated>>

\* build_kid_control_cutover_readiness
IsReady == ~ActiveTransfer /\ staged = "fresh" /\ enabled = Profiles

Ready(a) ==
  /\ pc[a] = "ready"
  /\ IF IsReady THEN Goto(a, "contract") ELSE End(a)
  /\ UNCHANGED <<routeros, store, bounds, outdated>>

\* The legacy configuration cannot be read: nothing was done, nothing is recorded.
ReadyRaises(a) ==
  /\ pc[a] = "ready"
  /\ Fault
  /\ End(a)
  /\ UNCHANGED <<routeros, store, outdated>>

\* assert_policy_enforcement_ready holds; the profiles are taken down.
WithProfiles(e) == [e EXCEPT !.profiles = Profiles]

Contract(a) ==
  /\ pc[a] = "contract"
  /\ ev' = [ev EXCEPT ![a] = WithProfiles(ev[a])]
  /\ pc' = [pc EXCEPT ![a] = "materialize"]
  /\ UNCHANGED <<routeros, store, guard, kind, todo, bad, bounds, outdated>>

WithArtifacts(e) == [e EXCEPT !.artifacts = IF local THEN "reused" ELSE "owned"]

\* Several transactions, undone together when one of them fails.
Materialize(a) ==
  /\ pc[a] = "materialize"
  /\ local' = TRUE
  /\ ev' = [ev EXCEPT ![a] = WithArtifacts(ev[a])]
  /\ pc' = [pc EXCEPT ![a] = "prepared"]
  /\ UNCHANGED <<routeros, staged, record, guard, kind, todo, bad, bounds, outdated>>

\* Mutant: evidence waits for the first adopted device.
PreparedLate(a) ==
  /\ pc[a] = "prepared"
  /\ Each(a, "adopt", Devices)
  /\ UNCHANGED <<routeros, store, bounds, outdated>>

\* Evidence is written before the first RouterOS write.
Prepared(a) ==
  /\ pc[a] = "prepared"
  /\ Record("prepared", ev[a])
  /\ Each(a, "adopt", Devices)
  /\ UNCHANGED <<routeros, local, staged, bounds, outdated>>

\* prepare_kid_control_migration_device adds a row where none is.
Adopted(d) == IF member[d] = "none" THEN "migration" ELSE member[d]

\* ... and notes whether it did, or else the mode that it found.
WithDevice(e, d) ==
  LET created == member[d] = "none" IN
  [e EXCEPT !.devices = @ \cup {d},
            !.created = IF created THEN @ \cup {d} ELSE @,
            !.was = [@ EXCEPT ![d] = IF created THEN "before" ELSE mode[d]]]

Adopt(a) ==
  /\ pc[a] = "adopt"
  /\ \E d \in todo[a] :
       /\ member' = [member EXCEPT ![d] = Adopted(d)]
       /\ ev' = [ev EXCEPT ![a] = WithDevice(ev[a], d)]
       /\ Done(a, d)
  /\ pc' = [pc EXCEPT ![a] = "note"]
  /\ UNCHANGED <<enabled, mode, store, guard, kind, bad, bounds, outdated>>

\* Mutant: the legacy profiles are disabled before ZEN enforces.
NoteSkipsEnforce(a) ==
  /\ pc[a] = "note"
  /\ Record("prepared", ev[a])
  /\ IF todo[a] = {} THEN Each(a, "disable", ev[a].profiles) ELSE Goto(a, "adopt")
  /\ UNCHANGED <<routeros, local, staged, bounds, outdated>>

Note(a) ==
  /\ pc[a] = "note"
  /\ Record("prepared", ev[a])
  /\ IF todo[a] = {} THEN Each(a, "enforce", Devices) ELSE Goto(a, "adopt")
  /\ UNCHANGED <<routeros, local, staged, bounds, outdated>>

\* reconcile_device, verified by a second plan.
Enforce(a) ==
  /\ pc[a] = "enforce"
  /\ \E d \in todo[a] : mode' = [mode EXCEPT ![d] = "policy"] /\ Done(a, d)
  /\ UNCHANGED <<enabled, member, store, guard, pc, kind, ev, bad, bounds, outdated>>

Proven(a) ==
  /\ pc[a] = "enforce" /\ todo[a] = {}
  /\ Record("prepared", ev[a])
  /\ Each(a, "disable", ev[a].profiles)
  /\ UNCHANGED <<routeros, local, staged, bounds, outdated>>

Disable(a) ==
  /\ pc[a] = "disable"
  /\ \E p \in todo[a] : enabled' = enabled \ {p} /\ Done(a, p)
  /\ UNCHANGED <<member, mode, store, guard, pc, kind, ev, bad, bounds, outdated>>

\* A fresh snapshot shows none of the profiles active.
Disabled(a) ==
  /\ pc[a] = "disable" /\ todo[a] = {}
  /\ enabled \cap ev[a].profiles = {}
  /\ Goto(a, "authoritative")
  /\ UNCHANGED <<routeros, store, bounds, outdated>>

Authoritative(a) ==
  /\ pc[a] = "authoritative"
  /\ Record("authoritative", ev[a])
  /\ End(a)
  /\ UNCHANGED <<routeros, local, staged, bounds, outdated>>

\* A step of the cutover raises, before or after its effect, and clean-up begins
\* with the evidence gathered so far.
CutoverRaises(a) ==
  /\ pc[a] \in {"contract", "materialize", "adopt", "enforce", "disable"}
  /\ Fault
  /\ \/ UNCHANGED routeros
     \/ /\ pc[a] = "adopt"
        /\ \E d \in todo[a] : member' = [member EXCEPT ![d] = Adopted(d)]
        /\ UNCHANGED <<enabled, mode>>
     \/ /\ pc[a] = "enforce"
        /\ \E d \in todo[a] : mode' = [mode EXCEPT ![d] = "policy"]
        /\ UNCHANGED <<enabled, member>>
     \/ /\ pc[a] = "disable"
        /\ \E p \in todo[a] : enabled' = enabled \ {p}
        /\ UNCHANGED <<member, mode>>
  /\ Each(a, "enable", ev[a].profiles)
  /\ UNCHANGED <<store, outdated>>

-----------------------------------------------------------------------------
(* kid_control_migration_rollback reads its evidence, then gets the guard. *)

ReadRecord(a) ==
  /\ pc[a] = "idle" /\ ActiveTransfer
  /\ Transfer
  /\ kind' = [kind EXCEPT ![a] = "rollback"]
  /\ ev' = [ev EXCEPT ![a] = record.evidence]
  /\ pc' = [pc EXCEPT ![a] = "wait"]
  /\ UNCHANGED <<routeros, store, guard, todo, bad, outdated>>

EnterGuard(a) ==
  /\ pc[a] = "wait" /\ guard = None
  /\ guard' = a
  /\ pc' = [pc EXCEPT ![a] = "check"]
  /\ outdated' = (outdated \/ ~ActiveTransfer \/ ev[a] # record.evidence)
  /\ UNCHANGED <<routeros, store, kind, ev, todo, bad, bounds>>

\* The guard is not to be had in time, or the contract is degraded.
RollbackRefused(a) ==
  /\ \/ pc[a] = "wait" /\ guard # None /\ UNCHANGED bounds
     \/ pc[a] = "check" /\ Fault
  /\ End(a)
  /\ UNCHANGED <<routeros, store, outdated>>

\* A failed event whose clean-up completed only needs its proof.
Check(a) ==
  /\ pc[a] = "check"
  /\ IF ev[a].clean THEN Goto(a, "prove") ELSE Each(a, "enable", ev[a].profiles)
  /\ UNCHANGED <<routeros, store, bounds, outdated>>

-----------------------------------------------------------------------------
(* _kid_control_restore_failed_transfer: every step is tried, whatever     *)
(* became of the others.                                                   *)

Enabled(p) == enabled \cup {p}

Enable(a) ==
  /\ pc[a] = "enable"
  /\ \E p \in todo[a] : enabled' = Enabled(p) /\ Done(a, p)
  /\ UNCHANGED <<member, mode, store, guard, pc, kind, ev, bad, bounds, outdated>>

\* Mutant: no mode is restored.
ToModesNone(a) ==
  /\ pc[a] = "enable" /\ todo[a] = {}
  /\ Each(a, "unmode", {})
  /\ UNCHANGED <<routeros, store, bounds, outdated>>

ToModes(a) ==
  /\ pc[a] = "enable" /\ todo[a] = {}
  /\ Each(a, "unmode", ev[a].devices \ ev[a].created)
  /\ UNCHANGED <<routeros, store, bounds, outdated>>

\* set_device_mode refuses a device that is not in Restricted_Devices.
Unmode(a) ==
  /\ pc[a] = "unmode"
  /\ \E d \in todo[a] :
       /\ Done(a, d)
       /\ IF member[d] # "none"
          THEN mode' = [mode EXCEPT ![d] = ev[a].was[d]] /\ UNCHANGED bad
          ELSE bad' = [bad EXCEPT ![a] = TRUE] /\ UNCHANGED mode
  /\ UNCHANGED <<enabled, member, store, guard, pc, kind, ev, bounds, outdated>>

\* Membership goes for every device that was materialised or adopted.
Adoptable(e) == e.devices \cup (IF e.artifacts = "none" THEN {} ELSE Devices)

ToMembers(a) ==
  /\ pc[a] = "unmode" /\ todo[a] = {}
  /\ Each(a, "unadopt", Adoptable(ev[a]))
  /\ UNCHANGED <<routeros, store, bounds, outdated>>

\* Mutant: rows without the migration's marker are removed too.
UnadoptedAny(d) == "none"

\* rollback_kid_control_migration_device removes only the migration's rows.
Unadopted(d) == IF member[d] = "migration" THEN "none" ELSE member[d]

Unadopt(a) ==
  /\ pc[a] = "unadopt"
  /\ \E d \in todo[a] : member' = [member EXCEPT ![d] = Unadopted(d)] /\ Done(a, d)
  /\ UNCHANGED <<enabled, mode, store, guard, pc, kind, ev, bad, bounds, outdated>>

ToLocal(a) ==
  /\ pc[a] = "unadopt" /\ todo[a] = {}
  /\ Goto(a, "unlocal")
  /\ UNCHANGED <<routeros, store, bounds, outdated>>

\* rollback_kid_control_materialization
Unlocal(a) ==
  /\ pc[a] = "unlocal"
  /\ local' = (local /\ ev[a].artifacts # "owned")
  /\ Goto(a, "prove")
  /\ UNCHANGED <<routeros, staged, record, bounds, outdated>>

\* _kid_control_verify_legacy_profiles_active
Prove(a) ==
  /\ pc[a] = "prove"
  /\ bad' = [bad EXCEPT ![a] = @ \/ ~(ev[a].profiles \subseteq enabled)]
  /\ pc' = [pc EXCEPT ![a] = "close"]
  /\ UNCHANGED <<routeros, store, guard, kind, ev, todo, bounds, outdated>>

\* A call of the clean-up raises, before or after its effect.
CleanupRaises(a) ==
  /\ Fault
  /\ bad' = [bad EXCEPT ![a] = TRUE]
  /\ \/ /\ pc[a] \in {"enable", "unmode", "unadopt"}
        /\ \E x \in todo[a] :
             /\ Done(a, x)
             /\ \/ UNCHANGED routeros
                \/ /\ pc[a] = "enable" /\ enabled' = Enabled(x)
                   /\ UNCHANGED <<member, mode>>
                \/ /\ pc[a] = "unmode" /\ member[x] # "none"
                   /\ mode' = [mode EXCEPT ![x] = ev[a].was[x]]
                   /\ UNCHANGED <<enabled, member>>
                \/ /\ pc[a] = "unadopt"
                   /\ member' = [member EXCEPT ![x] = Unadopted(x)]
                   /\ UNCHANGED <<enabled, mode>>
        /\ UNCHANGED <<local, pc>>
     \/ /\ pc[a] = "unlocal"
        /\ local' \in {local, local /\ ev[a].artifacts # "owned"}
        /\ pc' = [pc EXCEPT ![a] = "prove"]
        /\ UNCHANGED <<routeros, todo>>
     \/ /\ pc[a] = "prove"
        /\ pc' = [pc EXCEPT ![a] = "close"]
        /\ UNCHANGED <<routeros, local, todo>>
  /\ UNCHANGED <<staged, record, guard, kind, ev, outdated>>

\* cleanup_complete
WithOutcome(e, failed) == [e EXCEPT !.clean = ~failed]

\* A cutover records its failure; a rollback is recorded only when it is complete.
Close(a) ==
  /\ pc[a] = "close"
  /\ \/ kind[a] = "cutover" /\ Record("failed", WithOutcome(ev[a], bad[a]))
     \/ kind[a] = "rollback" /\ ~bad[a] /\ Record("rolled_back", NoEvidence)
     \/ kind[a] = "rollback" /\ bad[a] /\ UNCHANGED record
  /\ End(a)
  /\ UNCHANGED <<routeros, local, staged, bounds, outdated>>

-----------------------------------------------------------------------------
(* The automatic reconciler, which the guard keeps out, and crashes.       *)

Reconcile(d) ==
  /\ guard = None /\ member[d] # "none"
  /\ mode' = [mode EXCEPT ![d] = IF local THEN "policy" ELSE "before"]
  /\ UNCHANGED <<enabled, member, store, guard, thread, bounds, outdated>>

\* The process dies, or SQLite raises in a transaction, which no handler of the
\* routes catches: the request is gone, and so is its clean-up.
Crash ==
  /\ crashes < MaxCrashes
  /\ crashes' = crashes + 1
  /\ \E dead \in {Admins} \cup {{a} : a \in Admins} :
       /\ \E a \in dead : pc[a] # "idle"
       /\ pc' = [a \in Admins |-> IF a \in dead THEN "idle" ELSE pc[a]]
       /\ kind' = [a \in Admins |-> IF a \in dead THEN "none" ELSE kind[a]]
       /\ ev' = [a \in Admins |-> IF a \in dead THEN NoEvidence ELSE ev[a]]
       /\ todo' = [a \in Admins |-> IF a \in dead THEN {} ELSE todo[a]]
       /\ bad' = [a \in Admins |-> bad[a] /\ a \notin dead]
       /\ guard' = IF guard \in dead THEN None ELSE guard
  /\ UNCHANGED <<routeros, store, transfers, faults, outdated>>

Cutover(a) ==
  \/ Begin(a) \/ Ready(a) \/ ReadyRaises(a) \/ Contract(a) \/ Materialize(a)
  \/ Prepared(a)
  \/ Adopt(a) \/ Note(a) \/ Enforce(a) \/ Proven(a) \/ Disable(a) \/ Disabled(a)
  \/ Authoritative(a) \/ CutoverRaises(a)
Rollback(a) == ReadRecord(a) \/ EnterGuard(a) \/ RollbackRefused(a) \/ Check(a)
Cleanup(a) ==
  \/ Enable(a) \/ ToModes(a) \/ Unmode(a) \/ ToMembers(a) \/ Unadopt(a)
  \/ ToLocal(a) \/ Unlocal(a) \/ Prove(a) \/ CleanupRaises(a) \/ Close(a)
Staging(a) == Stage(a) \/ StageWrite(a) \/ Discard(a) \/ DiscardWrite(a)

Next ==
  \/ \E a \in Admins : Staging(a) \/ Cutover(a) \/ Rollback(a) \/ Cleanup(a)
  \/ \E d \in Devices : Reconcile(d)
  \/ LegacyEdit \/ Crash

Spec == Init /\ [][Next]_vars

-----------------------------------------------------------------------------
(* Properties.                                                             *)

\* Whatever dies, whenever: while a legacy profile is disabled or a device
\* carries a migration row, the last event keeps a rollback available whose
\* evidence reaches all of them ("Persist recovery evidence before the first
\* RouterOS migration write"), unless a rollback has worked from evidence that
\* changed while it waited for the guard.
RecoveryEvidence ==
  LET adopted == {d \in Devices : member[d] = "migration"}
      e == record.evidence IN
  ~outdated /\ (enabled # Profiles \/ adopted # {}) =>
    /\ ActiveTransfer /\ ~e.clean
    /\ Profiles \ enabled \subseteq e.profiles
    /\ adopted \subseteq Adoptable(e)

\* A rollback that is tried again can succeed: every device whose mode it will
\* restore is still in Restricted_Devices, which set_device_mode asks for.  (After
\* a rollback from outdated evidence a cutover may find a migration row, take it
\* for one of ZEN's own, and remove it.)
RollbackFeasible ==
  ~outdated /\ ActiveTransfer =>
    \A d \in record.evidence.devices \ record.evidence.created : member[d] # "none"

\* As long as no call fails, every device is under an enabled legacy profile or
\* under ZEN's enforced policy ("fail-closed and ordered"): no interleaving of
\* cutover, rollback, reconciler and crash opens a gap.
NoGap ==
  faults = 0 =>
    \A d \in Devices :
      ProfileOf[d] \in enabled \/ (member[d] # "none" /\ mode[d] = "policy")

RolledBack == record.state = "rolled_back" /\ guard = None /\ crashes = 0

\* "Rollback ... restores pre-cutover ZEN device state": a transfer that was
\* rolled back, without a crash and from current evidence, leaves the devices
\* that ZEN managed before as they were.  (With a second failing call the local
\* policy may outlive the failed cutover, and the reconciler apply it to a device
\* that the evidence does not name; only the reconciler then takes it back.)
RolledBackRestores ==
  RolledBack /\ ~outdated /\ faults <= 1 =>
    ~local /\ \A d \in Managed : member[d] = "own" /\ mode[d] = "before"

\* The same for devices that the migration adopted: "removing that row is the
\* complete restoration for that device".
AdoptedRestored ==
  RolledBack /\ ~outdated => \A d \in Devices \ Managed : mode[d] = "before"
=============================================================================
