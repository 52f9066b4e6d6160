------------------------------- MODULE Policy -------------------------------
(***************************************************************************)
(* The effective-policy resolver of PolicyStore (app/policy_store.py) for  *)
(* one device, and what is built on its answer: the household clock        *)
(* (app/policy_time.py), quotas, previews of unsaved changes               *)
(* (app/policy_simulation.py), explanations (app/policy_explain.py), the   *)
(* static quality report (app/policy_quality.py) and the retained policy   *)
(* history (app/policy_history.py).                                        *)
(*                                                                         *)
(* Time is counted in slots. An instant is a slot of physical time, a wall *)
(* time is a slot of the household calendar; a zone moves the wall clock   *)
(* one slot forward at one instant and back at another, so that one wall   *)
(* slot does not exist and one occurs twice. Names, labels and byte counts *)
(* are kept only as far as they are compared.                              *)
(***************************************************************************)
EXTENDS Integers, Sequences, FiniteSets, FiniteSetsExt

CONSTANTS
  Households,    \* the saved configurations a behaviour may start from
  SlotsPerDay, DaysPerWeek, \* the household calendar
  GapLimit,      \* gap_limit_minutes, in slots
  HistoryLimit,  \* checkpoints that one correlation report reads
  Retention,     \* policy_history_retention_days, in slots
  ModeOverrides, \* the overrides that are assigned
  Device,        \* the device's address
  Observers,     \* threads that call get_effective_policy: cycles, pages, incidents
  None           \* a profile, plan, event or answer that is not there

Modes == {"normal", "slow", "blocked"}

VARIABLES
  house,    \* plans, exceptions, template, profiles, services, groups, zone...
  device,   \* device_policy and managed_device_identity, or None
  epochs,   \* management identities given out so far
  now,      \* the instant
  usage,    \* today's telemetry of the device, and whether it can be read
  history,  \* policy_state_history of the address, oldest first
  pending,  \* observer -> the answer it has and has not recorded, and for whom it was
  heard,    \* every answer that was recorded, and for whom it was resolved
  answer,   \* what the resolver answers at this moment
  spent     \* bound: edits, uses and observations of house.budget used so far

vars == <<house, device, epochs, now, usage, history, pending, heard, answer, spent>>

-----------------------------------------------------------------------------
(* The household clock.                                                    *)

Wall(h, i) == IF h.zone.forward <= i /\ i < h.zone.back THEN i + 1 ELSE i

DayOf(w) == w \div SlotsPerDay

Today(h, i) == DayOf(Wall(h, i))

\* The instants at which the wall clock shows w: none in a gap, two in a fold.
ValidInstants(h, w) == {i \in {w - 1, w} : Wall(h, i) = w}

Nonexistent(h, w) == ValidInstants(h, w) = {}

\* The first occurrence of an ambiguous time, the end of the gap for a time
\* that does not exist.
ResolveWall(h, w) ==
  Min(ValidInstants(h, Min({v \in w .. w + GapLimit : ~Nonexistent(h, v)})))

LocalMidnight(h, day) == ResolveWall(h, day * SlotsPerDay)

-----------------------------------------------------------------------------
(* Who a plan or an exception is for.                                      *)

Specificity(target) == CASE target.type = "all"     -> 1
                         [] target.type = "profile" -> 2
                         [] target.type = "device"  -> 3

TargetMatches(target, profileId) ==
  \/ target.type = "all"
  \/ target.type = "device" /\ target.value = Device
  \/ target.type = "profile" /\ profileId # None /\ target.value = profileId

NoProfile == [mode |-> "normal", preset |-> "normal", blocked |-> {},
              daily |-> 0, action |-> "blocked", quotas |-> <<>>]

ProfileOf(h, p) == IF p = None THEN NoProfile ELSE h.profiles[p]

Saved(d) == IF d = None THEN None ELSE d.profile

QuotaConfigured(profile) == profile.daily # 0 \/ DOMAIN profile.quotas # {}

NoUsage(h) == [total |-> 0, services |-> [s \in h.services |-> 0]]

\* get_quota_usage reads the quotas of the saved assignment, and telemetry
\* only when it has some; an outage is "not available", never exhaustion.
QuotaUsage(h, d, u) ==
  LET configured == QuotaConfigured(ProfileOf(h, Saved(d)))
      readable   == h.engine /\ u.up
  IN [available |-> ~configured \/ readable,
      read |-> IF configured /\ readable THEN u.read ELSE NoUsage(h)]

(* A context is everything one resolution depends on: the household h and  *)
(* the device's assignment d, the instant i and telemetry u. Previews      *)
(* replace parts of the live one.                                          *)
Context(h, d, i, u) ==
  [h |-> h, saved |-> Saved(d), id |-> Saved(d), profile |-> ProfileOf(h, Saved(d)),
   override |-> IF d = None THEN "inherit" ELSE d.override,
   at |-> i, quota |-> QuotaUsage(h, d, u)]

Live == Context(house, device, now, usage)

\* simulate_effective_policy for an unsaved assignment.
PreviewAssignment(p, override) ==
  [Live EXCEPT !.id = p, !.profile = ProfileOf(house, p), !.override = override]

\* simulate_effective_policy with the candidate of build_profile_candidate.
PreviewProfile(c) ==
  [Live EXCEPT !.profile = IF Saved(device) = c.id THEN c.profile ELSE @]

-----------------------------------------------------------------------------
(* Schedules.                                                              *)

\* A week of days back, or ahead, today included.
Days(ctx, future) ==
  LET today == Today(ctx.h, ctx.at)
  IN IF future THEN today .. today + DaysPerWeek ELSE today - DaysPerWeek .. today

Due(ctx, future, o) == IF future THEN o.at > ctx.at ELSE o.at <= ctx.at

Occurrence(h, item, day, specificity) ==
  LET w == day * SlotsPerDay + item.slot
  IN [id |-> item.id, at |-> ResolveWall(h, w), specificity |-> specificity,
      kind |-> item.kind, key |-> item.key, value |-> item.value,
      shifted |-> Nonexistent(h, w)]

Occurrences(ctx, future) ==
  LET plans == {p \in ctx.h.plans : p.enabled /\ TargetMatches(p.target, ctx.id)}
      falls == {f \in plans \X Days(ctx, future) : f[2] % DaysPerWeek \in f[1].days}
  IN {o \in {Occurrence(ctx.h, f[1], f[2], Specificity(f[1].target)) : f \in falls} :
        Due(ctx, future, o)}

Of(occurrences, kind, key) == {o \in occurrences : o.kind = kind /\ o.key = key}

\* The occurrences with the highest at, specificity or id.
Highest(c, field) == LET top == Max({o[field] : o \in c}) IN {o \in c : o[field] = top}

\* Mutant: the specificity of equally late schedules is not compared.
WinnersLatest(c) == IF c = {} THEN {} ELSE Highest(c, "at")

\* The latest occurrences, and of them the most specific.
Winners(c) == IF c = {} THEN {} ELSE Highest(Highest(c, "at"), "specificity")

Ambiguous(c) == Cardinality({o.value : o \in Winners(c)}) > 1

\* _select_schedule_candidate: the winner of highest id.
Selected(c) == IF c = {} THEN None ELSE CHOOSE o \in Highest(Winners(c), "id") : TRUE

Soonest(times) == IF times \subseteq {None} THEN None ELSE Min(times \ {None})

Earliest(c) == Soonest({o.at : o \in c})

-----------------------------------------------------------------------------
(* Date exceptions.                                                        *)

\* Mutant: the exceptions are matched with the saved assignment.
ExceptionProfileSaved(ctx) == ctx.saved

\* _matching_exception takes the resolver's profile, but reads the saved one
\* when the context has none.
ExceptionProfile(ctx) == IF ctx.id = None THEN ctx.saved ELSE ctx.id

Exceptions(ctx) ==
  LET matches == {e \in ctx.h.exceptions :
                    /\ Today(ctx.h, ctx.at) \in e.start .. e.end
                    /\ TargetMatches(e.target, ExceptionProfile(ctx))}
  IN {e \in matches : \A x \in matches : Specificity(x.target) <= Specificity(e.target)}

Conflicting(es) == Cardinality({e.mode : e \in es}) > 1

MatchingException(ctx) ==
  LET es == Exceptions(ctx)
  IN IF es = {} THEN None
     ELSE CHOOSE e \in es : \A x \in es \ {e} :
            x.start < e.start \/ (x.start = e.start /\ x.id < e.id)

TemplateCandidates(ctx, e, future) ==
  LET falls == {f \in ctx.h.template \X (Days(ctx, future) \cap (e.start .. e.end)) :
                  f[2] % DaysPerWeek \in f[1].days}
  IN {o \in {Occurrence(ctx.h, f[1], f[2], 4) : f \in falls} : Due(ctx, future, o)}

ExceptionEnd(h, e) == LocalMidnight(h, e.end + 1)

-----------------------------------------------------------------------------
(* The mode, and the next event.                                           *)

BaseMode(ctx) == IF ctx.override = "inherit" THEN ctx.profile.mode ELSE ctx.override

BaseSource(ctx) == IF ctx.override = "inherit" THEN <<"profile", ctx.id>>
                                               ELSE <<"device override">>

\* The mode and its source before quotas, from the exception e or the past
\* occurrences.
ScheduledMode(ctx, e, past) ==
  LET plan  == Selected(Of(past, "mode", None))
      entry == Selected(TemplateCandidates(ctx, e, FALSE))
      base  == [mode |-> BaseMode(ctx), source |-> BaseSource(ctx)]
  IN CASE e # None /\ e.mode \in Modes -> [mode |-> e.mode, source |-> <<"exception", e.id>>]
       [] e # None /\ e.mode = "template" ->
            IF entry = None THEN [base EXCEPT !.source = Append(@, "awaiting")]
            ELSE [mode |-> entry.value, source |-> <<"template", e.id>>]
       [] e = None /\ plan # None -> [mode |-> plan.value, source |-> <<"schedule", plan.id>>]
       [] OTHER -> base

\* The first mode transition that an exception brings: of its template, or its end.
ExceptionNext(ctx, e, future) ==
  LET entry == IF e.mode = "template" THEN Earliest(TemplateCandidates(ctx, e, TRUE)) ELSE None
      end   == ExceptionEnd(ctx.h, e)
  IN CASE entry # None -> entry
       [] entry = None /\ end > ctx.at -> end
       [] OTHER -> IF e.mode = "template" THEN None ELSE Earliest(future)

\* Mutant: an exception hides the service schedules that go on under it.
NextEventModeOnly(ctx, e, future) ==
  IF e = None THEN Earliest(future) ELSE ExceptionNext(ctx, e, future)

\* next_policy_action: the first transition of the schedules or, under an
\* exception, of its template or its end, or of a service before that.
NextEvent(ctx, e, future) ==
  IF e = None THEN Earliest(future)
  ELSE Soonest({ExceptionNext(ctx, e, future)}
                 \cup {o.at : o \in {x \in future : x.kind = "service"}})

-----------------------------------------------------------------------------
(* Services.                                                               *)

Groups(h) == DOMAIN h.groups

\* A key that a plan, a profile or a quota may name, as concrete services.
Members(h, key) == IF key \in Groups(h) THEN h.groups[key] ELSE {key}

\* service key -> "block" or "allow", for the keys with a schedule.
Overrides(past) ==
  [k \in {o.key : o \in {x \in past : x.kind = "service"}} |->
     Selected(Of(past, "service", k)).value]

Keys(overrides, state) == {k \in DOMAIN overrides : overrides[k] = state}

Requested(ctx, overrides) ==
  (ctx.profile.blocked \cup Keys(overrides, "block")) \ Keys(overrides, "allow")

\* Groups expand to their supported members; the schedule of a concrete
\* service then decides over its group.
ScheduledBlocks(h, requested, overrides) ==
  ((UNION {Members(h, k) : k \in requested} \cap h.supported)
     \cup (Keys(overrides, "block") \ Groups(h)))
   \ (Keys(overrides, "allow") \ Groups(h))

-----------------------------------------------------------------------------
(* Quotas.                                                                 *)

Rank == [normal |-> 0, slow |-> 1, blocked |-> 2]

QuotaLive(ctx) == QuotaConfigured(ctx.profile) /\ ctx.h.engine /\ ctx.quota.available

DailyExhausted(ctx) ==
  QuotaLive(ctx) /\ ctx.profile.daily # 0 /\ ctx.quota.read.total >= ctx.profile.daily

Used(ctx, key) == MapThenSumSet(LAMBDA s : ctx.quota.read.services[s], Members(ctx.h, key))

\* active_service_blocks: the services and groups whose quota is used up.
ExhaustedKeys(ctx) ==
  {k \in DOMAIN ctx.profile.quotas : QuotaLive(ctx) /\ Used(ctx, k) >= ctx.profile.quotas[k]}

\* What the answer says of quotas; the limits are the contract that previews
\* compare, with those of services only once telemetry has been read.
QuotaState(ctx) ==
  LET configured == QuotaConfigured(ctx.profile)
      available  == ~configured \/ QuotaLive(ctx)
  IN [available |-> available, daily |-> DailyExhausted(ctx), keys |-> ExhaustedKeys(ctx),
      contract |-> [configured |-> configured, available |-> available,
                    daily |-> ctx.profile.daily, action |-> ctx.profile.action,
                    quotas |-> IF QuotaLive(ctx) THEN ctx.profile.quotas ELSE <<>>]]

-----------------------------------------------------------------------------
(* The effective policy; None is a refusal, the resolver's ValueError.     *)

Refused(ctx, e, past) ==
  \/ Ambiguous(Of(past, "mode", None))
  \/ \E k \in ctx.h.services \cup Groups(ctx.h) : Ambiguous(Of(past, "service", k))
  \/ Conflicting(Exceptions(ctx))
  \/ e # None /\ e.mode = "template" /\ Ambiguous(TemplateCandidates(ctx, e, FALSE))

Resolve(ctx) ==
  LET past      == Occurrences(ctx, FALSE)
      e         == MatchingException(ctx)
      planned   == ScheduledMode(ctx, e, past)
      overrides == Overrides(past)
      requested == Requested(ctx, overrides)
      blocks    == ScheduledBlocks(ctx.h, requested, overrides)
      quota     == QuotaState(ctx)
      raised    == quota.daily /\ Rank[ctx.profile.action] > Rank[planned.mode]
      reason    == IF e # None THEN <<"exception", e.id>>
                   ELSE IF planned.source[1] = "schedule" THEN planned.source ELSE None
  IN IF Refused(ctx, e, past) THEN None ELSE
     [mode |-> IF raised THEN ctx.profile.action ELSE planned.mode,
      source |-> IF raised THEN <<"daily quota", ctx.id>> ELSE planned.source,
      preset |-> ctx.profile.preset,
      blocked |-> blocks \cup UNION {Members(ctx.h, k) : k \in quota.keys},
      requested |-> requested,
      groups |-> requested \cap Groups(ctx.h),
      unsupported |-> requested \ (ctx.h.supported \cup Groups(ctx.h)),
      overrides |-> overrides,
      exception |-> e,
      reason |-> reason,
      active |-> reason # None \/ overrides # <<>>,
      quota |-> quota,
      scheduled |-> [mode |-> planned.mode, blocked |-> blocks],
      next |-> NextEvent(ctx, e, Occurrences(ctx, TRUE))]

-----------------------------------------------------------------------------
(* What a preview shows, and how a service is explained.                   *)

\* policy_delta: what differs, before and after.
PolicyDelta(a, b) ==
  LET rows == << <<"mode", a.mode, b.mode>>,
                 <<"bandwidth", a.preset, b.preset>>,
                 <<"service_block", {}, b.blocked \ a.blocked>>,
                 <<"service_allow", {}, a.blocked \ b.blocked>>,
                 <<"service_request", {},
                   (b.requested \ (a.requested \cup b.groups)) \cap b.unsupported>>,
                 <<"service_request_removed", {},
                   (a.requested \ (b.requested \cup a.groups)) \cap a.unsupported>>,
                 <<"group_block", {}, b.groups \ a.groups>>,
                 <<"group_allow", {}, a.groups \ b.groups>>,
                 <<"quota_policy", a.quota.contract, b.quota.contract>>,
                 <<"source", a.source, b.source>>,
                 <<"next_action", a.next, b.next>> >>
  IN {rows[i] : i \in {j \in DOMAIN rows : rows[j][2] # rows[j][3]}}

\* What a page shows of two answers; a refusal is an error page.
Shown(baseline, scenario) ==
  IF baseline = None \/ scenario = None THEN None ELSE PolicyDelta(baseline, scenario)

\* The previews of an unsaved assignment and of an unsaved profile.
AssignmentShown(p, override) == Shown(answer, Resolve(PreviewAssignment(p, override)))

ProfileShown(c) == Shown(answer, Resolve(PreviewProfile(c)))

\* Mutant: schedules are looked at before quotas.
QuotaSourceAfterSchedule(s, policy) ==
  s \notin DOMAIN policy.overrides /\ \E k \in policy.quota.keys : s \in Members(house, k)

QuotaSource(s, policy) == \E k \in policy.quota.keys : s \in Members(house, k)

\* _service_decision_source: the kind of rule that is named for service s,
\* and whether that rule blocks. Of several scheduled groups of s the code
\* names the one that sorts last.
DecisionSource(s, policy, profile) ==
  LET scheduled == {g \in DOMAIN policy.overrides \cap Groups(house) : s \in house.groups[g]}
      g == CHOOSE k \in scheduled : TRUE
  IN CASE QuotaSource(s, policy) -> <<"quota", TRUE>>
       [] s \in DOMAIN policy.overrides /\ ~QuotaSource(s, policy) ->
            <<"schedule", policy.overrides[s] = "block">>
       [] OTHER ->
            IF scheduled # {} /\ (policy.overrides[g] = "block" \/ s \notin profile.blocked)
            THEN <<"schedule_group", policy.overrides[g] = "block">>
            ELSE IF s \in profile.blocked THEN <<"profile", TRUE>>
            ELSE IF \E k \in policy.groups : s \in house.groups[k] THEN <<"policy_group", TRUE>>
            ELSE IF s \in policy.requested THEN <<"requested", TRUE>>
            ELSE IF s \in policy.blocked THEN <<"derived", TRUE>>
            ELSE <<"default", FALSE>>

-----------------------------------------------------------------------------
(* The quality report's conflicts.                                         *)

TargetsOverlap(a, b) ==
  \/ a.type = "all" \/ b.type = "all"
  \/ a.type = b.type /\ a.value = b.value
  \/ /\ {a.type, b.type} = {"profile", "device"}
     /\ device # None
     /\ <<device.profile, Device>> \in {<<a.value, b.value>>, <<b.value, a.value>>}

\* Plans and exceptions whose target is missing are reported, not compared.
Comparable(target) == CASE target.type = "all"     -> TRUE
                        [] target.type = "profile" -> target.value \in DOMAIN house.profiles
                        [] target.type = "device"  -> device # None /\ target.value = Device

ScheduleConflict(a, b) ==
  /\ a.enabled /\ b.enabled /\ Comparable(a.target) /\ Comparable(b.target)
  /\ a.slot = b.slot /\ a.days \cap b.days # {} /\ a.kind = b.kind /\ a.key = b.key
  /\ TargetsOverlap(a.target, b.target)
  /\ Specificity(a.target) = Specificity(b.target) /\ a.value # b.value

ExceptionConflict(a, b) ==
  /\ Comparable(a.target) /\ Comparable(b.target)
  /\ a.start <= b.end /\ b.start <= a.end
  /\ TargetsOverlap(a.target, b.target)
  /\ Specificity(a.target) = Specificity(b.target) /\ a.mode # b.mode

TemplateConflict(a, b) == a.slot = b.slot /\ a.days \cap b.days # {} /\ a.value # b.value

QualityConflict ==
  \/ \E a, b \in house.plans : ScheduleConflict(a, b)
  \/ \E a, b \in house.exceptions : ExceptionConflict(a, b)
  \/ \E a, b \in house.template : TemplateConflict(a, b)

-----------------------------------------------------------------------------
(* The retained history.                                                   *)

Identity == IF device = None THEN 0 ELSE device.identity

HistoryState(policy) ==
  [mode |-> policy.mode, source |-> policy.source, preset |-> policy.preset,
   blocked |-> policy.blocked, groups |-> policy.groups, exception |-> policy.exception,
   reason |-> policy.reason, active |-> policy.active,
   quota |-> <<policy.quota.contract.configured, policy.quota.available, policy.quota.daily,
               policy.quota.contract.action, policy.quota.keys>>]

RowsOf(rows, identity) == SelectSeq(rows, LAMBDA r : r.identity = identity)

Pruned(rows) == SelectSeq(rows, LAMBDA r : r.at >= now - Retention)

\* Mutant: the previous checkpoint is looked up by address alone.
LastCheckpointOfAddress == IF history = <<>> THEN None ELSE history[Len(history)].state

LastCheckpoint ==
  LET own == RowsOf(history, Identity) IN IF own = <<>> THEN None ELSE own[Len(own)].state

\* record_policy_state: an unchanged state adds no row; a row prunes old ones.
Recorded(state) ==
  LET row == [at |-> now, identity |-> Identity, state |-> state]
  IN IF LastCheckpoint = row.state THEN history ELSE Pruned(Append(history, row))

\* list_policy_state_history: the rows inside the window, oldest first and
\* at most HistoryLimit, and the one in force at its start.
Inside(start, end) ==
  SelectSeq(RowsOf(history, Identity), LAMBDA r : r.at > start /\ r.at < end)

Listed(start, end) ==
  LET inside == Inside(start, end)
      before == SelectSeq(RowsOf(history, Identity), LAMBDA r : r.at <= start)
  IN (IF before = <<>> THEN <<>> ELSE <<before[Len(before)]>>)
       \o SubSeq(inside, 1, Min({HistoryLimit, Len(inside)}))

\* build_policy_intervals: the state that the report gives for instant t.
ReportedAt(start, end, t) ==
  LET rows == SelectSeq(Listed(start, end), LAMBDA r : r.at <= t)
  IN IF t < device.since \/ rows = <<>> THEN None ELSE rows[Len(rows)].state

-----------------------------------------------------------------------------

Init ==
  /\ house \in Households
  /\ device = IF house.device = None THEN None
              ELSE [profile |-> house.device.profile, override |-> house.device.override,
                    identity |-> 1, since |-> 0]
  /\ epochs = 1
  /\ now = 0
  /\ usage = [up |-> TRUE, read |-> NoUsage(house)]
  /\ history = <<>>
  /\ pending = [o \in Observers |-> None]
  /\ heard = <<>>
  /\ answer = Resolve(Live)
  /\ spent = [edits |-> 0, uses |-> 0, observations |-> 0]

Spend(what) ==
  /\ spent[what] < house.budget[what]
  /\ spent' = [spent EXCEPT ![what] = @ + 1]

\* The answer follows every step; the set makes TLC evaluate the context once.
Answered ==
  \E ctx \in {Context(house', device', now', usage')} : answer' = Resolve(ctx)

\* Telemetry counts the local day, so a new day starts from nothing.
Tick ==
  /\ now < house.budget.ticks
  /\ now' = now + 1
  /\ usage' = IF Today(house, now') = Today(house, now) THEN usage
              ELSE [usage EXCEPT !.read = NoUsage(house)]
  /\ UNCHANGED <<house, device, epochs, history, pending, heard, spent>>
  /\ Answered

Consume(s) ==
  /\ Spend("uses")
  /\ usage' = [usage EXCEPT !.read.total = @ + 1, !.read.services[s] = @ + 1]
  /\ UNCHANGED <<house, device, epochs, now, history, pending, heard>>
  /\ Answered

TelemetryChanges ==
  /\ Spend("uses")
  /\ usage' = [usage EXCEPT !.up = ~@]
  /\ UNCHANGED <<house, device, epochs, now, history, pending, heard>>
  /\ Answered

\* update_device: a device without a management identity is given one.
Assign(p, override) ==
  /\ Spend("edits")
  /\ device' = IF device = None
               THEN [profile |-> p, override |-> override, identity |-> epochs + 1, since |-> now]
               ELSE [device EXCEPT !.profile = p, !.override = override]
  /\ epochs' = IF device = None THEN epochs + 1 ELSE epochs
  /\ UNCHANGED <<house, now, usage, history, pending, heard>>
  /\ Answered

SaveProfile(c) ==
  /\ Spend("edits")
  /\ house' = [house EXCEPT !.profiles[c.id] = c.profile]
  /\ UNCHANGED <<device, epochs, now, usage, history, pending, heard>>
  /\ Answered

\* retire_device_state: the device's own plans and exceptions go with it.
Retire ==
  /\ device # None
  /\ Spend("edits")
  /\ device' = None
  /\ house' = [house EXCEPT !.plans = {p \in @ : p.target.type # "device"},
                            !.exceptions = {e \in @ : e.target.type # "device"}]
  /\ UNCHANGED <<epochs, now, usage, history, pending, heard>>
  /\ Answered

\* get_effective_policy for now, which resolves first.
Observe(o) ==
  /\ pending[o] = None /\ answer # None
  /\ Spend("observations")
  /\ pending' = [pending EXCEPT ![o] = [identity |-> Identity, state |-> HistoryState(answer)]]
  /\ UNCHANGED <<house, device, epochs, now, usage, history, heard, answer>>

\* Then record_policy_state, a transaction of its own that looks up the identity.
Record(o) ==
  /\ pending[o] # None
  /\ history' = Recorded(pending[o].state)
  /\ heard' = Append(heard, [at |-> now, identity |-> Identity, state |-> pending[o].state,
                            of |-> pending[o].identity])
  /\ pending' = [pending EXCEPT ![o] = None]
  /\ UNCHANGED <<house, device, epochs, now, usage, answer, spent>>

\* It raises, or the process dies before: the caller goes on without a record.
RecordingFails(o) ==
  /\ pending[o] # None
  /\ pending' = [pending EXCEPT ![o] = None]
  /\ UNCHANGED <<house, device, epochs, now, usage, history, heard, answer, spent>>

\* A checkpoint of another device prunes this one's old rows as well.
OtherDeviceRecords ==
  /\ Pruned(history) # history
  /\ history' = Pruned(history)
  /\ UNCHANGED <<house, device, epochs, now, usage, pending, heard, answer, spent>>

Assignable == DOMAIN house.profiles \cup {None}

Next ==
  \/ Tick
  \/ \E s \in house.services : Consume(s)
  \/ TelemetryChanges
  \/ \E p \in Assignable, override \in ModeOverrides : Assign(p, override)
  \/ \E c \in house.candidates : SaveProfile(c)
  \/ Retire
  \/ \E o \in Observers : Observe(o) \/ Record(o) \/ RecordingFails(o)
  \/ OtherDeviceRecords

Spec == Init /\ [][Next]_vars

-----------------------------------------------------------------------------

\* next_policy_action is the first moment at which the schedules can change
\* anything: the scheduled mode and blocks never change before it, unless a
\* date exception of this device begins then (exceptions are not announced).
ChangesAnnounced ==
  [][(/\ now' # now /\ answer # None /\ answer' # None
      /\ answer.scheduled # answer'.scheduled)
       => \/ answer.next = now'
          \/ \E e \in house.exceptions : /\ TargetMatches(e.target, Saved(device))
                                         /\ LocalMidnight(house, e.start) = now']_vars

\* The previews of simulate_effective_policy show what saving does: the
\* differences shown for an assignment or a profile are those it then makes.
\* Two cases are left out, in which the code itself reads the saved device:
\* unassigning while an exception targets the saved profile, and giving
\* quotas to a device that had none.
QuotasAppear(a, b) == ~QuotaConfigured(a) /\ QuotaConfigured(b)

Predicts(shown) == answer # None => shown = Shown(answer, answer')

PreviewPredicts ==
  [][/\ \A p \in Assignable, override \in ModeOverrides :
          (/\ device # None /\ device' # None /\ spent'.edits > spent.edits
           /\ device' = [device EXCEPT !.profile = p, !.override = override]
           /\ house' = house
           /\ p = None => \A e \in house.exceptions : e.target.type # "profile"
           /\ ~QuotasAppear(ProfileOf(house, Saved(device)), ProfileOf(house, p)))
            => Predicts(AssignmentShown(p, override))
     /\ \A c \in house.candidates :
          (/\ house' = [house EXCEPT !.profiles[c.id] = c.profile]
           /\ device' = device /\ spent'.edits > spent.edits
           /\ ~(Saved(device) = c.id /\ QuotasAppear(house.profiles[c.id], c.profile)))
            => Predicts(ProfileShown(c))]_vars

\* Whenever the resolver refuses an ambiguous policy for a managed device,
\* the quality report already shows a conflict; only schedules that a
\* missing hour moves onto each other escape it.
RefusalForeseen ==
  LET past    == Occurrences(Live, FALSE)
      e       == MatchingException(Live)
      decided == UNION ({Winners(Of(past, "mode", None))}
                   \cup {Winners(Of(past, "service", k)) : k \in house.services \cup Groups(house)}
                   \cup {IF e = None THEN {} ELSE Winners(TemplateCandidates(Live, e, FALSE))})
  IN (device # None /\ answer = None /\ \A o \in decided : ~o.shifted) => QualityConflict

\* The rule an explanation names for an enforceable service blocks it exactly
\* when the effective policy does (for services of at most one group).
ExplanationAgrees ==
  answer # None =>
    \A s \in house.supported :
      Cardinality({g \in Groups(house) : s \in house.groups[g]}) <= 1 =>
        DecisionSource(s, answer, ProfileOf(house, Saved(device)))[2] = (s \in answer.blocked)

\* When the last answer was first given without another in between.
RunStart(answers) ==
  Min({answers[i].at : i \in {j \in DOMAIN answers :
         \A k \in j .. Len(answers) : answers[k].state = answers[Len(answers)].state}})

\* A correlation report says of every instant what was last recorded by then for
\* this management identity, whoever resolved it and however recordings overtake
\* each other, and nothing of a time before the first record; it may have
\* forgotten only an answer that has stood for longer than the retention.
HistoryTruthful ==
  device # None =>
    \A start \in 0 .. now : \A t \in start .. now :
      LET answers == SelectSeq(RowsOf(heard, Identity), LAMBDA r : r.at <= t)
          said    == ReportedAt(start, now + 1, t)
      IN Len(Inside(start, now + 1)) <= HistoryLimit =>
           IF answers = <<>> THEN said = None
           ELSE \/ said = answers[Len(answers)].state
                \/ said = None /\ RunStart(answers) < now - Retention

\* "A new checkpoint is written when [...] the desired-policy state changes" for the
\* "current management epoch": what is recorded for an identity was resolved for it.
\* It is not when the device is retired, and managed again, before the answer is
\* recorded.
OwnPolicyRecorded ==
  \A i \in DOMAIN heard : heard[i].identity # 0 => heard[i].of = heard[i].identity
=============================================================================
