# A verification project for litellm-model-config-maintainer

The program keeps a LiteLLM proxy's model list in step with reality. A scheduled
tick probes Offerings at their providers, folds the results and the failures the
proxy saw in real traffic into Health State, plans a list of Aliases from a Feed
and the operator's Policy, and replaces the Generated Config the proxy reloads.
This directory models that program in TLA+, checks small instances with TLC and
proves the central facts for all instances with TLAPS.

## 1. The system

| part | source (`litellm_maintainer/` unless said) | state it keeps | operations |
|---|---|---|---|
| Failure callback | `providers/journal_failure_callback.py` | none | append one Observation to the Journal, in the proxy, no lock |
| Observation Journal | `journal.py` | a file of lines | append, read, drop the first n, resolve Aliases to keys |
| Lock | `lock.py` | an flock on a file | take with a 30 s wait, leave; the kernel frees a dead holder's |
| Health State | `reduce.py`, `health.py` | one record per key: excluded, reason, reset time, last success, due mark | reduce, write by rename |
| Prober | `prober.py` | a pacer and threads per provider, for one sweep | worklist of what is not fresh, one Probe with one retry |
| Due gate | `schedule.py` | none: reads the run log | `due` |
| Tick | `cli.cmd_run` | the run log, the previous run's admitted set | gate, fetch, probe, fold, plan, write, smoke, log |
| Watcher | `watcher.py` | the entries it has seen | poll, confirm a doubtful entry, start a tick |
| Feed | `fetch.py`, `feed.py` | the Feed Document, its temporary file | download, accept, write, rename; no lock |
| Planner | `plan.py`, `naming.py`, `translate.py`, `pricing.py`, `limits.py` | none | a pure function of Feed, Policy, Health State, time |
| Roles, guidance | `roles.py`, `guidance.py` | published files | rank Offerings, fill Roles |
| Headroom | `headroom.py`, `thresholds.py`, `codexbar.py` | a Reading per Allowance, a lock of its own | ask codexbar, store, report crossings, demote |
| Entitlements, explain | `entitlements.py`, `explain.py` | published files | count Allowances, name the stage that stopped an Offering |
| Safety rail and writer | `safety.py`, `generate.py`, `cli._apply_safety_rail_and_write` | the Generated Config, snapshots | validate, refuse, skip, snapshot, rename, roll back |
| Operator Surface | `operator_surface.py` | the Policy file | withhold, unwithhold, approve, rename, dry run |
| Smoke check | `smoke.py` | none | one proxy call per translation rule |
| Notifications | `notify.py`, `report.py` | the last report, the run log | compare, announce, record |
| Classifier | `classify.py`, `sse.py` | none | provider answer to outcome |
| Read-only and set-up | `doctor.py`, `initialize.py`, `deploy.py`, ... | none | print, or write once |

How they interact. The proxy appends to the Journal at any time. Three kinds of
process read it: the tick, the operator's `probe`, and the watcher. All three
measure first, with no lock, and then fold under the lock. A Journal entry makes
the next tick due early; the tick's own smoke check calls the proxy and may add
an entry. The tick and the operator's `generate` and `rollback` replace the
Generated Config without a lock. The operator's editor and the Operator Surface
write the same Policy. The tick and the operator's `fetch` write the Feed
Document without a lock. `headroom refresh` stores what codexbar measured;
guidance reads it later, and a run that folds also writes the ladders guidance
ranks. A run compares its plan with the last report, tells the operator, and
records its own.

What is hard: interleavings of unlocked appends with read-and-rename rotations;
a death between the write of Health State and the rotation; decisions taken from
a file read before a slow network call; a tool that can trigger itself; records
that must neither exclude on hearsay nor stay excluded for ever; unlocked
writers and an in-place copy of the one file that restarts the proxy; line edits
of a YAML file that a human edits too; a fixed temporary name that two fetchers
share; measurements that are already old when they are stored; one retry for
three kinds of trouble; news that is computed from files other processes change.

What makes each part correct:

- Fold: no Observation is lost or counted twice without a death; no fold undoes
  another; every Observation is folded in the end.
- Tick: probing runs keep the interval whatever way the previous run ended; the
  tool does not trigger itself for ever; sweeps go on once the Journal stays empty.
- Health record: an exclusion rests on the Offering's own evidence, a Probe
  overrules older evidence, a recovered Offering returns and a dead one is found
  while runs go on measuring.
- Writer: only what passed the rail is ever on disk; rollback undoes the last
  write; identical bytes cause no reload.
- Operator Surface: a verb changes the entry it names, if it changes any, and
  nothing else.
- Feed: a reader gets a whole, plausible document or the previous one.
- Planner: no two entries share an Alias; measurements that may change their mind
  change nothing; nothing is dropped unmeasured; what a Probe can restore is
  probed, and returns.
- Reports: `plan`'s report, `explain` and `entitlements` say the same as the config.
- Guidance: a ladder is the best there is; nothing that works stays hidden while
  runs go on measuring, but for an Excluded Passthrough Auth Offering.
- Headroom: a Route is demoted only while its account is really drained; an older
  Reading replaces no newer one; a rise is reported once.
- Prober: a failure is the provider's, not the call's; calls keep their pace; a
  sweep ends.
- News: what is recorded as reported has been told.

## 2. Modules

| module | models | checked as | proved in |
|---|---|---|---|
| `JournalDelivery` | abstract: at-least-once delivery of Observations | property of HealthFold | `HealthFoldProofs` |
| `HealthFold` | `_fold_into_health_state`, the Journal, the lock, deaths | `HealthFold.cfg` | `HealthFoldProofs` |
| `Schedule` | `schedule.due` as an operator | through Tick | `TickProofs` |
| `Tick` | `cmd_run`, gate to run log, every exit | `Tick.cfg` | `TickProofs` |
| `OfferingHealth` | `reduce`, freshness, sweep and confirming worklist | `OfferingHealth.cfg` | `MeasurementProofs` |
| `ConfigWrite` | rail, snapshot, write, rollback | `ConfigWrite.cfg` | `GeneratedConfigProofs` |
| `PolicyEdit` | `operator_surface._edit` and its text edits | `PolicyEdit.cfg` | `PolicyEditProofs` |
| `Plan` | `plan.plan` and the commands that run it | `Plan.cfg` | `PlanProofs` |
| `Reports` | `entitlements` and `explain`, over a plan of `Plan` | `Plan.cfg` | `PlanProofs` |
| `Headroom` | `headroom refresh`, binding windows, demotion, crossings | `Headroom.cfg` | `HeadroomProofs` |
| `Guidance` | `guidance.derive` and `roles`, as measurements come and go | `Guidance.cfg` | `GeneratedConfigProofs` |
| `RoleWrites` | `Guidance` with the ladders a run writes | `RoleWrites.cfg` | - |
| `FeedDocument` | `fetch`, by inodes | through RunNews | `RunNewsProofs` |
| `RunNews` | a run from its fetch to its last report, over `FeedDocument` | `RunNews.cfg` | `RunNewsProofs` |
| `Classify` | `classify.classify_response` as an ordered list of rules | through Probing | `MeasurementProofs` |
| `Probing` | a sweep's threads, pacers and retries, and the smoke check | `Probing.cfg` | `MeasurementProofs` |

Some proof modules are about two components, so that each theorem stands beside
the facts it needs: `MeasurementProofs` about what a Probe measures and what is
believed of it, `GeneratedConfigProofs` about the file and the ladders in it. That
is why `OfferingHealth` and `Guidance` prefix the names they would share with
another component (`OHInit`, `GTypeOK`).

**HealthFold.** A process is at one of the stages of the fold: it measured, has
the lock, has read, has written, is rotating. `journal` is the file's sequence of
entries, `health` says how often each event has been applied to its key's record;
what an event does to a record is left to `OfferingHealth`. `Sweep` is the
unlocked half of `cmd_run` and `cmd_probe`, `Confirm` that of the watcher's
confirming Probe, which keeps the keys it saw before the lock. The rotation is two
steps, because the proxy may append between its read and its rename. `Crash`
stops a process anywhere; the kernel frees its lock.
`JournalDelivery` says what the fold promises: an entry written is delivered, in
order, at least once, and retired after its delivery. Its `Retire(n, m)` may also
drop the youngest entries undelivered: those the proxy appended between the two
steps of a rotation, a loss ADR 0001 accepts.

**Schedule and Tick.** `Due` follows the rules of `schedule.due` over ages. The
tick reads the run log, Health State and the Journal once (`seen`), asks `Due` as
if the proxy were up, calls the proxy, and asks again. Each exit of `cmd_run` is
an action, and what it appends to the run log decides whether the next tick takes
it for a run. `sinceProbing`, `excused` and `chain` are history variables.

**OfferingHealth.** One record per key, times relative to now. A run reads the
clock and Health State (`fresh`), then sweeps or confirms, probes its targets one
by one, and folds. `Folded` is the order `reduce` sorts a key's events into: the
entries up to the run's clock reading (`Replayed`), the Probe (`WithProbe`), the
entries since. `evidence` is a history variable that replays the same events.
`truth` is what the provider would answer.

**ConfigWrite.** A writer reads the clock, has a plan, passes the rail against
the file on disk, compares bytes, snapshots under its start time, renames.
`rollback` empties and refills the file in place. `passed`, `alone` and
`replaced` are history variables.

**PolicyEdit.** The text is a sequence of sections with the same key, each a
block of lines or in flow style; a reader takes the last. A block may hold lines
`below` a comment at column 0: a reader has them, and of two lines for one id
takes the lower, while `_block_end` stops at the comment, so that a verb neither
finds nor replaces them. A verb reads under the lock, builds its text, validates it, reads the file again, and renames; the
editor may save at any moment.

**Plan.** `plan` is one pass over the Feed that may refuse at any Offering, so it
is one action per outcome for an Offering (`Drop`, `RefuseAlias`,
`Untranslatable`, `Admit`) on a `draft` of entries and report, taken in any order.
The walk is over `Considered`, the published Offerings of the providers Policy
names; the others are neither written nor reported. `Why` is Selection's cascade
of filters, `WouldPass` the copy of it behind the report's restorable section,
`DiscoveredAdmitted` the Prober's copy. `Worklist` is the keys a fold keeps,
`Targets` those a sweep may probe, which no Passthrough Auth one is. A record of Health
State is what `plan` reads of it: known, ever answered, excluded, gone. `Generate`
takes Health State as it is (`by` says whether with `--force`); `RunFolds` folds
outcomes first, after a sweep or with confirming Probes alone. `Apply` is a plan
that got past the refusals and the rail. `since` and `last` are history
variables. Left out: rates, Stated Limits, translated parameters, the report's
Passthrough Auth failures and stale Withheld entries. Roles are in `RoleWrites`.

**Reports.** Operators over a planned state of `Plan`, with no state of their own:
`AllowanceOf`, `InScope` and `State` follow `entitlements.derive`, `Resolved` and
`StoppedAt` follow `explain`, with its own branch for an Offering of a provider
Policy does not name. Both commands plan for themselves. With a config
older than that plan, `explain` says an Offering is written when it is not; the
module asks what is true when the two agree. `MCPlan` instantiates `Reports`, so
that one run checks both.

**Headroom.** A provider's windows (`used`, `left`) and `codexbar`'s last measurement
are external; a refresher loads Policy and the clock, waits for the lock, reads
the records, asks in two calls of which either may fail, replaces the records and
reports. `lag` is how long ago the refresher read its clock. A record keeps
codexbar's time of measurement as an age; ages and times left saturate where
nothing can tell them apart. `Published` is guidance's question whose figure a
record is, `DemotedBy` its answer, `AllowanceHeadroom` what `entitlements` says of
it, written apart in the code as here. `sinceFull`, `crossed` and `fired` are
history variables.

**Guidance and RoleWrites.** `View` is what `derive` sees of the admitted Offerings,
`RouteBefore` and `RowBefore` its two sorts, each stated as the order it puts two
members in; a member's `Place` is how many come before it. `Rung` is the Route a
row (a Canonical Model) adds to a ladder, `Ladder` a Role's cut of them. A run is one step: its interleavings are the
subject of other modules. `RoleWrites` adds what each run writes.

**FeedDocument and RunNews.** A file is an inode with two parts, because a fetcher
goes on writing the inode it opened when its name has moved on: that is what
makes a document torn. `RunNews` puts two runs on top: fetch or not, load, fold
and plan, be refused, tell, record, or die anywhere. Health State is three
buckets, of which `recovering` is an exclusion whose stated reset has passed: a
run that read it so announces no return. `told` and `raced` are history variables.

**Classify and Probing.** A response keeps what the rules tell apart. A worker is a
thread of a provider's pool; it takes the next target (the first place of the
worklist left in its provider's `queue`), reserves a turn with the
provider's pacer, calls once that turn has come, and hears an answer that depends
on the time and tokens it allowed, and on how soon the call came after another.
`retry` is what its one retry was spent on. `recent` is a history variable: how
many calls of the last seconds a provider has seen. `latest` is an Offering's newest
answer for the smoke check, which picks one Offering per translation rule.

## 3. Runs

| run | instance | what it shows |
|---|---|---|
| `HealthFold.cfg` | 2 maintainers, 1 watcher, 2 entries and 2 Probes on 2 keys, 1 death | the fold's safety, its refinement, and that entries are folded in the end |
| `Tick.cfg` | interval 3, staleness 4, floor 2, ages to 6, a tick of up to 4 units, 1 entry, deaths | spacing of runs, no self-triggering, sweeps again and again once the Journal stays empty |
| `OfferingHealth.cfg` | 2 keys in one pool, either or none of them Passthrough, 1 entry at a time, staleness 1, reset 1, runs of up to 1 unit | evidence, order up to the run's clock reading, recovery and detection while runs go on measuring |
| `ConfigWrite.cfg` | 2 writers, 5 plans (full, fewer, too few, empty, broken), 25 %, 2 snapshots, 4 commands | what is on disk and in snapshots, and what rollback does |
| `PolicyEdit.cfg` | 2 verbs, 2 ids of which one may stand below a comment, 2 values, 1 save of the editor, 3 sections, entries written as blocks | exact edits |
| `PolicyEdit_flow.cfg` | 1 verb, entries also in flow style | **violated**: withhold clears other entries |
| `Plan.cfg` | 2 Discovered Offerings of 2 providers, 2 Declared ones, 6 Policies, `MaxMeasured` 1 | Aliases, what changes the config and what does not, what is dropped and returns, what `plan`, `explain` and `entitlements` report |
| `Headroom.cfg` | 2 Allowances, 2 Sources in one call each, 2 windows of which one states its reset, levels to 2, 2 refreshers, 3 changes | demotion, order of Readings, crossings |
| `Guidance.cfg` | 3 Offerings of 2 models, one Passthrough, 2 Allowances, 3 Roles, staleness 1, the Passthrough one withheld and admitted again | ladders, and that nothing that works stays hidden while runs go on measuring, but for an Excluded Passthrough one |
| `RoleWrites.cfg` | the same, staleness 2, one of the others withheld too | **violated**: a measurement changes a ladder in the config |
| `RunNews.cfg` | 2 runs, 3 inodes, 2 documents and an implausible one, 2 fetches, 1 edit or foreign fold | whole documents, and told before recorded |
| `Probing.cfg` | 2 threads, 4 Offerings of one provider (2 slow, 1 reasoning that may raise, 1 dead), a Passthrough one of another | what a failure means, pace, the end of a sweep |

Further configurations are kept beside these, to be run by hand. Each shows one
statement of a document, a comment or a name that the code does not live up to:

| configuration | statement | what happens |
|---|---|---|
| `HealthFold_confirm.cfg` | `ConfirmKeepsRecords` | the confirming Probe prunes by a set of keys read before the lock (`cli.py:1042`), and discards a record another process has just made |
| `Tick_unrecorded.cfg` | `ProbingIsRecorded` | a Role refusal ends a tick that has probed with no line in the run log (`cli.py:2760`); the next tick probes a minute later |
| `OfferingHealth_doubt.cfg` | `DoubtIsConfirmed` | a doubtful entry gets its confirming Probe in a journal-triggered run only (`cli.py:2679`); an ordinary one folds it unconfirmed |
| `OfferingHealth_last.cfg` | `ProbeHasTheLastWord` | `reduce` says "the Probe outcome always last" (`reduce.py:274`), its `now` being no earlier than an entry's time; a run reads the clock before it probes, so an entry the proxy writes meanwhile sorts after the Probe and Excludes again what just answered |
| `OfferingHealth_starved.cfg` | `RecoversRegardless` | a run a Journal entry triggers, after the 5 minutes of the floor, probes only what needs confirming (`schedule.py:211`, `:250`), and its line restarts the interval (`cli.py:2881`): one client that keeps failing keeps sweeps away, and another Offering that was Excluded stays so |
| `Guidance_hidden.cfg` | `NoneHiddenForEver` | a timeout in traffic Excludes a Passthrough Auth Offering, and nobody probes it or records a caller's success |
| `PolicyEdit_comment.cfg` | `ReasonIsReplaced` | `withhold` of an id listed below a comment at column 0 (`operator_surface.py:241`) inserts a line above the comment, says it is recorded, and the reader keeps the old reason (`operator_surface.py:395` promises the new one) |
| `ConfigWrite_names.cfg` | `NamesInWriteOrder` | with two unlocked writers snapshot names are not in write order (`safety.py:42`), so rollback restores, and pruning keeps, the wrong one |
| `Plan_gone.cfg` | `GoneIsFinal` | a record's bucket is that of its newest failure (`reduce.py:441`), so one timeout makes a Gone Offering listed again, against ADR 0014 |
| `Reports_dry.cfg` | `DryWhenNothingAnswers` | an Excluded Offering is admitted as well, so `in_scope` counts it twice and `dry` is unreachable (`entitlements.py:474`) |
| `Reports_alias.cfg` | `EveryAliasResolves` | `explain` finds nothing by the Alias of a Client-Facing Variant of a Discovered Offering, which the config serves |
| `Headroom_moves.cfg` | `CrossingsAreMoves` | after an Allowance is mapped to another account, the levels of two accounts are compared, and a crossing is told that nobody made |

Three more are stated in their modules, without a configuration: `NeverPartial`
(`FeedDocument`: two overlapping fetches do tear the document), `SmokeAgrees`
(`Probing`: the smoke check allows less time and fewer tokens than the retry that
made an Offering healthy) and `CallsSpaced` (`Probing`: a pacer spaces turns, not
calls; a late thread and a retry start close to the next call). So are the true
ones no run spends its time on, all of them proved (section 4).

Why the bounds are enough. Two maintainers and a watcher are the three roles that
meet at the lock; two entries are needed for one to be read while another
arrives, and a third adds no new position relative to a rotation. In `Tick` the
floor, the interval, the staleness and twice the interval are distinct and below
`MaxAge`, so that every pair of rules of `Due` is separated, and a tick can outlast
its own interval. In `OfferingHealth` the unit is the staleness itself, so a
record is fresh, about to be stale, or stale; a run of one unit lets entries
arrive during it. In `PolicyEdit` a second value lets one id have two lines that
differ. In `ConfigWrite` four commands are two overlapping writers
twice; two snapshots make pruning happen. In `Plan` the six Policies bring about
each kind of collision (declared with derived, with an override, with a suffixed
Alias, two derived, two declared), a `supersedes`, a Withheld and an approved
Offering, a provider left out, and a Declared Offering no Probe may call; `o1` leaves its catalogue and `o2` loses its score or its translation.
`MCOutcomes` gives each key the outcomes that are news for it, and `MaxMeasured`
lets one fold change one record besides the new ones: two changes are two folds.
In `Headroom` two levels give both thresholds a place of their own, and three
changes are two rises and a reset, or a rise, a remapping and a unit of time;
proofs cover what more changes would do. In `Guidance` two Offerings share a model
and two an Allowance, so that each sort key decides somewhere; a record is fresh
or stale after one unit of staleness, and `Edited` has the operator withhold the
one Offering no Probe can bring up to date. In `RunNews` two
fetches are all that tearing needs, and an edit is one change of what is admitted.
`Probing` has more targets than threads, so that a turn is waited for while a
retry is under way, and each kind of trouble a call can meet.

The bounds of `HealthFold` (each entry and Probe once, `MaxCrash`) end its
behaviours in a state where ticks still start, and those of `Headroom`, `RunNews`
and `Probing` where codexbar still measures, runs still begin and the operator
still asks for a smoke check, so deadlock is checked; `ConfigWrite` stops at
`MaxClock`, so there it is not.

Symmetry is used in `ConfigWrite` for the writers, in `Headroom` for the refreshers
and in `RunNews` for runs, inodes and Offerings; none of them checks liveness.

### Fairness

`HealthFold`: the scheduler starts a sweep again and again and a started fold goes
on (weak); a lock that keeps becoming free is obtained (strong: `maintainer_lock`
polls every 50 ms, and a run that gives up is followed by another). `Tick`: time
passes, launchd starts the job, a started tick makes progress (weak), and a tick
that reaches its gate again and again gets past it (strong: not every tick is
killed before it). `OfferingHealth`: time passes, and runs start and go on
(weak). Nothing is assumed of which kind of run it is: `due` may start one
journal-triggered run after another. So `Recovers` and `FoundOut` have a premise
(`Settled`): the key's own traffic no longer fails, and either the Journal stays
empty, when `SweepsGoOn` of `Tick` gives sweeps, or sweeps recur all the same. No
fairness is assumed of the proxy, of traffic, of providers or of the operator.

`Guidance`: time passes, launchd starts runs, of either kind, and headroom
refreshes (weak; a refresh that fails at codexbar is a figure that expires).
`HiddenNotForever` has the premise of `Recovers` that runs go on measuring, here
called `Measuring`. `Probing`: time passes,
and a thread that can go on does (weak); a call ends because httpx has a timeout.

### Findings

1. `operator_surface.py:232` (`PolicyEdit_flow.cfg`): a key in flow style is not
   found, a second one is appended, and the first one's entries are cleared.
2. `cli.py:2750` (`RoleWrites.cfg`): Role ladders follow exclusions and Headroom and
   are written into the Generated Config, so with Roles a measurement restarts the
   proxy, which ADR 0014 rules out.

The configurations of the second table above are disagreements of the same kind,
kept out of the regular runs. Smaller ones met on the way, not checked by a run:

- Tick: `schedule.due` says a stale Health State "never overrides the interval
  check", yet with a Journal entry waiting, the floor elapsed and the proxy down it
  starts a full run early; two overlapping runs may move the time of the last run
  backwards.
- Health: `prober._is_fresh` says an Excluded Offering is not probed before its own
  reset time, yet a due mark goes first.
- Operator Surface: a comment at column 0 between `naming:` and `alias_overrides:`
  hides that key from `set-alias`; `PolicyEdit` leaves out the levels above a key.
- Writer: a truncated Generated Config left by a rollback that died counts as no
  previous config and disarms the removal rail.
- Planner: `plan` never comes to an Offering of a provider Policy does not name, so
  the reason `provider_not_configured` (`plan.py:58`) is recorded for none, and a
  reader of `dropped` has to find it out as `explain` does; an Offering that cannot
  be translated is reported `excluded`, which is
  said to be a subset of what is served (`plan.py:734`); a run a Journal entry
  triggered may drop what leaves its catalogue before it was ever measured; an
  untranslatable Offering takes no Alias, yet a plan refuses when one it wants is
  taken, so that a refusal may depend on the order of the Feed; Policy admits a
  variant of a variant, whose record lies under an Alias that itself reads another
  one's.
- Reports: `explain` reads Health State twice, and its stage for an Offering that a
  stale config lacks is out of reach.
- Guidance: `derive` lists the Route of an Excluded Offering twice.
- Headroom: a Reading of which only one window expired may re-announce the level
  of the other; a death between the write of the records and the notice loses the
  notice; a refresher whose Policy is stale prunes a record the operator has just
  mapped; two refreshers' notices may be sent out of order.
- Feed: with two fetchers the one whose file was promoted fails at its rename and
  says that the previous document is unchanged; `fetch --url` promotes a document
  that is implausible.
- News: a run killed as it writes the last report empties it, and a removal it had
  yet to compare is never told; so is one that two overlapping runs compared; what
  is told, not recorded and then reverts is told wrongly; the first addition of an
  Offering whose exclusion's reset had passed is silent; a need for the operator
  that a refused run or another process folded is never announced.
- Prober: the retry of a rate limit does not wait for a turn of the pacer, and may
  spend the one retry a slow or reasoning model needed; a call that raises discards
  every other target's outcome.

## 4. Proofs

All proofs are checked by TLAPS for all values of the constants that satisfy the
modules' assumptions. Most of these give constants their types. The substantial
ones: `Schedule`'s interval is positive; `Tick`'s saturation age is not below its
limits; `None` of `Headroom` is no record; Offerings and Declared Offerings are
finitely many (a Feed and a Policy are files); no two Offerings share a place in
the plan report, and no two models a rank, because the code ranks equal scores by
model id (`_row_sort_key`); and a provider wants its calls no further apart than
the interval Policy states for it (`Patience`).

- `HealthFoldProofs`: mutual exclusion is not inductive alone; the invariant says
  that exactly the process in the lock is at a stage inside, and what it holds
  then: its copy is the file, its batch is a prefix of the Journal, its survivors
  and the entries appended since make up the rest. From it follow
  `NothingLostUnread`, `FoldedOnce` (with the batch counted into `redo` only by a
  death), `PriorIsCurrent`, `RecordsOnlyPruned` and the refinement of
  `JournalDelivery`, step by step: a write is `Write`, a fold `Deliver`, a
  rotation `Retire`, all else stutters.
- `TickProofs`: `PreCheckSound` says that asking `Due` as if the proxy were up
  refuses nothing the real answer would allow. `RunsSpaced` needs that the last
  counted line is no younger than the last probing tick's clock reading unless
  that tick left none, and that what a tick has `seen` has only grown older.
  `ChainStops` needs that while a chain runs the Journal is empty or was filled by
  somebody else.
- `GeneratedConfigProofs`, of `ConfigWrite`: `OnlyVetted` needs that a plan past
  the rail, a snapshot and the content a rollback is copying are vetted, because
  each reaches the disk later. `UndoesLastWrite` depends on history, and needs what
  being alone means: no other writer is at work, no rollback, and no snapshot is
  as young as this writer's clock reading but its own (`Lone`). So its snapshot
  becomes the latest, survives the pruning, and holds what the write replaces
  (`ReplacedKept`). As nothing else touches the file meanwhile, what the rail and
  the comparison of bytes found is still so at the rename (`LoneRail`), whence
  `ReloadsForNews` and `ShareRespected`.
- `GeneratedConfigProofs`, of `Guidance`: `RouteBefore` and `RowBefore` order any
  admitted Routes and any rows strictly and totally (`RouteOrder`, `RowOrder`; that
  takes the distinct places and ranks). In a finite set so ordered each place is
  taken by exactly one member, and of two members the earlier one is before the
  other (`Places`): so a ladder lists the qualifying rows in order (`ListedIs`),
  and what its limit cuts off comes after all it names (`LadderBest`).
  `LadderIsBest` follows for every Role in every state of the right type.
- `PolicyEditProofs`: the last section with the key is the one block, in the
  file, in every text a verb has read and in every text it built. `EditIsExact` is
  proved for texts without entries in flow style, where finding 1 refutes it. It
  says that every other entry stays, and that the one named becomes what was asked
  unless it has a line below a comment: then nothing a reader sees changes, for
  the verb's line goes above that line.
- `PlanProofs`: each property is about a finished plan, so the invariant says what
  a draft holds half-way (`Complete`: it is the plan of the Offerings walked so
  far; `DraftApart`: Aliases written are distinct, and declared ones are known).
  `Current` says that with nothing new the config is what `plan` would write
  now; it survives a fold because a Gone is always an exclusion (part of
  `TypeOK`), so that Unlisting is Gone alone. `LastAwaiting` keeps what the last
  plan called restorable lacking nothing but a success, `SweptKnown` that a sweep
  left no record unknown. `ReportsAreTrue` asks three reports about that config:
  every list of a draft's report is what the walk so far makes it (`Reported`,
  beside `Complete` for the entries), and with nothing new the config is the
  entries of the last draft. So the stage `explain` computes anew is the filter the
  plan met, or the provider it never came to, and never that the config is old; and
  an Allowance's counts are those of sets `plan` kept apart.
- `HeadroomProofs`: the invariant says what a Reading is worth wherever it is kept:
  a window it may still speak of has its true reset and is drawn at least as far,
  and a window without a reset was fully drawn no longer ago than the Reading is
  old (`Faithful`). From it follows `DemotedIsDry`. codexbar's own Reading of a
  Source is the youngest, and what the holder of the lock read is what it replaces
  (`Held`), whence `ReadingsMoveForward`. `FiredOnce` needs that a reported rise
  still shows in the records (`FiredShows`) and that the binding window is the most
  drawn one: that such a window exists is the one fact taken from the well-founded
  order of the naturals (`WorstIsWorst`).
- `RunNewsProofs`: while no two fetches have overlapped there is one writer, of the
  inode named `feed.json.fetching`, which holds its document as far as its offset
  (`Alone`), so what is renamed is whole. A run that is telling compared with the
  very report it will replace, for nobody else may write in between unless two
  runs raced (`Compared`).

- `MeasurementProofs`, of `Probing`: `FailsOnlyTwice` needs to know what a retry is
  for and what a response says: a retry is for what the first call met
  (`RetryIsFor`), and a response is a rate limit, a timeout of a slow model, an
  empty stream of a reasoning one or the Offering's own answer, each only with the
  allowances that let it happen (`ReplyIs`). Of the order of the rules it takes
  that the first that applies counts, and which it is for the three responses that
  are not the Offering's own; `TypeOK` takes that some rule always applies.
  `BurstBounded` counts calls and debts together: the calls of a window, and those
  its threads may still start without another turn (one after a turn, one more as
  a retry), never exceed two for each thread and for each turn the window has seen
  (`Paced`). That sum never grows by a call, only by a turn, and turns are an
  interval apart.
- `MeasurementProofs`, of `OfferingHealth`: the invariant `Believed` has the type
  invariant, that providers answer what they can, and the two properties
  `ExcludedOnOwnEvidence` and `MarksAreProbeable`. What is hard is the fold, which
  replays a Journal of any length. `ReplayedStepByStep` gives the replay as a
  function of the number of entries taken (it exists by `StepsTaken`, a recursion
  on naturals), likewise for the evidence; one event keeps an exclusion with its
  evidence (`AppliedFounded`), so by induction over the entries, as a set of
  naturals closed under successor (`UpTo`), the whole replay does. A Probe's answer
  clears the exclusion in between, so that only an entry the run overlapped can
  bring it back: `ProbeOverrulesEarlier`.

Proved, and in no run any more: `MutualExclusion`, `PriorIsCurrent` and
`BatchStillFirst` of `HealthFold`, `EditedBlockIsRead`, `RestorableInReach`,
`VariantsTogether`, `ReloadsForNews`, `ShareRespected`, `MarksAreProbeable`.

So every invariant and every action property of a passing run is a theorem. Only
model-checked are the liveness properties, which need fairness and `ENABLED`:
`EventuallyFolded`, `SweepsGoOn`, `Recovers`, `FoundOut`, `HiddenNotForever` and
`SweepEnds`. The two violated runs and the configurations beside them are
counterexamples on an instance, which need no proof.

## 5. Not modelled, and the plan

Not modelled for good: the text of YAML and of messages, HTTP, redaction, the
launchd property list, deployment of provider modules and the package patches,
`doctor` (it changes nothing, and each of its checks is one comparison), Policy
parsing (a validator with no state), translation, rates and Stated Limits (a table
per provider of Feed fields to parameters), and the arithmetic of guidance's
scores, which are given numbers in `Guidance`. `operator_surface.set_entitlement`
edits a key below a provider's and shares `_edit`; its own text edit is left out.

The watcher's detection of new entries between two polls is not modelled either:
`watch` is a command an operator starts by hand, every entry it misses waits for
the tick, and its confirming Probe is `Confirm` of `HealthFold`. Nor is the news of
`needs_operator`, of which the list above says what is lost.

What could come next: `RoleWrites` with a theorem that a ladder in the config was
the best one at its write; the safety halves of the liveness properties (what a
sweep still owes never grows); and the watcher's polls composed with the rotations
of `HealthFold`.
