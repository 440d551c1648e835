# Kairo: a TLA+ verification project

Kairo (`src/backend`) runs *capital cells*: small pots of money, each traded by
one strategy under one risk governor. A cell's settled profit is siphoned into
three buckets; one buys the cell's long-term target, one funds a *child cell*
when a human agrees. Everything is kept in PostgreSQL tables that are appended
to rather than changed, and much of what must never happen is refused by
triggers and constraints rather than by Python.

This directory models that machinery in TLA+, checks it with TLC on small
instances, and proves what matters most with TLAPS for all values of the
constants.

- [1. The system](#1-the-system): inventory, interactions, what is hard
- [2. The modules](#2-the-modules): what models what
- [3. The runs](#3-the-runs): what TLC checks, within which bounds
- [4. The proofs](#4-the-proofs): what is proved, from what, along which argument
- [5. Findings and known deviations](#5-findings-and-known-deviations)
- [6. What is not modelled, and the plan](#6-what-is-not-modelled-and-the-plan)

Paths below are relative to `src/backend/`. To repeat a check:

    tlc -config Capital_flow.cfg MCCapital.tla
    tlapm CapitalProofs.tla

## 1. The system

### How the parts interact

    market tape ──> replay orchestrator ──> strategy (EMA cross)
                        │   │  ▲                │ signal
                        │   │  └── fills ───┐   ▼
                        │   └─> paper broker <── order intent
                        ▼                       ▲ decision
                    risk governor ──────────────┘
                        │ marks, P&L, positions
    settled fills ──> siphon ──> SAFETY_RESERVE
                        │──────> TARGET_TREASURY ──> treasury ──> holdings
                        └──────> REPLICATION_POOL ─> replication ─> human ─> genesis ─> child cell
    public feeds ──> evidence store ──> cases ──> context gate ──> veto governance
    recorded trades ──> trust evaluation, validation, human gate

A replay is one thread in one transaction, which calls the governor, the
strategy and the broker in turn. Siphon, treasury, replication and the human
services are separate transactions against the same tables (READ COMMITTED,
with some rows locked `FOR UPDATE`), and so can run between each other's
statements. Parts share no memory across processes; they share rows.

### Components

| component | state it keeps | operations | what makes it correct | modelled |
|---|---|---|---|---|
| risk governor (`engine/risk`) | `risk_governor_state`, marks, decisions, state events | start session, arm, pause, flatten, reconcile, account a fill, take a mark, evaluate an order | a breach stops; a stop is final in its session; new risk only inside every limit; exits only shrink | yes |
| paper broker (`engine/execution/paper_broker.py` …) | orders, observations, fills | submit, match against a quote, request and resolve a cancel | no overfill; one piece of evidence fills an order once; statuses are true; limits hold | yes |
| replay orchestrator (`replay_orchestrator.py`) | position in the event, current positions | initialize, process event, route signal, apply fills | the governor judges a true net; what is sold is there | yes |
| strategy (`engine/strategy`) | averages, held positions, loss streak | on bar, record open and close, build signal | entries only in hours, two losses end them, exits match what is held; a decision owes nothing to later events | yes |
| siphon (`engine/siphon`) | realized P&L facts, attributions, siphon events, allocations | record fact, create target, qualify and allocate | all siphons stay within what the accounts made; a call leaves its account's seed; cents add up | yes |
| treasury (`engine/treasury`) | executions, consumptions, holdings | execute available, rebuild holdings | an allocation is spent once, oldest first; holdings are the executions | yes |
| replication, human authorization and genesis (`engine/replication`) | proposals, reservations, decisions, child cells, their event logs | propose, release, approve, reject, instantiate | the pool is never overcommitted; ends are final; a child is approved and funded | yes |
| trust evaluation (`engine/trust`) | snapshots of scores | collect evidence, score, recommend a tier | a promotion rests on a clean record; a bypass is for ever; tiers do not flap | yes |
| feeds and evidence store (`engine/intelligence/feeds`, `evidence_store.py`) | cached validators, artifacts, ledger rows | poll, retry, ingest | whole documents or none, backed by bytes; rounds end | yes |
| investigation cases (`engine/intelligence/cases`) | cases, findings, conclusions | open, add findings, conclude | findings are numbered densely; a verdict follows from its manifest | yes |
| context gate and veto governance (`context`, `governance`) | assessments, opinions, authority events | assess, propose, decide, grant, revoke, intercept | suppression only under an approved grant in force; a revocation sticks | yes |
| counterfactual research (`intelligence/research`, `engine/research`) | result rows | trade removal, stateful replay | hindsight is worth nothing; a track leaves nothing behind | but for the policy sweep |
| validation and human gate (`engine/validation`) | runs, scorecards, confidence, acceptance facts | score, rate, decide | answers are on record; acceptance rests on evidence | partly |
| flywheel runner (`engine/replay`) | session cells, a manifest | step the cells, audit | a newborn child does not trade in its session; no audit rewinds a cell; the proof holds while nothing was lost | partly |
| data providers, enrollment, qualification (`engine/data`) | instruments, accountings, manifests | decode, enroll, qualify | a contract is enrolled once; a corpus that passes has earned it, at its own time | enrollment and qualification |
| persistence and domain types (`app`) | tables | — | constraints, modelled with the component they guard | with the components |
| dashboard (`src/app`, `src/components`) | none | — | read-only front end over fixtures | no |

### What is hard

`PROJECT.json` lists each hazard at its line. They are of five kinds.

- **Interleaved transactions.** A `SELECT ... FOR UPDATE` reads and then waits.
  The tables it locks are append-only, so a row that was only locked is *not*
  read again: a treasury call goes on with sums that were true before it waited.
  Siphon calls of different accounts lock different rows and read the same
  totals. Replication reads allocations one at a time while a release or a
  genesis commits. Authority events, findings, evidence, scorecards and
  instruments are looked up first and inserted later, with a unique key between.
- **Orders of events nobody wrote a test for.** Marks arrive late, fills and
  marks interleave, an order is cancelled twice, two events carry one timestamp
  and are ordered by a hash, settlement evidence is old.
- **Chains in which one link sees another half done.** A replay applies one fill
  in five links (position, strategy, mark, P&L, boundary); the governor judges
  in the middle.
- **What is known when.** Opinions, authority, evidence, audits and breaches are
  dated by whoever records them, and recorded whenever: a judgement made for a
  moment must not rest on what came later, nor be forgotten by what moved on.
- **Boundaries.** Fees above the estimate, cents and quanta, notional orders
  whose quantity depends on the quote, partial fills.

## 2. The modules

Each component's module has the code's tables as VARIABLES, and an action per
operation, or per statement where other transactions can come between. `_Fault`
operators are plausible slips in the definition after them (a dropped guard, a
swapped order). They are no part of the model: nothing uses them, and they exist
so that each property can be shown to fail when the code is wrong.

| module | models | its steps are |
|---|---|---|
| `TradingSwitch` | abstract: what the governor promises | begin, open, close, stop, answer |
| `RiskGovernor` | `engine/risk` | whole operations: each locks the cell's one state row first |
| `EvidenceFills` | abstract: what a venue promises about fills | fill an order against fresh evidence |
| `PaperBroker` | `paper_broker.py`, `fill_model.py`, `liquidity.py`, `cancellation.py`, lineage gate | whole calls of one engine |
| `TapeAndOrderProofs` | proofs about `PaperBroker` and `ReplayTape` | |
| `ReplaySession` | `replay_orchestrator.py` and `engine/strategy`, on top of `RiskGovernor` | links of the chain an event sets off |
| `ReplaySessionProofs` | proofs about `RiskGovernor` and `ReplaySession` | |
| `ReplayTape` | how `replay_orchestrator.py`, `market_data.py`, `option_resolver.py` and the multi-year runner make a sequence of events of a tape | a session passed over, begun or ended, an event |
| `SeedFunding` | abstract: where the pool's dollars are | pledge, approve, drop, fund |
| `Replication` | `engine/replication`, triggers of migrations 0014 and 0015 | lock, read an allocation, commit, roll back |
| `ReplicationProofs` | proofs about `Replication` | |
| `Siphon` | `engine/siphon`, triggers of 0011 | statements of a call |
| `Treasury` | `engine/treasury`, triggers of 0012, beside `Siphon` | statements of a call |
| `FlywheelAudit` | the conservation proof of `flywheel_runner.py`, over `Treasury` | (operators) |
| `FlywheelSessions` | the walk of `flywheel_runner.py` through cells and sessions | a cell initialized, a cell stepped, a run begun, ended or failed |
| `CapitalProofs` | proofs about `Siphon`, `Treasury`, `FlywheelAudit` and `FlywheelSessions` | |
| `PrimaryFeeds` | what the four feeds make of a row | (operators) |
| `FeedPoller` | `http_client.py`, `feed_coordinator.py`, `evidence_store.py` | answers to a request, statements of an ingest, commit, restart |
| `FeedProofs` | proofs about `FeedPoller` | |
| `CaseEngine` | `cases/case_engine.py`, triggers of 0018 | statements of a call |
| `ContextGate` | `context/context_gate.py`, on `PrimaryFeeds` | whole calls |
| `VetoAuthority` | `governance/`, triggers of 0022, on `ContextGate` | whole calls, but for authority events (insert, commit) and interceptions (read the authority, record) |
| `IntelligenceProofs` | proofs about `CaseEngine` and `VetoAuthority` | |
| `TrustEvaluator` | `engine/trust` | a fact recorded, an evaluation, a tier applied |
| `Scorecard` | `scorecard_engine.py`, `regime_policy.py` | (operators) |
| `ValidationGate` | `confidence_engine.py`, `human_gate.py` and the scorecard's insert | read and compute, insert |
| `TradeRemoval` | `effectiveness_engine.py` | read, look, insert |
| `StatefulReplay` | `stateful_replay_runner.py` | an opportunity, a snapshot, a rollback, the record |
| `OptionEnrollment` | `option_enrollment.py` | a contract looked up, inserted, commit |
| `CorpusQualification` | `corpus_qualifier.py` and the typed normalizer, on `OptionEnrollment` | evidence comes in, a qualification |
| `AssessmentProofs` | proofs about `OptionEnrollment`, `CorpusQualification`, `TrustEvaluator`, `Scorecard`, `ValidationGate`, `TradeRemoval` and `StatefulReplay` | |
| `SumTheorems` | facts about sums over finite sets, for the proofs | |
| `MC*` | constants for TLC, and the scenarios of a run | |

### Risk governor

`RiskGovernor` keeps the state row (session, operational state, the four P&L
columns), the marks, the event ledger as the set of states each session entered,
the positions, the last decision and the last commands. `Reason` has the code's
checks in the code's order, because which of them answers first decides which
path an order takes. The positions are written by somebody else
(`PositionChanges`), at any time. In `ReplaySession` that somebody is the
orchestrator, so there the environment becomes a program.

Left out: slippage telemetry, which nothing reads, and the cancels among the
liquidation commands, which carry no state of the governor.

The abstraction is `TradingSwitch`: ARMED is open; LOCKED_FOR_DAY, HALTED_HARD
and FLAT_LOCKED are stopped; the rest is closed.

### Paper broker

The observation log is what makes calls idempotent; the model keeps it, and
nothing else guards a second fill. Matching does not look at the order's status
(nor does the code), so CANCELED and REJECTED orders can fill: the properties are
checked with that happening. Price and quantity are integers. `ExactAssumption`
restricts notional orders to sizes their prices divide; only the runs rely on it.

### Replay session

`ReplaySession` EXTENDS `RiskGovernor` and uses its actions as they are. `at` is
the link the orchestrator has reached. An average is abstracted to the side of it
the close is on, a resolver to a choice among the eligible contracts, the clock
to three parts of the day. Orders are limit orders at the quote and fill at the
limit, for what the depth allows; the orchestrator never matches them again.
`earned` is the sum of the realized P&L of the `fills` rows, which the governor is
told of one by one and adds up for itself: what it judges by is compared with it.

`ReplayTape` is what `ReplaySession` abstracts from: which events there are and in
which order, which of them close a bar, and which contracts are resolved for it.
All of the tape is known when the expirations of a session are chosen;
`TapeIsCausal` compares each decision with that of the tape cut off behind its
event. Its `trace` records decisions for that comparison; the code hands them to
the strategy.

### Replication

A transaction's first step takes the locks its call starts with, its last takes
the rest, passes the triggers and commits. The locks are a function of the open
transactions. A transaction may roll back at any time, which covers triggers,
deadlock victims and a crashed process alike. The *current* state of a proposal
is its latest event by `(occurred_at, event_id)`; ids are hashes, so among events
of one instant the model chooses. `SharedTimestamps` says whether callers may
share an instant.

### Siphon and treasury

`Treasury` EXTENDS `Siphon`: the allocations one makes, the other spends. A
siphon call locks, reads the attributions, reads what was siphoned, reads what is
reserved, then writes; a treasury call selects, acquires, buys, rebuilds and
commits. One cell and one economic domain are modelled. The amounts are integers
of which `Cent` make a cent, so that the code's floors can be seen.

### Flywheel

`FlywheelAudit` reads the rows of `Treasury` once more and compares them, with
the 40 percent the audit has written down where the siphon has a policy.
`FlywheelSessions` keeps cells, births, the governor's sessions and the line-up
of each; engines are the caller's, and in a step a cell may be halted or pay a
genesis. `Replication` keeps the children's dollars, of another pool than this
one's: what the audit reads of it is a *report* (what was consumed and is reserved of
each allocation, and whether the orphan check found anything), of any content. The
two things `GoodReport` asks of it are invariants of `Replication`:
`NeverOvercommitted`, and `HasZeroOrphans`. The check for orphan orders and fills has
nothing to find: their foreign keys are not null.

### Intelligence

`FeedPoller` has processes (the validators of conditional requests die with them)
and sessions (a round is a transaction, a poll a savepoint in it). A document is
identified by its content, its rows by their place in it; `PrimaryFeeds` says what a
row becomes and which rows are refused. `ContextGate` reads evidence, of the same
operators, and conclusions as of a time the caller chooses. In `VetoAuthority`
inserting and committing an authority event are two steps, because its trigger reads
without a lock, and so are the two ends of an interception: it reads the authority,
and other sessions commit what they like before it records its suppression. What it
reads in between never changes. `CaseEngine` is modelled statement by statement for
the same reason.

### Trust, validation and research

`TrustEvaluator` collects its evidence from facts others record in any order, and
scores in hundredths of a percent, rounded down factor by factor. `Scorecard` is
a set of operators over the session facts; `ValidationGate` is the protocol of
the three rows a run may have. `TradeRemoval` joins closing fills and opinions in
one snapshot. In `StatefulReplay` the world of a track is a copy of the cell's
facts that the rollback gives back; the adapter is the caller's, and is modelled
as the repository's tests write it.

### Market-data corpus

Contracts in `OptionEnrollment` are numbers in the order the gate takes them; the
identity and symbol it derives of a contract are that number, those anybody else
gave it are negative. In `CorpusQualification` bars come in blocks of minutes, and
the 21 strikes, two sides and five expirations of a neighborhood are a set of
contracts. Bars and chains are listed in the order they came in, which is what the
causal violations are counted by; that each moment is normalized once is assumed.

## 3. The runs

A run asks one kind of question of one part of the system. Where several
components, or several kinds of input, share a run, its MC module picks a
*scenario* in the initial state, so that their state spaces add up instead of
multiplying; what belongs to the other scenarios stays as it is.

All but one check safety under no fairness: calls are made by an operator, a
human or a replay, and nothing in the code schedules a second one. The exception
is a round of polls once it is open. `FeedPoller!FairSpec` asks strong fairness
of the steps of an open round, for each poller: every request has a timeout and a
bound on its retries, and a flush that waits for another session's artifact goes
on when that session ends, though others may come and take its place (weak
fairness would let it wait for ever). Nothing is asked of the opening of a round
nor of restarts.

| run | module | distinct states | checks |
|---|---|---|---|
| `governor` | RiskGovernor | 757,854 | `RecordsAgree`, `LossBreachStops`, `AuthorizedOrdersAreSafe`, `ImplementsSwitch`, `HaltsHold`, `MarksNeverRegress` |
| `tape_and_orders` | ReplayTape; PaperBroker | 279,266 | `TapeIsCausal`; `FillsAreDue`, `StatusesAreTrue`, `ImplementsVenue` |
| `replication_race` | Replication | 543,714 | `PoolHolds`, `ProposalsAreSettled`, `EndsAreFinal`, `ImplementsFunding` |
| `replay_tapes` | ReplaySession | 1,287,050 | `PositionsAgree`, `NetIsTrue`, `ImplementsGovernor`, `EntriesOnlyWhenAllowed` |
| `capital_flow` | Siphon, Treasury, FlywheelAudit; FlywheelSessions | 1,753,655 | `CapitalTypeOK`, `SiphonWithinMeans`, `SpendingIsHeld`, `PurchasesAreDue`, `ProofFailsOnlyByLosses`; `BirthSessionQuarantined`, `AuditsNeverRewind` |
| `feeds` | FeedPoller | 113,131 | `EvidenceHolds`, `ValidatorsStandForFacts`, and the liveness property `RoundsEnd` |
| `intelligence` | CaseEngine; ContextGate, VetoAuthority | 2,231,174 | `FindingsAreNumbered`, `VerdictsFollowManifests`; `AuthorityHolds`, `GrantsRestOnEvidence`, `RevocationSticks` |
| `assessment` | TrustEvaluator; Scorecard, ValidationGate; TradeRemoval; StatefulReplay; OptionEnrollment, CorpusQualification | 552,442 | `TrustIsSteady`, `PromotionNeedsCleanRecord`; `AnswersHold`; `StudiesAreSound`; `WorldsPartAtVetoes`; `EnrollmentHolds`, `QualificationHolds` |
| `broker_cancel_retry` | PaperBroker | | violates `FilledOrderNeverCanceled` |
| `replication_released` | Replication | | violates `ReleasedCashNeverConsumed` |
| `replay_reentry` | ReplaySession | | violates `ReentryNeverFails` |
| `replay_true_net` | ReplaySession | | violates `StopsOnTrueNet` |

A run checks a type invariant together with what it protects, and properties that
say two sides of one promise together. Those that stand for several are

| checked | stands for |
|---|---|
| `RecordsAgree` | `TypeOK`, `NetPnlConsistent`, `LedgerExplainsState` |
| `AuthorizedOrdersAreSafe` | `NewRiskOnlyInsideLimits`, `ExitsOnlyShrink` |
| `HaltsHold` | `HaltIsFinal`, `MarkHaltLiquidatesAll` |
| `FillsAreDue` | `TypeOK`, `NeverOverfilled`, `LimitRespected` |
| `StatusesAreTrue` | `FilledIsTrue` in every state, `CancelNeverHidesFill` |
| `PoolHolds` | `NeverOvercommitted`, `PlannedCashStaysAvailable` |
| `ProposalsAreSettled` | `TypeOK`, `ClosedProposalsHoldNothing`, `ChildrenAreFunded`, `HasZeroOrphans` |
| `PositionsAgree` | `ReplayTypeOK`, `NeverOversells` |
| `TapeIsCausal` | `TapeTypeOK`, `NothingFromTheFuture`, `MinutesAreOver`, `SessionsAreWhole` |
| `CapitalTypeOK` | `TypeOK`, `FlywheelTypeOK` |
| `SiphonWithinMeans` | `SiphonedWithinProfit`, `SeedFloorProtected` |
| `SpendingIsHeld` | `AllocationsSpentOnce`, `HoldingsAreExecutions` |
| `PurchasesAreDue` | `ExecutionsArePaid`, `OldestFirst` |
| `EvidenceHolds` | `TypeOK`, `EvidenceIsBacked`, `NoPartialEvidence`, `EvidenceIsDeduplicated` |
| `FindingsAreNumbered` | `CaseTypeOK`, `SequencesDense` |
| `AuthorityHolds` | `TypeOK`, `SuppressionsAreDue`, `OneGrantPerApproval` |
| `TrustIsSteady` | `TrustTypeOK`, `BreachIsForever`, `TiersDoNotFlap` |
| `AnswersHold` | `ValidationTypeOK`, `AsOfIgnoresTheFuture`, `DistributionsRise`, `AnswersAreOnRecord`, `AcceptanceRestsOnEvidence` |
| `StudiesAreSound` | `RemovalTypeOK`, `SlicesReconcile`, `HindsightWorthNothing`, `DrawdownsCompare` |
| `EnrollmentHolds` | `EnrollmentTypeOK`, `NewlyEnrolledOnce`, `AcceptedIsEnrolled`, `CallsNeverCross` |
| `QualificationHolds` | `NoLookAhead`, `PassIsEarned` |
| `WorldsPartAtVetoes` | `StatefulTypeOK`, `TracksLeaveNothing`, `SessionDeltasAddUp`, `PartAtAVeto` |

Each `about` in `PROJECT.json` says in a sentence what its run shows, and for each
property of a passing run `PROJECT.json` names a mutant that breaks it.

### The bounds, and why they are enough

- **Governor.** The loss floor is -2 and the lock 3, so that one fill reaches
  neither, either or overshoots. Three scenarios need different inputs.
  *lifecycle* has two sessions to be named in any order, big fills and entries.
  *portfolio* has two instruments (one an option, multiplier 2), marks above and
  below cost at two times, and one session. *decisions* has a flat, a long and a
  short lot and every order that differs from a sane one in one respect (two for
  a short sale). `MoneyBound` caps accumulated realized P&L and fees.
- **Orders.** A limit sell of three, a limit buy by notional, one the governor
  refused (scenario *limits*), and a market order (scenario *market*). Four pieces
  of evidence: a print of one, a quote without size, a quote of two, a bar. Filling
  three takes two pieces of evidence, so partial fills, retries with the same
  evidence and cancels in between all occur.
- **Replication.** A pool of two allocations (2 and 1) with a threshold and a
  seed of 2: the second proposal needs what the first frees. Two sessions, two
  proposals, three distinct times, and a child code taken already: the violations
  of interest need two open transactions, and a propose has a read in between.
  Callers that share an instant are the matter of `replication_released`, and of
  the theorems, which allow it but for two.
- **Replay.** One symbol with a call and a put, quotes up and down past the exit
  thresholds (10 % and -5 %), with depth 0, 1 and 2, and up to five fills
  (`MaxFills`): buy, loss, buy, loss, and one more, which is what two losses in a
  row and what follows need. `Lots`, `FillEvents` and `Requests` contain every
  value these tapes can produce.
- **Tapes.** Six sample times, which are three minutes or two sessions. One
  stream has any two or four of them (or two out of order), bars, quotes or samples,
  and two chains, listed in or out of their order or of one instant, each with one
  of five sets of rows: two strikes, another day, both days, none, a stranger. A
  second stream shares instants with the first.
- **Capital.** Two accounts; the first wins, loses and wins again, so net and
  gross profit part. Evidence early and late (the early one may be brought late),
  one whose cash binds. Two sessions, three siphons (`MaxSiphons`): two for one
  account with another of the other account between. Minimum 4 and shares of 40,
  40 and 20 % in whole cents; an actual fee above the estimate, so that a
  purchase is sized twice; a quote that passes the gate and one that does not.
  One instrument and one configuration: a second would multiply the states, and
  the proofs cover any number. The audit is asked of one good and of bad reports of
  the replication (`MC_Reports`). Scenario *replay* has two cells and three sessions
  whose windows part or touch, feeds of any of their slices, one run that repeats
  what another did, a birth in any of them and one failure.
- **Feeds.** Two pollers with the BLS schedule and SEC EDGAR in opposite orders,
  so that each can hold the artifact the other waits for. The schedule is served
  malformed and then with two rows (a document of one fact could not be stored in
  part); the submissions list one filing (a second request within a poll). One
  retry after a 429 and one restart: the second of each adds nothing new.
- **Intelligence.** *cases*: two analysts, two cases, batches of one and two
  findings. *context*: two cells, two events, times 0 to 3, conclusions at any of
  them. *authority*: three research runs that meet the criteria, miss them by the
  length of the sample, and belong to another cell; two sessions and three
  authority events dated at any time: grant, revocation and a second grant. One
  interception is under way at a time (`MaxInterceptions`), while events are
  committed and revoked around it: two would only read and record the same rows.
- **Assessment.** *trust*: windows of 2 and 3, two good trades and two good or poor
  histories on record, and fourteen facts at most, any of which comes in at any
  time between two evaluations. *scorecards* and *approval*: two callers, two runs
  of four sessions, evidence at either side of each gate. *removal*: four closes, two
  of one intent, amounts with half cents, four opinions, in time and in hindsight.
  *tracks*: seven opportunities on four days with a loss that halts a day before
  a profit that pays a genesis, and every set of opinions on five of them.
  *enrollment*: two calls with overlapping batches, a discovery that does not
  parse, and two rows of other writers, one of which takes a symbol. *corpus*: one
  call at a time, two decision times with a firm, a thin or no chain, a block of 99
  minutes of 100 and one of the last, evidence in any order, two manifests.

`CHECK_DEADLOCK FALSE` stands where the system really may stop: an exhausted set
of evidence, timestamps, facts or documents, the last fill, the last study. The
governor's run checks for deadlock.

## 4. The proofs

All theorems hold for every value of the constants under the named assumptions,
which TLC evaluates in every run of the module that declares them.

### Sums (`SumTheorems`)

Money is summed with `MapThenSumSet` of the community modules, a recursion over
the subsets of a set. An induction theorem that takes an operator cannot be used
with the installed provers; so the inductions here are over a *set*: the sizes
(`NatReached`) or subsets (`SetReached`) for which something has been shown, which
contains zero or the empty set and with each its successors. From them: a sum is an
integer, grows with its terms and with its set, splits over disjoint parts and
over the values of a key (`SumByKey`), and what is taken from rows in order adds
up (`TakesWhatIsNeeded`). Sequences of audits, scores and curves are handled the
same way, by their length.

### Risk governor (`ReplaySessionProofs`)

From `PolicyAssumption` (the floor is negative, the lock positive),
`DomainAssumption` and `InputAssumption` (the shape of what the environment
supplies). The properties are inductive next to `TypeOK`, which is proved first
(`TypeStep`, one step per action); what they need besides is said once, as lemmas
about the operators the actions share: where a transition leads
(`TransitionType`), that the boundary check stops a breach (`BoundaryStops`), what
an authorized decision has passed (`AuthorizedDecision`: the chain of early
returns, read backwards). `LossBreachStops` holds at the start of a session only
because the floor is negative, and stays because the transition table leads out of
neither HALTED_HARD nor FLAT_LOCKED. Proved: `TypeOK`, `NetPnlConsistent`,
`LossBreachStops`, `NewRiskOnlyInsideLimits`, `ExitsOnlyShrink`,
`LedgerExplainsState`, `HaltIsFinal`, `MarksNeverRegress`,
`MarkHaltLiquidatesAll`, and the refinement `ImplementsSwitch`.

### Replay session (`ReplaySessionProofs`)

From `ReplayAssumption` and the governor's. `ReplayInv` adds to the types `Flow`
(what is set at which link, and that it can be handed to the governor), `Underway`
(an order on its way sells what the strategy holds, or buys as an entry may),
`LongOnly` and `NeverOversells`. Every step is then a step
of `RiskGovernor` or a stutter (`ImplementsGovernor`), so that the governor's
theorems hold of a replay; `ReplayStopsOnBreach` carries one over. Proved also:
`EntriesOnlyWhenAllowed` and `NetIsTrue`. `earned` is the sum the fill ledger
has (`fill_realized_pnl`), written where a sell is settled; what the governor has
been told is shown equal to it but for the one fill whose P&L is on its way, and
`Valuation` says at which links the unrealized P&L is that of the marks, and that
between a fill and its mark only the contract that was filled may lack one.

### Paper broker (`TapeAndOrderProofs`)

From `InputAssumption`. `StepKinds` reduces the actions to three: a match, a
cancel, or nothing an order can see. `NeverOverfilled` is inductive next to the
types and carries `FilledIsTrue`, which carries `CancelNeverHidesFill`. The
refinement needs one more strengthening, `FillsObserved`: evidence that has filled
an order stands in the observation log, which is all that `_match` looks at.
Without it nothing says that fresh evidence is fresh. Proved: `TypeOK`,
`NeverOverfilled`, `FilledIsTrue`, `LimitRespected`, `CancelNeverHidesFill`, and
the refinement `ImplementsVenue`.

### Tapes (`TapeAndOrderProofs`)

From `TapeAssumption`: streams are sequences, times and expirations integers, and
the sessions of the calendar follow one another. `TapeInv` keeps, of every
decision, that its session was sound (chronological streams, one chain to an
instant, an expiration wherever a chain has rows) and that it is what the *whole*
session makes of its event, with the expirations chosen of the whole session. That
it is also what the tape *up to the event* makes of it is no matter of steps but a
fact about the operators (`DecisionIsKnown`): a decision looks at the chain of its
own instant; if that has rows, the first chain on offer is no later, so the choice
of the expiration is the same on the tape cut there (`PrimedIsKnown`). Minutes rise
with time and two events of a stream do not close one bar (`MinutesRise`,
`MinuteIsOver`, `BarsPart`). Proved: `TapeIsCausal`.

### Replication (`ReplicationProofs`)

From `PoolAssumption`. `Plans` says of an open proposal that it draws only on rows
it has locked and read, and that its draws still fit; `Exclusive`, that two
proposals lock disjoint rows. Together they make reads taken one by one as good as
one read, and give `NeverOvercommitted` and `PlannedCashStaysAvailable`. `Life`
relates the state of a proposal to its reservations, its decision and its child;
`GenesisApproved` carries the approval from the genesis's lock to its commit.
`Settled` says that an open proposal holds all it reserved and a closed one nothing.
Proved: `TypeOK`, `NeverOvercommitted`, `PlannedCashStaysAvailable`, `EndsAreFinal`,
`ChildrenAreFunded` and `HasZeroOrphans`, all with shared timestamps allowed; and,
**under `~SharedTimestamps`**, `ClosedProposalsHoldNothing` and the refinement
`ImplementsFunding`. The premise is needed: `replication_released` shows a state
without it in which dollars a release freed are consumed.

### Siphon and treasury (`CapitalProofs`)

From `SiphonAssumption` and `TreasuryAssumption`, in four steps.

*The siphon.* A call that has read its facts and the siphons before it has a right
to what is left of its profit (`Right`). `SiphonInv` says that what was taken,
with the rights of all open calls, stays within the sum over the accounts of the
highest net profit each has had (`RightsWithinProfit`); that calls hold disjoint,
initial parts of an account's facts (`RowsAreLocked`, `RowsAreSettled`); and that
one about to write has read every siphon of its account (`ReservesAreRead`).
Proved: `SiphonWithinMeans`. `Treasury` is `Siphon` with more steps
(`TreasuryKeepsSiphon`), so it holds there too.

*The spending.* `Inv`: nothing is consumed of an allocation that does not
exist yet (`NothingAhead`), calls that hold their locks share no allocation
(`Exclusive`), and what a call past the ceiling trigger is going to consume still
fits until it commits (`Reserved`). `AllocationsSpentOnce` is a part of it.

*The holdings.* `Held`. Nothing but the allocations' locks keeps two rebuilds
apart, so the argument has to show that two calls that both buy would have locked
a common allocation (`OneBuyer`): a call spends only if something was left
(`BuyerSpends`), it has read everything that had something left at its SELECT
(`Fresh`), and the oldest such allocation is in both. That takes a least element,
from the well-foundedness of `<` on the naturals. `Rebuilt` then says that the sums
a call has taken are still those of the executions. Proved: `HoldingsAreExecutions`.

*The purchases.* `Due`: what a call has read of an allocation is no less than what
is left of it (`Enough`), what was executed is what was spent, and `OldestFirst`.
What a call consumes of its rows in order adds up to what it pays (`RowsTake`,
`CallIsPaid`). Proved: `PurchasesAreDue`.

The audit reads the rows these invariants are about. `AuditFailsOnlyByLosses` has
the policy of the code as a hypothesis (`ReservePct = 40`, `TargetPct = 40`:
the percentages `FlywheelAudit` has written down) and shows that each of its
comparisons follows from them but `qualified <= net_pnl`, which follows from
`SiphonedWithinProfit` while the net is what it was at its best: while every account
stands at the most it has made, the proof holds, whatever `GoodReport` of the
replication it reads (`ProofFailsOnlyByLosses`). That the reports are good is
`NeverOvercommitted` and `HasZeroOrphans`, of another instance of the pool.

### Flywheel sessions (`CapitalProofs`)

From `FlywheelAssumption`. `QuarantineInv`: whatever is in a line-up was born
before its session opened, and since a cell that exists is never born again this
lasts. `RiskInv`: a session a cell is in is one that has been made known of it,
so that the runner does not initialize it again. Proved:
`BirthSessionQuarantined`, `AuditsNeverRewind`, for any number of cells, sessions
and repetitions, and with the types of the treasury `CapitalTypeOK`.

### Feeds (`FeedProofs`)

From `FeedAssumption`. A poller is looked at as one record (`At`): whatever step it
takes, it becomes some other record while the committed rows and the contents on
disk only grow under the others, so each step is shown once and not once for every
poller. `FeedInv` says of the record what it may carry: `Holds`, that the facts it
has written or parsed make up whole documents over the ledger, each fact there as
it is or as a row that is the same event, and that a savepoint is such a state
too, which is what makes a rollback to it harmless; `Fits`, what is set at which
step. Of the ledger it says that every row of a fact has a poller of its own
(`Counted`: those that have committed one, written one or looked and found
none are not more than there are pollers), and of the validators that they are of
documents carried or stored while no round has failed (`Valid`). `FeedAssumption`
has `OnRecord`, rows with one event key are rows of one event; that is what the
unique key stands for. Proved: `EvidenceHolds`, `ValidatorsStandForFacts`.

### Investigation cases (`IntelligenceProofs`)

No lock orders the calls; the number does. Whoever holds an uncommitted batch
holds the number that follows the committed ones (`InsertedInv`) and is therefore
the only one; a call that has merely read its number knows that all below are
there (`NumberedInv`), which is what its batch needs if its insert succeeds. What
a conclusion has read of a case is what it had then (`ReadInv`). Of the calls that
have inserted the conclusion of a case there is one, and none if it is committed
(`ConcludedOnce`). Proved: `FindingsAreNumbered`, `VerdictsFollowManifests`.

### Veto authority (`IntelligenceProofs`)

From the assumptions on the constants of `PrimaryFeeds`, `ContextGate` and
`VetoAuthority`. The ledgers are append-only, so what a row was checked against at
its insert still stands: `IInv` says of each row what its trigger or the code that
inserts it made sure of, also of authority events that are not committed yet
(`Warranted`, `UseInv`: rows of one decision are one row, because of the unique key
and of the wait for it). `RevocationSticks` is an action property about both steps
of the interceptor: one that reads the authority now does not read a grant that is
revoked as of its time, because what it reads is the latest event as of then
(`ReadingLatest`); and a suppression that is inserted under a revoked grant belongs
to an interception that was open, and so had read before (`HeldInv` says of open
interceptions what they may carry). `GrantsRestOnEvidence` counts opinions, so its
invariant (`EvidenceInv`) has to say that the ledgers are finite at any time, though
there may be any number of intents; research that met the criteria then still does,
because counts of growing finite sets grow. Proved: `TypeOK`, `SuppressionsAreDue`,
`OneGrantPerApproval` (together `AuthorityHolds`), `RevocationSticks`,
`GrantsRestOnEvidence`.

### Enrollment and corpora (`AssessmentProofs`)

From `EnrollmentAssumption` and `QualificationAssumption`. `EnrollmentInv` holds of
every call what it has accepted, inserted and has left: contracts are taken in order
(`CallSound`), what is not committed collides with nothing that is or with what
another call holds (`Apart`), and what was accepted is on record or about to be.
That the counters of all answers add up to the rows needs the cardinality of a
disjoint union. A wait is for a contract the waiting call takes after all it holds,
so that waiting goes up the order of contracts: in a circle, the call that waits for
the largest contract would wait for one that waits for a larger. Proved:
`EnrollmentHolds`, for any number of calls and batches.

`QualificationHolds` is proved **under `[]Moderate`**: no manifest has 20 000
discoveries or 20 decisions. The premise is needed: percentages are rounded to two
places, half to even (`engine/data/option_enrollment.py:78-85`,
`engine/data/corpus_qualifier.py:145`), so that one contract in 20 000 or more may
be missing at 100.00 %, and one decision in 20 at 95 %.

### Trust (`AssessmentProofs`)

From `FactsAssumption` (the shape and order of what may be recorded). `TrustInv`: a
row of the ledger is what an evaluation makes of some evidence (`Evaluated`), and
what an evaluation has found of bypasses is still found (`Lasting`), since facts are
only added; with a bypass found the eligibility is gone, whatever else is recorded.
`TiersDoNotFlap` is a fact about the operators alone: with the same evidence a
recommendation is a fixed point. Proved: `TrustIsSteady`,
`PromotionNeedsCleanRecord`.

### Scorecards and approval (`AssessmentProofs`)

From the assumptions of `Scorecard` and `ValidationGate`. `ValidationInv` says of every
row, those about to be inserted included, that it is what its engine makes of inputs
that were there (`RowSound`); since rows are inserted once and never changed,
what it rests on is still what it was. `RowSound` serves the proof; what a row
promises is then a fact about the engines, and that is what `AnswersHold` states:
the eligibility of a scorecard is that of its counts, percentiles of a sorted list
rise and stay within the results before their session (`DistributionsRise`), the
as-of cut ignores what comes later (`AsOfIgnoresTheFuture`), an acceptance has a
ledger and a scorecard that allow it. Proved: `AnswersHold`.

### Vetoes and their worth (`AssessmentProofs`)

From `RemovalAssumption`. `RemovalInv` keeps of every study, stored or about to be,
that it is what its own closes and opinions make of it (`IsStudy`), with at most one
opinion to a trade, which `order_context_evaluations` sees to. Everything else is a
fact about the figures. Losses and profits are sums over all trades of what each
loses and gains (`MoneyIs`), so the slices, which part the removed trades by their
one reason, add up (`SlicesAddUp`). The drawdowns are about the order of the closes:
the two curves are compared point by point, where what counts is how far a curve is
below its peak; a loss more takes it deeper, a profit more does not
(`FallsCompare`, `CurvesCompare`). Proved: `StudiesAreSound`.

### Two worlds (`AssessmentProofs`)

From `StatefulAssumption`: finitely many opportunities, numbered in the order of
their days. A world is a ledger whose facts do not say which track they are of
(`IsWorld`); `Marked` says it. The engine does the same to a world whatever the
track (`TradeIs`), since what it sums over the facts owes nothing to their track
(`SumRenamed`, `BookedIs`, `SiphonedIs`). So the first track of an undisturbed run
goes through worlds that `History` lists, and the invariant (`StatefulInv`) says of
the second that it is in the same world, or that it has suppressed an opportunity
the first took, and agrees with the first on all before it (`Keeps`). That is
inductive (`KeepsGrows`) and settles where the two part (`ShotsPart`). That nobody
commits meanwhile is needed: a siphon sees what is booked on the cell, whoever
booked it. The day sums of a stored run are sums by key of its trades
(`RowIsTallied`). Proved: `WorldsPartAtVetoes`, an invariant and an action property
at once.

### Only model-checked

- `RoundsEnd`: liveness under fairness is out of the provers' reach.

Every other property of a passing run is stated by a theorem.

## 5. Findings and known deviations

Four places where the code does what one of its own documents, docstrings or
tests says it does not; each has a run with a counterexample.

| run | what happens |
|---|---|
| `broker_cancel_retry` | Cancelling a filled order twice answers TOO_LATE_ALREADY_FILLED and then CANCELED. |
| `replication_released` | A release in the very instant of the reservation may read as older than it: it succeeds, the proposal is approved, and its dollars are consumed. |
| `replay_reentry` | Buying, closing and buying again one contract in a session inserts a second position row and ends the replay. |
| `replay_true_net` | A sell's mark is judged before its realized P&L is booked; the net in between can halt or lock a session that is within its band. |

Other behaviour worth knowing, for which no document says otherwise or which lies
outside the models:

- A session id that is named again after another one resets a halted session
  (`risk/state_machine.py:105`). `HaltIsFinal` is about one use of an id.
- The exposure authority of the cell is compared with one position at a time
  (`risk/governor.py:481`); several positions may together exceed it.
- The broker fills orders that are CANCELED or REJECTED when a quote comes.
- A notional order whose limit the quote does not reach has a target of nothing
  (`paper_broker.py:305`) and is then FILLED with nothing filled
  (`paper_broker.py:160`). `FilledIsTrue` says of a notional order what is left to say.
- A notional quantity with more decimals than its column keeps can leave a
  remainder too small to store.
- A partly filled sell leaves a lot the strategy has forgotten, and the rest of
  the order working in tables that no later quote is matched against.
- Without a quote of its own contract, an exit is judged by the bid of the contract
  resolved for the bar; it is dropped later for lack of an execution quote.
- A chain at an instant without an event is never traded on, but chooses the
  session's expiration all the same; if all its rows are of days gone by, the replay
  fails before its first event.
- A session without a bar of the underlying is passed over, with the capital
  lifecycle that would have followed it.
- A bar of a research stream is closed at its own time stamp: whether that is the
  end of its minute is the provider's matter.
- Two orders of one contract and symbol at one virtual instant get one intent id.
- `available_replication_cash` reads two sums in two statements without a lock; the
  value is only reported.
- `SeedFloorProtected` is about siphons made for one account. One that sums over
  several accounts checks the floor on the sum of their cash, and
  `SiphonedWithinProfit` bounds what a cell has given by the sum of its accounts'
  best profits, not each account by its own.
- The multi-year runner derives the next child code from the cells alone, so that a
  rejected proposal's code is proposed again and refused.
- The commands a halt returns, the emergency exits among them, are not executed
  by a replay.
- A siphon of two sources with profits that contain parts of a cent can never be
  attributed exactly and is refused, again and again (`siphon_manager.py:258`):
  5.5 and 2.5 cents qualify as 8, and attribute as 5 and 2.
- Two synthetic siphon calls without an account lock nothing in common, and may
  count the same headroom. The replay runner makes one call at a time.
- An approved proposal whose genesis keeps failing has no way out: its dollars
  stay reserved.
- `kairo_runtime` is not granted UPDATE on `fill_realized_pnl` and
  `siphon_allocations`, which `SELECT ... FOR UPDATE` needs.

Intelligence:

- The validators of an answer are remembered before its content is stored. After
  a failed or rolled-back round the content is not offered again until the
  process restarts or the provider changes it: `ValidatorsStandForFacts` holds
  until a round fails.
- An event is looked up before the artifact, and only the artifact is unique: two
  pollers can store one fact twice (`EvidenceIsDeduplicated` bounds it).
- A verdict may rest on citations of findings that are not in its manifest, and be
  CONFIRMED without a supporting finding in it; a call that saw a case open may
  add findings after its conclusion. `VerdictsFollowManifests` compares a verdict
  with the findings of its case while none has come in after the conclusion.
- An earlier critical event that the policy does not know hides a CPI or FOMC
  release that follows: the gate then has no objection.
- A grant dated ahead cannot be revoked before its time; a revocation dated back
  makes vetoes that were due look unauthorized; two grants that do not see each
  other are both accepted, and the later one counts.
- The interceptor reads the authority of a cell and inserts its suppression later
  (`interceptor.py:38`, `:91`), with nothing locked and no trigger on the fact: a
  revocation committed in between does not stop the suppression.
- The criteria of a proposal are a snapshot: opinions recorded after the research do
  not change it, favourable or not. Only tests call the context gate and the
  interceptor.

Trust, validation and research:

- An order without authorization disqualifies a cell until a later AUTHORIZED
  decision on its intent; a confirmed bypass of an unknown type does not.
- Two trades closed at one instant whose events and trades are ordered
  differently by their ids make the evaluation raise.
- Nothing under `src/` writes a cell's tier after genesis: the evaluator
  recommends, and `Apply` is an operator. A bundle of evidence handed in by the
  caller is not modelled.
- Scorecards, confidence and decisions bind the caller's clock: the same call
  with another time is refused as a conflict. The facts of the sessions are the
  caller's, and are not compared with the manifest of the multi-year run.
- The trade-removal analysis leaves commissions out, and counts only opinions on
  the intent of the closing fill: vetoes of entries are never counted.
- In a stateful replay an adapter that commits leaves everything behind (the
  savepoint is no longer active); what another session commits between the
  tracks differs between them; trades of one instant are sorted by fill ids that
  depend on the track (`stateful_replay_runner.py:283`), so that two drawdowns may
  differ of two tracks that do not: in the model an adapter closes no two trades at
  one instant; `direct_vetoed` counts opportunities, the other
  counts trades; the index of a genesis is that of the track's own sessions.

Flywheel:

- A feed may take a cell back to an older session it had never been in; the
  sessions it knows are then initialized again when they come, and one that was
  halted can be armed again. `AuditsNeverRewind` is about sessions it has been in.
- In a repeated session `can_trade` is that of the cell's current one; the cells
  to arm are read from a session's first slice only.
- The audit has 40 % written down while the siphon has a policy, and counts fills
  that are not settled. Losses after a siphon make the proof fail, whatever the
  name of `tests/engine/replay/test_flywheel_replay.py:324` says
  (`test_cumulative_siphoned_profit_never_exceeds_net_settled_realized_profit`):
  while every account stands at its best, `ProofFailsOnlyByLosses` has it hold.
- It rebuilds the treasury's holdings without the allocations' locks that keep
  two rebuilds of `Treasury` apart.

Market data:

- A contract with a good and a bad record counts as resolved and as rejected, and
  rejected records count once a spelling. `effective_from` is the earliest time
  of the batch that enrolled a contract, not of all.
- The resolution of a corpus is rounded to two places, half to even
  (`option_enrollment.py:81`): one unresolved contract in 20 000 or more passes
  as 100.00 %. The same goes, on purpose, for five decisions in a hundred. The
  bounds of the run are far below both.
- A recount of the contracts (when no accounting is given) does not see those
  rejected at enrollment; an accounting that is given may be older than a
  retirement.
- Any distinct minute counts towards completeness, up to the expected number.
- A dataset registered again with another fidelity tier or price adjustment is
  answered with the first one: its identity leaves them out (`feed_loader.py`).

## 6. What is not modelled, and the plan

Not modelled, and why:

- `engine/data/theta_v3.py`, `provider_adapter.py`, `stream_loader.py`, and the
  textual parsers of `feed_loader.py`: decoding of files in one call, with no state
  a model could get wrong in another way than a test shows. The dataset registry
  is an insert by content hash.
- `session_calendar.py`, `vector_normalizer.py`: a table of dates, and statistics no
  decision rests on. Of `multi_year_runner.py` the calls to siphon, treasury and
  replication after a session, one after the other in one transaction: `Treasury` and
  `Replication` allow them in any order.
- `engine/research/counterfactual_policy.py`: a pure comparison of parameters.
- Manifests, hashes and identities everywhere, except where one decides whether a
  row is there; the column declarations of `app/db`; the dashboard, which has no
  protocol with the engine.
- In the modelled components: slippage telemetry, macro observations, legacy rows,
  and the EXPIRED proposal state, which nothing emits.

What a next step would take up, in order:

1. **One ledger.** `Treasury` and `Replication` over one table of allocations, with
   an abstract ledger in which a dollar of profit is unsiphoned, in one of three
   buckets, spent or seeded, and never in two; the reports the flywheel's audit
   reads would then be those of this ledger.
2. **Proofs**: `Moderate` replaced by the exact bound at which rounding hides a
   contract.
3. **Dataset registry and the multi-year runner's lifecycle**, as the link between
   the corpus and the validation gate.
4. **Liveness** of an approved proposal, should the code gain a way out of a
   genesis that keeps failing.

Runs stay few: what a new module asks of behaviour that is already explored
becomes a scenario of the run that explores it.
