# Margin calculator: models, checks and proofs

The repository computes margin requirements for option positions. A *rulebook*
(YAML) states, strategy by strategy, which legs a rule matches and what it
requires; an *engine* evaluates a position against it; an *optimizer* splits the
legs of an account into strategies so that the total requirement is least; an
*account* layer sums positions; a *house overlay* adds a broker's own rules; a
*reconciliation* tool compares results with a vendor's. A script, the
*auto-pilot*, drives coding agents through the issues of the repository.

This directory holds TLA+ modules that model these parts, TLC configurations
that check them on small instances, and theorems that TLAPS proves. Every part is
modelled and checked; what is left out of each is listed below. Theorems are about all
of them but the shared `NodeCount`, which a run shows to be wrong, and the built-in rules themselves.

## Inventory

| Part (source) | State it keeps | Operations | Hard behaviour | What makes it correct |
|---|---|---|---|---|
| Optimizer: candidates (`internal/optimizer/templates.go`, `consumption.go`, `state.go`; `internal/engine/match.go`) | none; a search *state* is what is open of every leg | enumerate slot bindings, plan a slice, apply it | contract sizes that do not divide each other, rounding up after rounding down, caps | a plan never takes more than is open, is never empty, and what it takes and leaves add up |
| Optimizer: search (`optimizer.go`, `decompose.go`, `residual.go`, `attribution.go`) | per call: recursion stack and memo; per Optimizer: `nodes` | `Optimize`, `NodeCount` | one memo entry answers for many paths, errors of three severities meet partial results, comparison order decides what survives | every contract and share is attributed once; the result is the cheapest complete decomposition; each state is worked once; the call returns |
| Optimizer shared by goroutines | `nodes`, a plain `int` | `Optimize`, `NodeCount` | unsynchronised increments | the count is that of one call |
| Engine: one rule (`rulebook.go` `tryMatch`, `evaluateOne`, `EvaluateRule`; `match.go`, `env.go`) | compiled programs, read-only | match, constraints, requires, formula | not applicable, not permitted, hard error and a number are four outcomes that callers must tell apart | the outcome of each is passed on as what it is; a requirement covers what the position can lose |
| Engine: dispatch (`rulebook.go` `Evaluate`, `EvaluateAll`) | as above | first matching rule wins, all matches | only the first binding is tried; a failed `requires` stops the scan | the answer depends neither on the order of legs nor on that of rules; the three entry points agree |
| Engine: loading (`rulebook.go` `LoadRulebook`) | the rulebook being built | parse, validate, compile | keys built in one place and looked up in another | what loads can be evaluated: every program looked up exists |
| Baseline rulebook (`rules/cboe_baseline.yaml`) | data | 17 built-in rules the optimizer meets, 3 more it does not | rules that compete for the same legs | named strategies exclude each other |
| Account (`internal/account`) | a snapshot being filled | validate, evaluate each position, aggregate | positions that fail are carried along; an equity near zero; two defaults of the contract size | positions are evaluated alone; exposure counts all of them, the requirement only those permitted |
| Overlay evaluation (`internal/overlay/evaluate.go`, `facts.go`, `audit.go`) | requirement, components, violations, warnings, audit | rules by scope (position, group) and mode (add, max, floor, block) | formulas that fail, missing reference data, several rules on one position | the audit explains the requirement; a block rule is never lost; nothing is charged on a position that failed |
| Overlay loading (`overlay/rulebook.go`, `validate.go`) | the rulebook being built | parse, validate, order | rules and constants of several files | evaluation order is a function of the documents |
| Reconciliation (`internal/recon`, `cmd/recon`) | rows, positions, a report | read rows, gather legs, evaluate, classify, count | NaN, not permitted, legs of several rows | each row is in one class and one bucket, and a verdict is about the legs of its row |
| Auto-pilot (`scripts/auto-pilot.mjs`) | none in memory; git worktrees, tmux sessions, pull requests | tick: clean up merged work, dispatch unblocked issues | every step may fail; the outside world moves between a look and the act | no issue is started twice, no unmerged work is removed, every unblocked issue is started in the end |

How they interact: `overlay.EvaluateHouse` calls `account.AggregateWithRulebook`,
which calls `engine.Evaluate` once per position; recon calls `engine.Evaluate`
per row; the optimizer calls `engine.EvaluateRule` once per candidate slice and
`engine.BindSlotsAll` once per rule and state. A loaded rulebook is shared and
read-only. The auto-pilot shares nothing with the rest.

The hazards of each part, at their lines, are listed in `PROJECT.json`.

## Modules

| Module | Models |
|---|---|
| `Templates` | candidate generation: bindings, plans, `applyConsumption`, memo key. Operators only |
| `SnapUnits` | the fixed-point loop inside the option-only recipe, as a state machine; it implements `OptionOnly` of `Templates` |
| `Decompose` | one `Optimizer` and the calls made on it: `Optimize`, the recursion, the residual completion |
| `Optimizer` | what a caller of `Optimize` may rely on, without search, memo or order; `Decompose` implements it |
| `Baseline` | the rules of `cboe_baseline.yaml` the optimizer meets, as the function `EvaluateRule` of the engine |
| `NodeCounter` | the `nodes` counter under concurrent calls |
| `Dispatch` | the engine's rulebook: loading, and `Evaluate` as a scan over its rules |
| `RuleTable` | ten baseline rules in the form the loader reads, with initial, maintenance and proceeds formulas. Operators only |
| `Recon` | the reconciliation command, from loading to its exit |
| `BaselineRecon` | no code of its own: `Recon` with `RuleTable`, and the properties that are about the baseline's own rules |
| `Account` | the account layer around the engine |
| `Overlay` | the house overlay around the account layer: loading its files, and `EvaluateHouse` |
| `AutoPilot` | the auto-pilot script, with git, gh, tmux, agents and people as its environment |
| `MCDecompose`, `MCSnapUnits`, `MCNodeCounter`, `MCRecon`, `MCHouse`, `MCAutoPilot` | instances for TLC; `MCDecompose` also holds the reference definition `Cheapest` and the property that needs it; `MCLegs` makes legs for both |
| `SnapUnitsProofs`, `DecomposeProofs`, `ReconProofs`, `OverlayProofs`, `AutoPilotProofs` | the theorems about the module each is named after; those about `Account` are in `OverlayProofs` |
| `TemplatesProofs`, `DispatchProofs`, `FiniteTheorems` | the lemmas they rest on: about candidate generation; about the engine, with what `ReconProofs` and `OverlayProofs` need of sequences; about sums and ranks of finite sets, least numbers, and lines that bend |

`Decompose` EXTENDS `Templates` and takes the engine as a constant operator, so
that what is proved of it does not depend on any rulebook; `MCDecompose` gives it
`Baseline`.

`Dispatch` takes what an expression evaluates to as constant operators (`TypeOf`,
`Test`, `Value`), and matches slots with an instance of `Templates` of which the
legs of the position at hand are the constants. `Recon` EXTENDS `Dispatch`, and so
does `Account`, which `Overlay` EXTENDS: each is the engine's caller, and a step of
the engine (`Evaluate`, `TryRules`) is a step of the caller that leaves the caller's
own variables alone. The instances give `RuleTable` for the expressions, and
`RuleTable` takes the formulas `Baseline` has from there, so that `Baseline` is
checked against the engine's own way to a result (`OptimizerScoresAlike`).

### State and actions of `Decompose`

A Go call stack becomes data: `stack` is the sequence of activation records of
`decompose`, outermost first; `arg` is the argument of a call about to be
entered and `ret` the value just returned; `pc` says which. `memo` and `nodes`
are the code's. A record holds what the Go function keeps in locals: the state,
the choices (rule, binding) still to try, the sub-position and the remainder of
the choice it is recursing on, the best candidate, and for the residual the legs
still to score and what has been scored.

| Action | Code |
|---|---|
| `Optimize`, `Reject`, `Answer` | `Optimize` up to the search, its validation errors, its return |
| `MemoHit`, `NothingOpen`, `Expand` | the first lines of `decompose` |
| `SkipChoice`, `FailChoice`, `Descend` | one iteration of the two loops up to the recursive call: no plan or the rule declines; a hard error of recipe or engine; the recursive call |
| `Resume`, `Propagate` | the rest of the iteration, after the recursive call |
| `ResidualShares`, `ResidualNaked`, `ResidualUnmatched` | one iteration of `scoreAllResidual` with `residualOptionRule` |
| `Finish` | comparison of residual and best, memo, return |

A Go error is a field of the Decomposition, as in the code. `used` is an
auxiliary field: the amount of each leg that the sub-positions attribute;
`SubPositionsAddUp` ties it to the sub-positions themselves.

`Promise`, an instance of `Optimizer`, sees a call as one step that accepts or refuses it and
one that returns: `phase` is `pc` with everything between call and answer as `"busy"`, and
`result` is `ret` outside calls. What it promises of a result (`Promised`) is stated without the
search's data: the result accounts for the input, adds up, and can be replayed (`Peels`).
Its first sub-positions are slices, each of a choice the engine fits in what those before it
left; the others are open legs of what is left then, each under the first naked rule that does not
decline, in the order of the legs; and an error tells what is left. Only a hard error need not
replay: the code hands it up as it is, past the slices that led to it, with
what was scored of the remainder it arose in.

Choices are tried in the code's order (rules by id, bindings in the order of the
matcher's depth-first search), given by `ChoiceBefore`: within a call the model
is deterministic.

### State and actions of `Dispatch`

`rb` is the rulebook: its rules as in the file, `progs`, the keys of the compiled
programs, and the default contract size. `call` is the prepared position with account
type and phase, and the rule the loop of `Evaluate` tries next; `outcome` is what
has been returned. The outcomes are those callers can tell apart: `"invalid"` (the
position is refused), `"norule"`, `"requires"` (a `RequiresError`), `"error"` (any other) and
`"result"`; `"no"` is a rule that does not apply.

| Action or operator | Code |
|---|---|
| `LoadRulebook` | `LoadRulebook`: `validateRawRulebook` with slots, requires and outputs; `compile`, with the type of every expression |
| `Evaluate` | `preparePosition`, `validatePosition` |
| `RuleDeclines`, `RuleDecides`, `NoRuleMatched` | one iteration of the loop of `Evaluate`, and its end |
| `EvaluateOne` | `evaluateOne`: `tryMatch` (`TryMatch`), the constraints in their order, `validateRequirements` (`RequiresSay`), `evalFormulas` |
| `EvaluateRule`, `EvaluateAll` | the two other entry points |
| `Lookups` | the keys `evaluateOne` may hand to `lookupProg` |

### State and actions of `Recon`

`csv` holds the two files, `rows` and `positions` what `LoadPositions` makes of them,
`diffs` the report, `summary` its counts; `pc` is where the command stands or how it
ended.

| Action | Code |
|---|---|
| `LoadRules`, `RulesFailed` | the rulebook is read, or the command ends |
| `LoadPositions` | `readCSV`, `loadLegs`, `parsePositionRow`: every refusal, legs by position and `leg_index` |
| `EvaluateRow`, `TryRow`, `RecordRow` | one iteration of `Run` |
| `Summarize`, `WriteFails` | the report is written and counted, or cannot be written |

### State and actions of `Account` and `Overlay`

`stage` is how far the call is, `acct` the account, `evals` the evaluations so far,
`snap` the `AccountSnapshot`. The overlay adds `ob`, its rulebook, `ref`, the
reference data, `entries`, the facts of the positions it looks at, `at`, the rule and
target it is at, and `out`, the `HouseRequirement` being filled.

| Action | Code |
|---|---|
| `AggregateWithRulebook`, `EvaluatePosition`, `TryPosition`, `ClassifyEvaluation`, `Aggregate` | `validate`, one iteration over the positions, `classifyEvaluation`, `Aggregate` |
| `AggregateSupplied` | `Aggregate` called with evaluations of its caller |
| `LoadBaseline`, `LoadHouse` | the two rulebooks; `LoadHouse` is `overlay.LoadRulebook` over a list of files |
| `EvaluateHouse`, `RefuseHouse` | `EvaluateHouse` up to the aggregation, and its refusal of a nil rulebook |
| `BeginOverlay` | the start of `Evaluate`: facts of positions, or the early return without rules |
| `Consider`, `NextRule` | one target of one rule: `applies`, reference data, `when`, formula, mode, components, violations, warnings, audit |
| `EndOverlay` | the warnings of missing reference data, the excess |

A target is a position (`evaluatePositionRule`) or a group (`evaluateGroupRule`); the two
functions are one operator `Says` over targets, as they differ in the facts only.

### State and actions of `AutoPilot`

The script keeps nothing between ticks: what it knows it asks of `gh`, `git` and
`tmux`, one awaited command at a time, and while a command is awaited everybody
else moves. So the model's state is the outside world (`issue`, `deps`, `child`,
`prs`; `tree`, `branch`, `session`; `main`) and the locals of one tick: `merged`
(pull requests still to clean up after), `cleaned`, `slots`, `listed` (issues
with the body they had when listed), `cur`, `need` (dependencies still to look
at), `body` (the dependencies `startIssue` read). `at` is the command the pilot
runs next. `unmerged` is auxiliary: the worktrees that no pull request has been
merged from since they were made. `failed` records which issues were last logged
as failed starts.

| Action | Code |
|---|---|
| `Preflight`, `Tick`, `Quit`, `Run`, `Die` | `main`: preflight, loop, stop, a new start by the operator, the error that ends the process |
| `ListMerged`, `FindTree`, `Status`, `KillSession`, `RemoveTree`, `DeleteBranch`, `EndCleanup` | `cleanupMergedWork` and `cleanupMergedPR`, one action per command |
| `PullMain` | `pullMainIfSafe`: its two looks and the pull are one step |
| `CountTrees`, `ListIssues`, `EndTick` | `dispatchUnblockedIssues` |
| `LookTree`, `LookSession`, `LookPR` | `issueAlreadyInFlight` |
| `LookDependency`, `Satisfied` | `dependenciesSatisfied`, of the listed body and again of the body `startIssue` reads |
| `ReadDetail`, `CreateTree`, `Launch`, `FailStart` | `startIssue` and the `catch` around it |
| `Change`, `Commit`, `OpenPR`, `Push`, `Stop`, `Continue` | external: an agent and the operator's continuation session |
| `Merge`, `ClosePR`, `Close`, `Reopen`, `AddDependency`, `MakeUmbrella` | external: reviewers and editors |

A fault replaces a command by its failure: `Die` where nothing catches it,
`FailStart` where `dispatchUnblockedIssues` logs it, and in `KillSession` and
`LookSession`, which take an error for "no such session". `Failing` says which
kinds of command may fail in an instance, `Edits` what people do beyond the
ordinary course: close, reopen, edit; `late` lets agents work on after the issue
is closed, `quit` lets a session end at any time, `busy` leaves the main checkout
on another branch. `MaxFaults`, `MaxEdits` and `MaxPRs` bound how often.

An issue has one branch name: the slug in `issue-N-<slug>` is made from the title,
which nobody changes here. `gh` lists the newest items first and cuts off at the
limit; `tmux -t` takes a name that begins with the one asked for when only one
does. Pull requests on `issue-N-` branches are opened by agents only. The dry run
is left out.

### Abstractions

* Amounts are integers counted in ticks; `Unit` ticks make a contract or a
  share. Floating-point drift, `roundEps` and the epsilons of the recipes are not
  modelled.
* A Decomposition's `Result` is its requirement and whether it is permitted;
  applied proceeds, cash calls and deposit kinds do not influence the search.
* `Baseline` has the formulas of the initial phase, `RuleTable` those of both phases and the
  proceeds, for ten rules. Leverage factors are one, prices whole dollars, requirements and
  equity cents, so that amounts stay integers.
* An expression is known by its key, and what it evaluates to is a constant operator:
  of rulebook, position and bound legs in `Dispatch`, of the activation in `Overlay`.
  The instances write out those they use.
* A number is an integer or `NotFinite`, which stands for NaN and both infinities:
  the code tells them apart nowhere, but tests `IsNaN || IsInf`. No comparison with it
  holds. An expression that fails and one that yields such a number are one value:
  both end in the same error.
* A ratio is the pair of its terms; `<<1, 0>>` is +Inf, which `aggregate.go` sets when
  the equity is positive and under a dollar.
* Expirations are ranks among the strings in use, 0 when blank; `Dates` are those
  that parse. Rulebooks have no default contract size where `mult` is 0.
* A cell of a CSV file holds a number, nothing (`Blank`), or what does not parse
  (`Garbled`); a file that cannot be read is a garbled one. Columns are not modelled.
* The legs of a row are sorted by `sort.Slice`, which is stable on up to twelve: the
  positions here have at most four.
* The hash of the overlay files is the list of the files: equal when the bytes are.
* What the code sorts or filters is given by rank: the n-th rule of the sorted rulebook
  is the one with n - 1 rules before it (`Precedes`), and likewise a selection of places
  (`Nth`, `Selection`). Sorting by `sort.SliceStable` is such an order. It is also the form
  that can be reasoned about: the provers know nothing of `SortSeq` and `SelectSeq`.
* Rule ids are compared by their rank (`RuleOrder`). The code compares joined
  strings; as no id of the rulebook is a prefix of another the orders agree.
* A leg has either a quantity or a number of shares (`by`). The `Optimize` input
  that gives both is among the inputs and is rejected.
* `EtfPriceAssumption`: a share of an ETF costs no more than one contract of the
  index it covers. Without it one step back (`consumption.go:247`) would not be
  enough after rounding up to whole shares. It is assumed of the legs, not
  established by the code.

## Runs

| Run | Question | Bounds, and why they suffice |
|---|---|---|
| `MCStock` | Does the search account for its input, keep its memo sound and stable, work each state once and find the cheapest decomposition, and can its results be replayed without it? | a long put, a short call and a short put of up to 2 contracts, 0, 100 or 200 shares; a known and an unknown rate class. Collar, protective put, covered call and strangle overlap pairwise, two contracts let a leg be sliced twice by different rules and states be reached along several paths, and the unknown class makes hard errors of the engine on some branches only |
| `MCIndex` | The same for fractions of contracts, mixed contract sizes, the notional recipe and boxes; does every call return? | half contracts (`Unit = 2`), multipliers 10 and 100, 167 to 333.5 ETF shares at 30 against an index at 50, an ETF without a price and an OTC call no naked rule takes; the four legs of a box, one or two contracts; margin and cash, where the long box has no formula |
| `MCSnapUnits` | Is the snapping loop's result the largest common slice, and does it stop? | contract sizes 2, 3, 4 and 6, in twos and fours, up to 9 half contracts: sizes with and without common factors, several passes |
| `MCPilot` | Does a tick keep its promises while every command may fail and everybody else moves? | issues 1 and 12, the second waits for the first, 2 slots, 2 pull requests; any 2 faults and any 2 of closing issues and pull requests, adding dependencies and labelling `umbrella`; late work, sessions that quit, a busy main checkout. `tmux` takes `issue-12` for `issue-1` once the latter has ended; two slots let both run. Two faults make a fault in the recovery from a fault; two edits change an issue at the listing and at the start |
| `MCPilotReopen` | Is an issue that comes back started next to its own earlier work, and do worktrees stay within capacity? | 2 issues, the second waits for the first, 1 slot, 3 pull requests; any 2 of reopening and closing issues, closing pull requests and labelling `umbrella`; late work, sessions that quit; any 2 faults but those of `tmux`: earlier rounds leave branch, worktree, session or pull request behind, and with one slot for two issues a slot given twice shows |
| `MCPilotProgress` | Is every issue completed, cleaned up after and pulled? | 3 issues, 2 slots, 1 fault in preflight, dispatch, start or tmux, no edits: a chain of two beside a free issue, so that slots are shared and freed |
| `MCRecon` | Is dispatch a function of position and rules, and do verdicts and counts tell what it said? | ten baseline rules, those for combinations and boxes among them, which compete for the same legs; eight broken rulebooks, one for each kind of check; 40 positions of up to four legs: one that fits for each rule, and beside it one that misses by a field, a contract size, an expiration or a NaN; each listed forwards, backwards and without indexes; seven combinations of class, account type and phase; files of two rows whose legs mix, with vendor numbers on and beside each bucket's bound |
| `MCHouse` | Does the overlay charge what its rules say, of what the account layer says, and explain it? | four baseline rules, accounts of up to two of ten positions (permitted, forbidden in a cash account, without a rule, failing, with both sides, without a symbol, without a contract size), equities of nothing, half a dollar and a thousand dollars; eight house rules in two files: both scopes, every mode, filters of every kind, formulas that fail on some targets, negative amounts; three sets of reference data; refused accounts and files |
| `MCHardError`, `MCNodeCounter`, `MCBlock`, `MCLegOrder` | Does the code do what a comment says? | the smallest instance in which TLC finds that it does not; see below |

No bound replaces a constant of the code: the matcher's cap is 16 and the pages of
`gh` are 200 and 100 in every instance. `Unit` and the open amounts are the only
bounds on the optimizer's data; the search itself is not cut off. Accounts have at most
two positions: aggregation is a loop with no state but sums, and `EvaluatedAlone` is
proved for any number. `MaxPrice` (120, with strikes of 60 at most) bounds the prices at
which `RequirementCoversLoss` looks at losses: beyond the highest strike a limited risk
does not grow. The auto-pilot's
environment is bounded by `MaxFaults`, `MaxEdits` and `MaxPRs`; the pilot is not.

### Properties

* `ResultAccountsForInput`, `MemoAccountsForState`: an error-free decomposition
  attributes exactly what is open; one with a residual error leaves open what the
  error says. The second says it of every memo entry, for the state its key
  stands for, which is what makes reuse along another path sound.
* `SubPositionsAddUp`: totals and attributions are the sums over the
  sub-positions, also in partial results.
* `CheapestCompletes`: a clean result costs what value iteration (`Cheapest`)
  finds without stack, memo, order or tie-break; a residual error is returned
  only where no complete decomposition exists.
* `AnswersUnbeaten`: the same of every entry of the memo, one slice at a time: no slice of
  its state with the entry for what the slice leaves is cheaper, nor are its legs naked.
* `NoStateWorkedTwice`, `OneEntryPerSlice`, `MemoIsStable`: the memo does what
  the code's comment says it does: work is bounded by distinct states.
* `ResultsReplay`: the refinement of `Optimizer` above. A memo entry that was
  stored along one path, combined with slices of another, must still be a sequence of
  slices the engine recognises where they are taken.
* `CallReturns`: under weak fairness of `Work`.
* `NeverOvershoots`, `StopsAtLargestSlice`, `Terminates`: of the snapping loop.
* `LegOrderIrrelevant`, `StrategiesExclude`: with the baseline's rules, neither the order in
  which legs are listed nor the order of the rules with slots decides, although one
  binding is tried and the scan ends at the first rule. The catch-all for combinations
  overlaps with the boxes, which is why it comes last.
* `EvaluateAllAgrees`: what `EvaluateAll` promises of `Evaluate`, as far as the code keeps it;
  see below.
* `ProgramsAreCompiled`: no position of any kind makes `lookupProg` panic.
* `RequirementCoversLoss`: where the rulebook charges a maximum potential loss, it is
  sampled at the strikes and zero, and is the loss at every price.
* `OptimizerScoresAlike`: `EvaluateRule` as `Dispatch` has it and as the optimizer's model
  has it agree on fit, hard failure, permission and amount.
* `VerdictsTellTruth`, `SummaryAddsUp`: a verdict is the engine's word on the legs the file has
  for that row, found without scan and sort; every row counts once.
* `EvaluatedAlone`: a position is classified as if it were the only one.
* `ExposureAsCharged`: market values use the contract size the engine charges, where the
  rulebook keeps the default of 100; with another default they do not, as the
  account layer has the number as a literal.
* `HouseAddsUp`: the requirement is the baseline and what each rule adds alone: `max` and
  `floor` compare with the baseline, not with what earlier rules made of it, so two of
  them on one position add up, and priorities order the audit only.
* `AuditComplete`: an entry for each rule of each file and each of its targets, in order;
  the components are the entries that matched and have an amount.
* `ReferenceReported`: missing reference data is heard of exactly once.
* `NothingOnUnknown`: nothing is charged on a position that failed, nor on a group with one.
* `GroupsWithinAccount`: groups do not overlap: what they measure is within the account.
* `WorktreesWithinCapacity`: worktrees are counted once a tick, and the count
  stays good while the tick starts issues. It leaves out worktrees of failed
  starts, for the reason given below.
* `StartsNoDuplicate`: three looks, made one after the other and before any number
  of dependency checks, still hold at the start. It holds because only a worktree
  with a session leads to a pull request, so what is missing in that order cannot
  come back. A session may be missing only because `tmux` failed; that fault is
  not among those of `MCPilotReopen`.
* `StartsUnblocked`: the dependencies in the body that becomes `TASK.md` are
  completed. Nobody reopens issues in `MCPilot`: reopening a dependency after it
  was looked at and before the start is a race no check could close.
* `RemovesOnlyMergedTrees`: cleanup removes merged work only, in `MCPilot`, where no
  issue is reopened. With reopened issues it fails; see below.
* `EndsOthersOnlyByPrefix`: the pilot does end sessions at work, as `tmux -t` takes
  prefixes; the property says when. The merged issue's own session must have ended before
  the cleanup, and one session alone must have a name that begins with its name; it loses
  its session, and by `RemovesOnlyMergedTrees` not its worktree. In `MCPilot` this happens.
* `EveryIssueCompleted`, `MainCatchesUp`: progress, over restarts after errors.

Fairness: `FairSpec` asks weak fairness of `Work` (`Decompose`) and of `Next`
(`SnapUnits`). Both are straight-line, single-threaded code: a goroutine in the
middle of a call keeps running. No fairness is put on `Call`: nobody has to call.

`FairSpec` of `AutoPilot` asks weak fairness of the pilot (a loop that sleeps for
a fixed time), of `Run` (the README has it run as a long-lived process that an
operator starts), and of the people and agents whose work it waits for: an agent
changes and commits, opens a pull request, and reviewers merge it. None of it is
asked of edits, of sessions ending, or of faults.

No fairness is assumed of `Recon` and `Overlay`: they are loops over files, rules and
positions, and their properties are about what they have done. Deadlock is checked
everywhere but in `MCSnapUnits`, `MCNodeCounter`, `MCRecon`, `MCHouse`, `MCBlock` and
`MCLegOrder`, which model a loop, two calls, a command and a call that end.

Each property of a passing run has a mutant: an operator beside a modelled
definition (`Mutant of ...`) that changes it as a plausible bug would, under
which TLC finds the property violated.

`StartsUnblocked` and `EndsOthersOnlyByPrefix` name the step by the stages before
and after it, so that they speak of the pilot's step and not of an agent's; only
the pilot removes worktrees, so `RemovesOnlyMergedTrees` need not.

### Where comments and code differ

* `MCHardError`. `decompose.go:16-18` says a hard error always propagates. When
  the residual completion of a state meets one and a template fits the same
  state, the error is dropped and the template's candidate returned. Hard errors
  from templates and from deeper calls do propagate.
* `MCNodeCounter`. An Optimizer is documented as safe for concurrent use; its
  counter is not, and calls that run together mix their counts.
* `MCBlock`. `evaluate.go:79-81` says a rule that blocks emits a component and a violation.
  One that has a formula too, and whose formula is not a number, is skipped with a
  warning when it matches: the block is lost. In the instance the formula reads the
  leverage of an account with half a dollar of equity.
* `MCLegOrder`. `rulebook.go:519-521` names slots that make `bindSlots` ambiguous among what
  loading rejects. Only identical signatures are rejected: a slot for any long option
  beside one for long puts loads, and whether two long puts match depends on which is
  listed first, because a constraint sees the first binding only. No rule of the
  baseline has such slots, which `LegOrderIrrelevant` shows in `MCRecon`.

The same instances show more when one constant is changed; no run of their own is
kept for these:

* `MCPilot` with `Edits = {"reopen"}` violates `RemovesOnlyMergedTrees`: an issue
  that is reopened and started again has its new worktree, on a branch of the same
  name, removed because of the pull request merged the first time
  (`auto-pilot.mjs:374`). `StartsUnblocked` fails there as well, by the race named above.
* `auto-pilot.mjs:5-7` says the pilot "lets each issue session implement/review/fix, then cleans
  up after the PR is merged". In `MCPilot` a session may be ended before: with only
  `issue-12` running, `tmux kill-session -t issue-1` ends it (`:392`). With `FALSE` for
  its conclusion `EndsOthersOnlyByPrefix` would say that this never happens, and is violated.
* `MCPilotProgress` with `"pull"` in `Failing` violates `MainCatchesUp`: a failed
  pull is not made up for until another cleanup (`:428`).
* `MCPilotProgress` with `IssueLimit = 1` violates `EveryIssueCompleted`: the page of
  open issues is cut off before it is filtered and sorted (`:133`).
* `MCPilotReopen` with `failed` left out of `WorktreesWithinCapacity` violates it: a start
  that fails after its worktree was created gives its slot to the next issue of the
  tick (`:447`), so the worktrees outnumber `MAX_PARALLEL`.
* `scripts/README.md:102` says failed starts are retried. In `MCPilotProgress` with `"launch"`
  in `Failing`, an issue whose worktree was created before the failure is in flight from
  then on and is passed over (`:231`): `EveryIssueCompleted` fails.

And from modelling, not checked by a run of their own. The optimizer:

* `decompose.go:319-321` ranks the partial decomposition that consumed more above
  one that left more stranded. The measure is the share count of the error carried,
  and the error carried is the strongest one only: when an option without a naked
  rule outranks the stock, both candidates count zero and the cheaper wins, which is
  the one that consumed less.
* `optimizer.go:144-146` says every state is scored against every candidate. Over
  sixteen open legs the matcher returns no binding (`match.go:185`).
* `NodeCount` is documented to be of the most recent call; a rejected call leaves it
  as it was (`optimizer.go:177-188`, action `Reject`).
* In a cash account the strangle is not permitted, which the engine reports as a
  result with requirement zero (`rulebook.go:1116`). The optimizer minimises, so it
  prefers it to the two separate deposits that the rulebook's comment
  (`cboe_baseline.yaml:234-236`) calls for.

The auto-pilot:

* `scripts/README.md:94` says the script never removes local changes. Changes made after
  the status was read go with the worktree (`auto-pilot.mjs:398`).

The engine and its callers:

* `rulebook.go:376-379` says that a length of zero means `Evaluate` finds no rule and a greater
  one that a rule is shadowed. `EvaluateAll` also fails where a rule after the one that
  decides fails, `requires` included, and then returns no results: so
  `EvaluateAllAgrees` speaks of its results only where it does not fail.
* `recon.go:296` says a `mult` of zero silently zeroes the requirement. The engine takes it for
  the default contract size.
* A result that is not permitted has requirement zero: in a reconciliation it matches a
  vendor's zero.
* A long box in a cash account ends in an error: its rule has neither formula nor deposit
  there, and the scan never comes to the rule for combinations, which would charge it.
* `overlay/types.go:140` says a violation is paired with a block component. Violations of
  missing reference data are not.
* `evaluate.go:301-318`: a group rule that its account types or phases exclude leaves no audit
  entry, where a position rule leaves one for each position. `AuditComplete` takes such a
  group rule to have no targets.
* An `AuditEntry` of a rule that blocks is `Applied` with amount and delta as its component has
  them: its amount is not part of the requirement.
* With an equity between zero and a dollar the ratios are +Inf, and a rule whose formula
  reads them is skipped with a warning: the account with the least equity is charged
  nothing by it.

## Theorems

All are checked by `tlapm` from the ASSUMEs on constants, which TLC evaluates on every
run, and hold for every value of the constants that satisfies these:

* `Templates`, `Decompose`, `SnapUnits`: the shape of legs, slots and inputs, a positive
  `Unit`, and `EtfPriceAssumption` (above);
* `Dispatch`, `Recon`, `Overlay`: rules come in sequences, and so do the rows of a file; the one
  number that is not finite is not an integer; a `leg_index` that can be read is one; tolerances
  are natural numbers; an overlay rule has an id and
  an integer priority; the symbols are listed once each, in their order;
* `Account`: positions and legs have the fields that are read, and evaluations a caller
  hands to `Aggregate` have finite amounts, as `Evaluate` returns them;
* `AutoPilot`: issues are finitely many positive numbers, limits are natural numbers.

* `BaselineRecon`: a rulebook that has one of the two rules charged by their loss has it as the
  baseline does, so that a theorem about these rules is about what the file says.

Nothing is assumed of what expressions evaluate to, nor of the engine the optimizer is
given. Four theorems of `AutoPilotProofs`, `GroupsAreParts`, `LossIsCovered` and the three about the
baseline's rules (`OrderIsIrrelevant`, `StrategiesAreExclusive`, `VerdictsAreTrue`) have hypotheses
of their own; each excludes a case in which the property fails, as said there.

### The optimizer

* `TypeCorrect`, `ResultsAccount`, `MemoAccounts`: `TypeOK`, `ResultAccountsForInput` and
  `MemoAccountsForState`.
* `StatesWorkedOnce`, `AnswersStay`: `NoStateWorkedTwice` and `MemoIsStable`.
* `ResultsAddUp`, `NodesAreSlices`: `SubPositionsAddUp` and `OneEntryPerSlice`.
* `OptimizeKeepsPromise`: `ResultsReplay`, the refinement of `Optimizer`.
* `AnswersStayUnbeaten`: `AnswersUnbeaten`.
* `ResultsAreCheapest`: among all complete decompositions that can be replayed as the
  abstract `Optimizer` promises, each slot with its amount, none is cheaper than the result, and
  the result has a residual error only where there is none. The result is one of them
  (`OptimizeKeepsPromise`), so it is the cheapest.
* `NoSlicePassed`, `LargestSlice`: `NeverOvershoots` and `StopsAtLargestSlice` of `SnapUnits`.
* `PlansFit` (`TemplatesProofs`): a plan takes from every leg at most what is
  open and at least a whole unit of one.

None of the invariants is inductive: they say nothing of what is on the
stack while a call runs. `IInv` adds, for every activation (`FrameOK`), that the
slice it is recursing on and the remainder handed down add up to its state
(`Splits`), that its best candidate accounts for its state, and that the residual
legs scored so far are attributed in full or stand behind an error (`Scores`);
for the stack (`StackOK`), that each activation works on the remainder of the one
above it; for the memo (`MemoOK`), that each key is that of a state its entry
accounts for; and for the registers (`ControlOK`), that the value being returned
accounts for what the activation waiting for it handed down. Then:

1. `Templates`: plans fit (`PlansFit`), a binding names a leg once, so the slice
   and the rest add up (`SliceAddsUp`), and keys are injective (`KeyInjective`).
2. Combining a slice with a decomposition of the remainder gives one of the state
   (`CombineAccounts`), also when it carries an error; scoring one more residual
   leg keeps `Scores` (`ErrorFrameOK`, `NakedFrameOK`); what `Finish` chooses
   accounts for the state (`ChosenAccounts`).
3. One lemma per group of actions (`CallInv`, `EnterInv`, `ScanInv`,
   `ResidualInv`, `ReturnInv`), joined in `StepInv`.

That no state is worked twice needs the recursion to descend. `DescentInv` adds to `IInv`
that along the stack the states grow strictly smaller (`Descends`), because a slice is
never empty (`SliceShrinks`), and that no activation's state has an answer yet
(`Unanswered`). With injective keys the first gives one half of `NoStateWorkedTwice`, the
second the other; and `Finish`, the only writer of the memo, writes for an unanswered state,
which is `MemoIsStable`.

`SumsInv` adds to `IInv` that what is returned, remembered, best so far or scored so far adds up,
and that each slice names a leg once (`FrameSums`), so that what its slots attribute is
what was taken (`AttributedIsTaken`). A slice in front shifts the indices of the others
(`CombineSums`), a naked leg is one more at the end (`AppendSums`).

`CountInv` adds to `DescentInv` that the memo is finite and what `nodes` counts (`Counted`): the outermost
entry, the fitting choices of every state in the memo, and those tried so far of every state
on the stack. No state is both (`Unanswered`), so `Finish` moves the choices of a state from
one sum to the other. A hard error is left out: it pops activations whose other choices
were never tried.

`ReplayInv` adds to `SumsInv` that the memo's entries replay from the states of their keys, the
candidates on the stack from the states of their activations, and what is returned from the
state that was handed down; that every activation but the one choosing has made a slice of its
state (`Sliced`); and that the legs scored so far come before those left. `CombineReplays` is the
step that matters: what is left after a slice and `i` more sub-positions is what those `i` leave of
the remainder (`LeftCombine`), which needs attributions to be what was taken. `PromiseStep` then maps
`Optimize`, `Reject` and `Answer` to the steps of `Optimizer` and every other action to a
stutter.

`CheapInv` adds to `DescentInv` that an activation's best is no dearer than what each choice it has
tried would give with the memo's answer for what is left (`Compared`), but for the one
choice it is recursing on (`InWork`); that the naked legs scored so far cost what their
rules ask (`ResidualCost`); that what is returned is the memo's answer (`FromMemo`); and
that every answer is `Unbeaten` (`MemoCheap`). Candidates are compared by completeness first, then by
shares that are left, then by total, so the best keeps what it had when it is
replaced (`BetterKeeps`, `OtherKeeps`, `ChosenKeeps`); and the memo only grows, so an entry that was
compared with is still there (the lemmas named `...Grows`). `AnswersUnbeaten` looks one slice ahead.
`MemoCheapest` goes all the way, by induction on the number of slices (`LeastNatural`): what follows the
first slice of a completion completes what that slice leaves, in one slice less
(`AfterFirstSlice`), and without slices it is the naked legs (`AllNaked`).

For the snapping loop, `SnapInv` says that every slot can deliver `units`, that a pass which has
lowered nothing so far has seen `units` to be a multiple of the contract sizes it came to,
and that no common multiple that fits is above `units`. Rounding down to one
contract passes no multiple of it (`SnapKeepsMultiples`); a pass that lowered nothing
has found a common multiple.

### The engine and the reconciliation

For every rulebook, whatever its expressions evaluate to:

* `NeverPanics`: `ProgramsAreCompiled` of `Recon`. The invariant behind it is `Compiled`: a
  rulebook in use has the programs of all its rules (`LoadCompiles`), and what
  `evaluateOne` looks up is among them (`LookupsCompiled`).
* `EvaluateAnswersFirst`: `Spec => []AnswersFirst`. Where the scan is, no rule before it decides;
  what it returns is what `FirstToDecide` says (`ScanStarts`, `ScanGoesOn`).
* `EntryPointsAgree`: `EvaluateAllAgrees`, from `AnswersFirst`. Where no rule fails, those that
  decide are those that give a result, and the first in the selection is the least place
  (`FirstIsNth`).
* `ReconTypes`, `SummaryPartitions`: `TypeOK` and `SummaryAddsUp`. The inductive invariant
  `ReconInv` adds where the command stands (`Command`) and that every difference that
  is recorded is a natural number or not finite (`DiffRows`): then the buckets, which are
  open at one end, partition the differences, and cardinalities add up.
* `RowsAreAnswered`: the DiffRow at an index is made of the row of `positions.csv` at that index and
  of what `FirstToDecide` says of its legs, and none is skipped. `RowsInv` adds to
  `ReconInv` that the rows and positions are those of the files (`FromFiles`) and that the call at work is
  on the next row's position, account and phase (`AtRow`), so that with
  `AnswersFirst` what has been returned is what the engine says of that row (`ReturnedOfRow`).
* `LegsAreGathered`: the legs of a position are the lines of its id, each once and in order: places by
  ranks again (`Ranked`, below). For more than twelve legs the code's sort is not stable, and
  the order of equal indexes is not what the theorem says.
* `RefusalsAreTold`: the half of `VerdictsTellTruth` that does not depend on the rules. Validity is a
  property of the set of legs (`ValidInAnyOrder`), which sorting keeps (`SameLegs`).
* `LossIsCovered`: `RequirementCoversLoss`, for every price and not only the run's, of any
  legs the files may hold. Its hypothesis, `BaselineExpressions`, is that the tests and formulas of the
  two rules evaluate as `RuleTable` says: with others the property is not about this code.
  The payoff of options is a line that bends at their strikes (`PaysAlong`,
  `PayoffIsSum`), and such a line, if it does not fall after the last of them, is lowest at a bend or
  at zero (`LowestAtBend`), which are the prices `mpl` samples (`LossIsSampled`). That it does not fall
  is what `is_limited_risk` checks of a combination (`ComboLoss`), and what the tests for one type and
  one size give a spread (`SpreadLoss`). `Deciding` ties the result on record to the rule and the
  legs it is of; `ResultOf` says that a rule that answers has had all of its tests hold of the
  binding it charges, and `SpreadBinds` that there is only one for a spread.

Three theorems are about a rulebook of the baseline's rules. Their hypotheses are `LoadsBaseline`, that a
rulebook that loads has rules of `RuleTable` only, those for combinations after those with slots, and
`ExpressionsAreBaseline`, that their tests and formulas evaluate as `RuleTable` says. The
run `MCRecon` satisfies both. Without the first, `LegOrderIrrelevant` fails: that is what
the run `MCLegOrder` shows of a rulebook that validates.

* `OrderIsIrrelevant`: `LegOrderIrrelevant`. Every two slots of a strategy ask for another side, kind or
  type, so that at most one assignment of legs to slots matches (`OneWayToBind`), and
  `bindSlots` finds it in whatever order the legs come (`FirstBindingIs`). The rule for combinations
  binds the legs by their places; each of its tests and formulas reads the same of a
  relisting, as the payoff at a price and the premiums are sums over the legs
  (`SumRelisted`, `LossRelisted`, `ComboReads`).
* `StrategiesAreExclusive`: `StrategiesExclude`. A strategy that answers has its legs all
  taken by its slots, and then their number and what is among them tell which it is
  (`StrategyIs`); the boxes share their slots, and one binding cannot satisfy both orders
  of the strikes (`BoxesExclude`).
* `VerdictsAreTrue`: `VerdictsTellTruth`. The legs of a row, sorted, are those of its lines in
  another order (`FileOrder`), of which the engine says the same (`SaysAnyOrder`); as at most one
  strategy has anything to say, and ids are unique, what the scan says is the one
  answer there is (`OneIsHeard`).

Stating them found two faults of the model. `VerdictsTellTruth` counted what the rule for combinations
says of a box beside what the box's own rule says, and so was false of a vendor's number that
only the former matches; it asks the strategies first now, and `MCRecon` has such a row
(`BoxRows`). And `BaselineValue` chose between formulas by a CASE of which two guards could hold at once,
which has no meaning beyond TLC's order of evaluation; it is a nested IF now.

### Accounts and the house overlay

For every pair of rulebooks, every account and all reference data. The invariant is built
in layers, each of which uses those before it:

* `AloneInv` gives `PositionsEvaluatedAlone` (`EvaluatedAlone`): the scan's
  invariant, that the position being evaluated is that of the account at the next
  index (`AtPosition`), and that every evaluation so far tells what the engine says of
  its position (`EvaluationsTell`).
* `DataInv` adds where the account, the snapshot and the overlay's data come from: the snapshot is
  `Aggregate` of the account and its evaluations, whose amounts are finite; the
  overlay's rules are those of its files. It gives `ExposureIsCharged` (`ExposureAsCharged`): market
  values, computed by side and kind, are a partition of the legs (`WorthOfParts`), each at
  the contract size the engine charges.
* `HouseInv` gives `RulesAddUp` (`HouseAddsUp`): in the middle of the two loops the requirement is the
  baseline, what the rules before this one add alone, and what this one has
  charged so far (`ChargedBefore`).
* `WalkInv` is about the *places* of the loops, pairs of a rule's and a target's index, of which those
  before `at` are visited: the audit runs along all visited places in their
  order, the components along those that blocked or charged; violations, warnings and
  `reported` are exactly the notes the visited places call for; at the end every
  place is visited. What a place says (`Says`) is a function of data that does not
  change during the walk (`PlacesStay`). It gives
  `AuditTellsAll` (`AuditComplete`), for which the sorted rules must be those of the files, each once
  and in order (`RulesInOrder`), with distinct names (`RulesNamed`, `TargetsNamed`);
  `UnknownNotCharged` (`NothingOnUnknown`); and `MissingHeardOf` (`ReferenceReported`).
* `FreeInv` adds that evaluations charge only for what is permitted, for `GroupsAreParts`
  (`GroupsWithinAccount`): a position has one symbol, so the targets of a rule are disjoint sets of
  positions (`TargetsAreParts`), and sums over disjoint parts of a whole without negative
  amounts are at most the sum over the whole (`SumOfParts`). Its hypotheses are that no requirement is
  negative, which nothing checks of what a formula yields, and that evaluations a caller hands
  to `Aggregate` charge only what they permit, as the engine's do.
* `TypeInv` adds the state of the rulebook and the excess, for `TypesHold` (`TypeOK`): sums of finite
  amounts are finite, and `Ratio` divides by a dollar or more.

The sums are those of the community modules, a fold over a set in an order that
`CHOOSE` picks. That they do not depend on it is proved in `FiniteTheorems`, without induction
over data, by a least counterexample: the strict subsets of a finite set are
well-founded (`LeastSubset`). From there come sums of sums, over unions, and up to the next
index (`SumOfSums`, `SumOfUnion`, `SumUpTo`). Sorted lists are handled by
ranks: in a finite strict order the ranks are all the numbers below its size, each once
(`Ranked`).

### The auto-pilot

For every set of issues, any dependencies, limits, faults and edits, but for the hypotheses
named:

* `PilotTypeCorrect`: `TypeOK`. Types alone are not inductive: that
  `slots` stays a natural number needs `SlotLeft`, that a slot is left while an
  issue is considered.
* `CapacityKept`: `WorktreesWithinCapacity`, from `Capacity`: while a
  tick dispatches, the worktrees in flight and the slots left are together at most
  `MAX_PARALLEL`, with the worktree of an issue being launched counted once.
* `NoDuplicateStarts`: `StartsNoDuplicate` from `Unstarted`: each look
  establishes a conjunct that nothing but the pilot itself can undo, given the
  looks before it. It assumes that `tmux` does not fail and that the open pull
  requests fit on one page; without either the code has no such property.
* `UnblockedStarts`: `StartsUnblocked` from `Unblocked`: the dependencies of the body
  read last that have been looked at since are still completed. It assumes that nobody
  reopens issues.
* `MergedTreesRemoved`: `RemovesOnlyMergedTrees` from `Followed`: a worktree whose work is not merged has
  no merged pull request, because agents open them from worktrees and a merge closes the
  issue, which is not started again. It assumes that nobody reopens issues and that the pull
  requests fit on a page: with either lifted, a worktree can be the second of its issue.
* `OthersEndedOnlyByPrefix`: `EndsOthersOnlyByPrefix`, for any issue numbers, from the same
  invariant: the issue cleaned up after has no unmerged work, so a session at work that ends is
  another's, and `tmux` took it for its prefix. The hypotheses are those of `MergedTreesRemoved`.

### Only model-checked

* `CallReturns`, `Terminates`, `EveryIssueCompleted` and `MainCatchesUp`: liveness under fairness is
  out of the prover's reach.
* `CheapestCompletes`, which compares with a recursive definition; what it says of results,
  `ResultsAreCheapest` says without one.
* `OptimizerScoresAlike`, which compares `RuleTable` with `Baseline`: the latter has short sale proceeds
  in whole dollars by the share, so that it is true only of the amounts a run gives it.

## Not modelled

* CEL and YAML: libraries. What an expression evaluates to is a constant; that a document
  decodes into the records of the model is not checked.
* The text of CSV files (columns, quoting, blanks) and of the printed report.
* `OptimizerTargets` and `Match` of the engine: the first is the list `BaselineTargets`, the
  second the first half of `EvaluateRule`.
* The auto-pilot's dry run, which changes nothing, and the wording of `TASK.md`.
* Floating point: see Abstractions. `roundEps`, the epsilons of the recipes and the
  formatted memo keys stand or fall with it.
* The three baseline rules no recipe consumes for; convertible and warrant covers in
  `RuleTable`; maintenance formulas of the rules that are in `Baseline` only. They have
  the shape of those that are there.
* Numeric inputs that the overlay copies into its audit entries, and the wording of
  reasons and warnings.
* Concurrent use of a rulebook: it is read-only once loaded, and nothing in `Dispatch` after
  `LoadRulebook` changes `rb`.

## Plan

1. Done: the optimizer (`Templates`, `SnapUnits`, `Baseline`, `Decompose`, `NodeCounter`) with
   type correctness and accounting proved.
2. Done: the auto-pilot (`AutoPilot`) with type correctness, capacity and no duplicate
   starts proved.
3. Done: the engine (`Dispatch`, `RuleTable`), reconciliation (`Recon`), accounts (`Account`)
   and the house overlay (`Overlay`), with programs compiled, the scan's answer, the
   report's partition and the independence of positions proved.
4. Done: the proofs of `NoStateWorkedTwice` and `MemoIsStable`, of the snapping loop, of
   `EvaluateAllAgrees`, of the action properties of `AutoPilot` and of all invariants of
   `Overlay`.
5. Done: `Decompose` implements the abstract `Optimizer`; the proofs of that, of the sums and of
   the count of nodes.
6. Done: the proof that results are the cheapest, that charged losses are covered, and that
   with the baseline's rules neither the order of legs nor that of strategies decides.
