# Verification of the matchmaking function plugin server

This directory holds TLA+ specifications of the Go program in `src/`: a gRPC
server ("match function") that AccelByte's matchmaking service calls to validate
and enrich tickets, to make matches out of tickets, and to propose tickets for
sessions that still have room. The specifications are checked with TLC on small
instances. Their invariants and action properties are proved with TLAPS
for every value of the constants.

## The system

| Part | State | Operations | Interaction |
|---|---|---|---|
| Game rules (`gameRules.go`, `RulesFromJSON`) | none; a `GameRules` value per call | decode, three consistency checks | called first by every RPC but `EnrichTicket` |
| Match maker, `MakeMatches` (`matchmaker.go:83-198`) | one goroutine per call: the slice `unmatchedTickets` | take a ticket, build and send matches, end | takes tickets from the provider's channel, sends on `results`; both unbuffered |
| Match maker, `BackfillMatches` (`matchmaker.go:200-325`) | one goroutine per call: `unmatchedTickets`, `unmatchedBackfillTickets` | take either kind of ticket, propose | two provider channels in, `results` out |
| `MakeMatches` RPC (`matchFunctionService.go:108-199`) | handler, receiver and sender goroutine per stream; the provider's two channels | read parameters, start, convert tickets in and matches out, wait | the stream, the match maker |
| `BackfillMatches` RPC (`matchFunctionService.go:202-299`) | handler (sends) and fetcher (receives) per stream | as above; the fetcher is not waited for | the stream, the backfill match maker |
| Unary RPCs (`matchFunctionService.go:53-105`) | none | `GetStatCodes`, `ValidateTicket`, `EnrichTicket` | rules, match maker |
| Conversions (`pkg/pb/conversions.go`) | none, but slices and maps may be shared by input and output | protobuf to and from the match maker's types | called on every message |
| Authorization (`authServerInterceptor.go`) | the global `Validator` | check a call's metadata once, when the call or stream opens | SDK token validator |
| Process (`main.go`) | listener, servers, goroutines, two contexts, the deferred calls, the shared variable `err` | start-up, serving, shut-down on a signal | everything |
| Scope, logging, tracing, environment (`pkg/common`) | span and context per call | create, finish | every handler |

What is hard in it: the four goroutines of a `MakeMatches` stream and the three of a
`BackfillMatches` stream, which meet only on unbuffered channels and end in different
orders depending on whether the client half-closes, the connection breaks or a `Send`
fails; arithmetic on unchecked numbers that decides the length of a slice; slices and
maps handed to another goroutine and used afterwards (backfill); data that goes through
conversions in both directions with every call, some of which fail with no more than a
log entry; an error variable that `main` and the serving goroutine share; deferred calls
whose order decides whether telemetry is flushed; error branches nobody runs.
`PROJECT.json` lists these hazards line by line.

What makes each part correct:

* rules: what is accepted is something `buildMatch` can work with;
* match maker: no ticket is lost, matched twice or out of turn; matches have an
  allowed size; no panic; the results are closed in the end, or on cancellation;
* `MakeMatches` RPC: the client's tickets come back in order, the answer is
  complete when the call returns, the call returns, nothing leaks, the process
  survives;
* `BackfillMatches`: excluded sessions are respected, a ticket is added to at most
  one session, a proposal describes the session as it is, no panic, the call ends;
* unary RPCs: the answer depends on the rules it was asked about; repeating an
  `EnrichTicket` changes nothing;
* conversions: what the client sent is what the match maker sees, and back;
* authorization: no handler runs for a call that was not validated, except for health
  and for reflection by its v1alpha name (`authServerInterceptor.go:51-61`; the calls of
  reflection v1 are validated);
* process: a failure to serve ends the process with an error.

## Modules

| Module | Models | Checked by | Proved in |
|---|---|---|---|
| `GameRules` | the rule set, the width of an int, the checks, `minPlayers`, `maxPlayers` | all | `GameRulesProofs` |
| `RulesLoading` | one call of `RulesFromJSON` | `MCRulesLoading` | `RulesLoadingProofs` |
| `MatchLogic` | abstract: what `MakeMatches` promises its caller | through `MatchMaker` | |
| `MatchMaker` | the goroutine of `MakeMatches` and `buildMatch`, under the most general caller | `MCMatchMaker` | `MatchMakerProofs` |
| `MakeMatchesStream` | the RPC: handler, receiver, sender, stream; instantiates `MatchMaker` for the fourth goroutine | `MCMakeMatchesStream` | `MakeMatchesStreamProofs` |
| `BackfillMaker` | the goroutine of `BackfillMatches` and `buildBackfillMatch`, its caller, and the memory proposals share | `MCBackfillMaker` | `BackfillMakerProofs` |
| `BackfillStream` | the RPC: handler, fetcher, stream; instantiates `BackfillMaker` for the third goroutine | `MCBackfillStream` | `BackfillStreamProofs` |
| `Conversions` | `pkg/pb/conversions.go`, as operators on attributes, tickets, matches, backfill tickets and proposals | through `SessionLife` | `SessionLifeProofs` |
| `SessionLife` | what happens to tickets and a session from `EnrichTicket` through `MakeMatches` to rounds of `BackfillMatches`, by way of `Conversions` | `MCSessionLife` | `SessionLifeProofs` |
| `UnaryCalls` | a call on its way through the authorization interceptor and the method | through `ServerProcess` | through `ServerProcess` |
| `ServerProcess` | `main`, the serving goroutines, signals, telemetry; instantiates `UnaryCalls` for the calls | `MCServerProcess` | `ServerProcessProofs` |

**GameRules.** A Go `int` is in `-IntBound .. IntBound - 1` and products wrap.
`Accepts` is the three comparisons of `RulesFromJSON`; `MinPlayers` and
`MaxPlayers` follow `buildMatch` line by line: two products, the default of two
when both are zero, the ship counts when they are not zero. Both count *tickets*,
because `buildMatch` compares them with `len(unmatchedTickets)`. `Workable` says
that the loop of `buildMatch` can only run a finite number of times, `Sensible`
that no number is negative and no product overflows.

**MatchMaker.** `pc` is the goroutine's place: at the select, at the head of the
loop of `buildMatch` (`"build"`), at `results <- match` (`"send"`). As both
channels are unbuffered, a send and its receive are one step: `GetTicket` is the
caller's push and the goroutine's receive, `SendMatch` is the send, the caller's
receive and the cut after it. The arms of the select are separate actions that may
all be enabled, as in Go. The caller is the environment: it may close the ticket
channel, stop receiving, cancel, in any order and at any time. `received` and
`handed` are history variables.

**MatchLogic.** The contract: tickets in order, each in at most one match, sizes
between the two bounds, no ticket taken while a match can be made, results closed
only when none can. `MatchMaker` maps its `pc` to the contract's phase, the match
at `"send"` to the contract's `pending`.

**MakeMatchesStream.** The stream is a sequence of messages and the number of those
read, whether the client has closed its side, and whether the stream is broken.
The handler, receiver and sender have a place each; the match maker's actions are
taken from `MatchMaker` and conjoined with the step of the goroutine they meet. A
panic in any goroutine sets `crashed`, after which nothing moves. The handler's
scope hangs on `context.Background()`, so `ctxDone` is `FALSE` for good. A broken
stream lets `Recv` return what has arrived or an error, and makes `Send` fail.

**BackfillMaker.** The select has one flag per channel that is still read
(`nextTicket`, `nextBackfillTicket`: the code sets a drained channel to nil) and the
loop returns when both are gone; that test at the head of the loop is part of the step
that clears the second flag. `buildBackfillMatch` is a loop over the queued backfill
tickets with index `i`, one action per way through its body: the ticket is excluded
and dropped (`SkipExcluded`), a proposal is built (`Propose`) and sent
(`SendProposal`), or there is no ticket left to index (`IndexPanics`). A backfill
ticket is named by its place among those taken. Two pieces of memory outlive a
proposal: the attribute map, to which each proposal for a backfill ticket writes its
`generatedID`, and the slot behind the teams, which `append` writes to when the slice
has room (`RoomForATeam`). `generatedID` and `lastTeam` hold the last proposal that
wrote there. The caller works on one proposal at a time (`held`), as the handler does
while it converts and sends. `backfillFirst` is a history variable: no backfill ticket
arrived after a ticket, the order `docs/matchmaking.md` describes.

**BackfillStream.** The stream is that of `MakeMatchesStream`. The handler reads the
parameters and then alternates between receiving a proposal (`TakeProposal`, one step
with the match maker's send), converting it and sending it. `held` of `BackfillMaker`
is "the handler is converting" and `draining` is "the handler has not returned with an
error". The fetcher has a place of its own; what it pushes is one step with the match
maker's receive (`Push`). Unlike `MakeMatches` the handler waits for neither of them,
and it returns the error of a failed `Send` at once. The conversion reads memory that
the match maker may be writing to, without a lock: it sees the old or the new value
(`Seen`), or the Go runtime notices the concurrent use of a map and stops the process
(`ConcurrentMapAccess`). `responses` records, for each response, from which proposals
its parts come.

**Conversions.** An attribute value is one of four kinds: `"json"` (what JSON decodes
to), `"typed"` (JSON can write it, `structpb` does not know the Go type), `"nan"`,
`"opaque"` (neither can write it). `NewStruct` fails as a whole, the error is only
logged and the struct is nil; `convertAttribute` returns its argument when JSON cannot
write it. A conversion that only copies a field is left out, a conversion that drops
one (the party id of a player, the attributes of a proposal, a team without users) is
not. The three functions that build a message each have their own way of dealing with
attributes, and each is modelled separately. The loops that append what they keep
(`PlayerDataToParties`, the teams of a backfill ticket) are `Only`, the elements at the
positions kept; `SelectSeq` would say the same, but its definition cannot be opened in a
proof.

**SessionLife.** The core is outside the repository; it keeps tickets and the session
and is modelled from how the plugin is used: it may call `EnrichTicket` any number of
times (a lost answer and a retry look the same to it), gets a match, describes it in a
backfill ticket, and takes a proposal over or turns it down. A trip over the wire has two
sides. On the plugin's the conversions are those the RPC calls, in its order. On the
core's they are those of the other direction, standing in for a program that is not
here: `MatchfunctionTicketToProtoTicket` for the tickets it sends (the plugin itself uses
it for its answers), and `MatchfunctionBackfillTicketToProtoBackfillTicket`,
`ProtoMatchToMatchfunctionMatch` and `ProtoBackfillProposalToMatchfunctionBackfillProposal`,
which no code of the repository calls. What the properties say of the session is
therefore a statement about the package as a whole, and the mutants that go with them
are in the plugin's part of it. `MakeMatches` is that of the default rules, of two
tickets. `uuids` stands for `GenerateUUID`: new ids. `NoMatch`, the empty match, stands for the session before there
is one, and for the response before the first.

**UnaryCalls and ServerProcess.** A call goes from `"idle"` through `"arrived"` and
`"admitted"` to its answer. A unary method is one step, since the methods share no state.
A stream, for which `"MakeMatches"` stands, is only modelled by its stages here: it may be
rejected over its first message, start (`"streaming"`), end, panic, or do nothing of that
for good; what goes on inside is in the two stream modules. A panic ends the process with
status 2, because no interceptor recovers it.

`main` has a place per library call it makes, because a signal, a failure of `Serve` or of
the metrics listener, and a call may come between any two. `Serve` returning an error
(assignment to `err`) and the serving goroutine's test of `err` are two steps, and
`NewTracerProvider` assigns to the same variable in between. The result of the data race
is one of the interleavings of these accesses. `deferred` holds the calls `main` has
deferred, the next to run first, each with the context it was given then; `ctx` is the
context the variable of that name holds, the root context before `NotifyContext` and the
one of signals after it; `cancelled` are the contexts that are cancelled, by a signal, by
`stop`, or by `cancel`, which takes the context of signals with it. `pending` says whether
spans wait for the exporter; `tracing` becomes `"cut"` if `Shutdown` runs with a context
that is cancelled already.

Operators called "Mutant of X" are X with a bug it might have had; no specification
uses them. They document which mistake each property would notice, and are named
with the property in `PROJECT.json`.

## Runs

All runs use the module's `Spec` and no symmetry or state constraint.

| Run (cfg) | Instance | Shows |
|---|---|---|
| `RulesLoading` | every rule set with numbers in -1..3, ints of -8..7, a malformed text | the checks order the two sizes; only a missing minimum defeats `buildMatch` |
| `MatchMaker` | two kinds of ticket, up to five tickets, five workable rule sets (sizes 2-2, 2-4, 1-3, 2-3, 3-3) | types, accounting, sizes, the contract, termination |
| `MatchMakerOddRules` | up to four tickets; negative, overflowing and minimum-less rules | only negative or overflowing ones panic |
| `MatchMakerNoMinimum` | minimum 0, maximum 2 | **violated**: empty matches for ever |
| `MakeMatchesStream` | four messages of any kind, two tickets, five rule sets (two workable, two refused, one with a maximum and no minimum) | order, completeness, what can crash the process, use of `MatchMaker` within its assumptions; half-close ends the call if the rules are workable; a break ends it or strands the match maker |
| `MakeMatchesStreamBreaks` | four messages | **violated**: a broken stream does not end the matching |
| `BackfillMaker` | three tickets of two kinds, three backfill tickets of two kinds, one exclusion, one kind with room behind its teams | accounting, exclusion, where a panic comes from, termination; one intact proposal each when the backfill tickets come first |
| `BackfillMakerPanic` | one ticket, two backfill tickets | **violated**: an exclusion makes the loop index an empty slice |
| `BackfillStream` | five messages of any kind, two tickets, a backfill ticket that one of them excludes | tickets and backfill tickets are taken in the order of the stream; complete answers; a client that keeps to the order gets its own responses; what can crash the process; use of `BackfillMaker` within its assumptions; the end of the stream ends the call; only a failed `Send` leaks goroutines |
| `BackfillStreamShared` | same | **violated**: a response shows attributes or a team of another proposal |
| `SessionLife` | three tickets (of two, one and no players), attributes of every mixture of two kinds, two rounds of backfill | which attributes reach the session; each player on one team; parties split a team; proposals extend the session; `EnrichTicket` may be repeated |
| `ServerProcess` | two clients with one call each, eleven requests with every kind of rules, ticket and token and every answer of every method; every failure, any number of signals | what is refused and why; what brings the process down; the race on `err`; the flush of telemetry; signals end the process, unary calls are answered |

Bounds. Two tickets' worth of values are enough to tell an order from another,
because no code compares or inspects tickets; five tickets give two matches and a
remainder for the default size, and one match with a remainder for every other
size. The integers are narrow (-8..7) where overflow is the point and wide enough
to be out of the way elsewhere. Four messages are the parameters and three
tickets: a match and a remainder, or three matches of one. Three tickets and three
backfill tickets let a backfill ticket be proposed twice and then overtaken by
another, let a ticket be dropped at the start and in the middle of a round, and leave
something in either queue. Five messages on a backfill stream are the parameters, a
backfill ticket and three tickets: enough for the backfill ticket to be proposed twice
while the first proposal is converted (tickets first), and for a match maker, a fetcher
and a handler to be blocked or gone in every combination. Clients are independent of
each other but for the process they share, so two of them, one call each, show what one
does to the other. Five generated ids are a match and two rounds of backfill, by which
the two conversions of a session have each been applied to the result of the other.

Deadlock is switched off where the system may stop: a call ends, a match maker
whose caller no longer receives is blocked for good, a session has used up its tickets,
the process exits.

Fairness. Weak fairness of each goroutine: the Go scheduler runs a goroutine that
can run, and two goroutines that wait for each other on a channel meet. Nothing is
assumed about which arm of a select is taken, nor about the caller or the client:
they need never close, cancel or send. The sender's fairness includes that
`server.Send` returns, which gRPC guarantees as long as the client reads or the
stream breaks; in `BackfillMaker` the same assumption is the fairness of `Release`, and in
`BackfillStream` that of `Handler`. In `ServerProcess` the fairness of `Main` includes
that the library calls of start-up and shut-down return, and that of `CallProceeds` says
the same of the interceptor and the unary methods; `StreamProceeds` has no fairness, as a
client need not send and a stream may be blocked for good. No failure, no signal and no
call has to happen, and neither does the exporter have to run. `SessionLife` states no
liveness and needs no fairness.

## Disagreements found

Four are runs that are expected to fail, with the details under `findings` in
`PROJECT.json`:

* a maximum without a minimum makes `buildMatch` send empty matches for ever
  (`MatchMakerNoMinimum`);
* a broken stream leaves the match maker blocked in a send (and, if a ticket is left to
  push, the receiver and the handler with it), because the scope does not hang on the
  stream's context (`MakeMatchesStreamBreaks`);
* proposals for one backfill ticket share its attributes and its teams, so a response
  may show what belongs to another (`BackfillStreamShared`);
* the backfill loop indexes past the last ticket after an exclusion
  (`BackfillMakerPanic`).

Others can be read off the definitions, and no run is spent on them:

* the range tags of `AllianceRule` (`gameRules.go:8-11`) are not enforced;
  `GameRules!Accepts` is all there is;
* `docs/matchmaking.md:44-45` would have tickets discarded that can never fit; no
  method looks at the number of players of a ticket;
* the branch for an odd message on a `MakeMatches` stream
  (`matchFunctionService.go:166`) dereferences the nil it wants to log, so the process
  ends (`MakeMatchesStream`, `ContractKeepersNeverCrash` says when);
* `ValidateTicket` answers "valid" under rules that `RulesFromJSON` refuses, where
  `GetStatCodes` and the streams report them; of those, rules that do not decode are
  answered with `Unknown` and rules out of order with `InvalidArgument`;
* a match's teams have no parties, and those of a proposal are all in one party without
  an id, since players lose theirs on the wire (`PartiesSplitTheirTeam` is stated so
  that it holds of both);
* `EnrichTicket` fills in a ticket whose attributes were lost in a conversion, as if it
  had come without (`EnrichIsIdempotent`); a NaN and a value `structpb` does not know
  are lost together though each would survive alone (`Kept`);
* the deferred `Shutdown` (`main.go:232-236`) is not reached by the exits through
  `os.Exit(1)` or a panic: `CleanExitIsFlushed` is about status 0 only;
* `err` of `main` is used by two goroutines (`main.go:187`, `199`, `213`): a failure to
  serve may pass without a word (`SilentStopNeedsRace` says when).

A cancellation of `scope.Ctx` does not reach a goroutine that is blocked on its send
either: that is why `CancelEndsDrainedCall` speaks of a caller that keeps receiving,
and `BrokenStreamEndsOrStrands` allows for a stranded match maker.

## Proofs

`GameRulesProofs` is arithmetic: a product that fits is not changed by wrapping,
multiplication is monotone, and so the sizes of a sensible rule set are ordered
(`SensibleSizes`). It assumes only that an int holds the number 2.
`RulesLoadingProofs` lifts that to the call.

`MatchMakerProofs` has the invariants of `MatchMaker` for all rules, tickets and
numbers of tickets:

1. `TypeCorrect`: inductive by itself; its heart is that `numPlayers` never exceeds
   the length of the slice (`NumPlayersFits`).
2. `TicketsAccountedFor`: inductive given the types; the sequence lemmas say that
   appending to and cutting a suffix of `received` gives a suffix again.
3. `NoPanicOnSensibleRules`: from `SensibleSizes` and the fact that the rules in use
   have passed `RulesFromJSON` (`RuleInv`).
4. `SizesAreMinimal`: not inductive alone, as it says nothing about the queue while a
   match is being built. `SizeInv` adds that the queue never holds more than the
   minimum at the head of the loop, and exactly the minimum at the send.
5. `ImplementsContract`: under the hypothesis that all rules are workable, every step
   is a step of `MatchLogic` or leaves its variables alone.

`BackfillMakerProofs` has every invariant the run of `BackfillMaker` checks, for all
tickets, backfill tickets, exclusions and arrival orders:

1. `TypeCorrect`: inductive by itself.
2. `AccountingCorrect`, `TicketsAccountedFor`: the accounting with the two bounds it
   takes for granted (no more tickets used than received, proposals name backfill
   tickets that were taken).
3. `PanicIsExplained`: a round is out of tickets after its first backfill ticket only
   if one was dropped, since a proposal that uses up the tickets ends the round.
4. `OneProposalForEach`: not inductive. `FirstInv` adds that the queue has no
   duplicates, that nothing in it was proposed before, and that only one ticket is in
   play while backfill tickets are queued, so that the cut after a proposal removes
   exactly what was proposed.
5. `HeldProposalsIntact`: from 4, no two proposals write to the same memory
   (`MemoryInv`), and what the caller holds was sent before (`SendInv`).
6. `RoomInv`: only a free slot behind the teams is ever written to, and no more is queued
   than was taken. The composition with the RPC needs both.

`MakeMatchesStreamProofs` and `BackfillStreamProofs` put a match maker and the RPC that
calls it together. Both begin with the fact that the RPC is a caller of the kind the match
maker's module allows for (`UsesMatchMaker`, `UsesBackfillMaker`): the steps of handler,
receiver and sender, or of handler and fetcher, are steps of that module's caller, the
match maker's steps are its own, all others leave its variables alone. Two facts make
this inductive: the goroutines are started together and one of them closes the channels
(`GoroutineInv`), and there are never more tickets than messages read (`ReadInv`), which
keeps the RPC within the bounds of the match maker's module. The invariants of the match
maker are proved from `Init /\ [][Next]_vars`, without its fairness, so that they hold of
the composition as well: an INSTANCE of its proof module gives them under the names of
the stream's variables. On top of that come, for `MakeMatches`,

1. `OrderIsPreserved`: `DeliveryInv` says where the tickets handed over are (sent, or in
   the sender's match); that the next match continues where the last one ended is
   `TicketAccounting`.
2. `AnswersCompletely`: `EndInv` says in which order the goroutines end, as long as the
   stream is whole.
3. `KeepersNeverCrash`: parameters first with sensible rules leave no branch that
   dereferences nil, and `SensibleRulesNeverPanic` covers the match maker.

and for `BackfillMatches`,

1. `FetchInv`: what the match maker has are the messages read, by kind and in their
   order. The four lemmas `Collects...` say how the messages of a kind grow by one.
2. `KeepersAnswered`: `ResponseInv` says that the k-th response is made of the k-th
   proposal. That its attributes and its team are that proposal's own, although the
   handler reads them while the match maker runs, is `IntactWhenBackfillFirst`.
3. `StreamOrderKept`: a step of the match maker that takes from a channel is the fetcher's
   push of the message it read last, as `TakenStep` says.
4. `AnswersCompletely`: `EndInv`, as above, except that a failed `Send` loses the call.
5. `CrashesExplained`: by cases of the step that crashes (`CrashStep`). A panic of the
   match maker is explained by `PanicNeedsExclusion`, and the concurrent use of a map
   needs a backfill ticket that came after a ticket.

`SessionLifeProofs` has every property of the run of `SessionLife`, for any tickets,
players and attributes and any number of rounds:

1. What `Only` and `FlattenSeq` compute. They are defined by recursive functions over
   sequences of any length; the induction the proofs need (`StepByStep`) is derived from
   the pigeonhole principle of `FiniteSetTheorems`: if the numbers from 0 on that have a
   property stopped short of n, adding 1 would map them one to one into themselves
   without 0.
2. What the conversions keep: a map of JSON values is not changed by a trip, a ticket is
   not changed by a second trip (`ArrivesUnchanged`), `Kept` is what is left after the
   first (`Arrival`).
3. `IInv`, with a lemma for each of the three calls. None of the properties is inductive
   alone: `TicketsInv` adds that a ticket `EnrichTicket` has answered for is made of JSON
   values only, `SessionInv` that the session's tickets are those of the core as they
   arrive *today*, although the core's may have been enriched before they joined, and
   `ResponseInv` that ids on the wire are ids generated so far. `TypeCorrect`,
   `AttributesAreKept`, `PartiesAreTheTeam`, `ProposalsTakeNothing` and `EnrichOnce`
   follow from it.
4. `PlayersStayOnTheirTeam` needs `TeamsInv` as well: the users of all teams, one team
   after the other, are the players of the tickets in the order they joined. That
   `WithUsers` may drop a team on the way changes neither.

`ServerProcessProofs` has every invariant of the run of `ServerProcess`, for any number
of clients and any set of requests. `TypeCorrect` is proved together with `StartInv`
(calls are only served once `main` is past the set-up, so a call never finds the
interceptors without a validator), and from the two `AdmittedInv` (a call that is past
the interceptor, a stream under way among them, had a reason to be). `RefusalsExplained`
and `PanicExplained` are inductive given these; `StopNeedsRace` needs `RaceInv`, which
relates `err` to the place `main` was at when `Serve` failed. `CleanExit` needs `FlushInv`:
`DeferredInv` says which calls are deferred, with which contexts, at each place of `main`,
`ContextInv` that `ctx` is the root context until `NotifyContext` and that the root context
is only cancelled by the last of the deferred calls; so `Shutdown` has a context that lives,
and once it has run nothing is pending any more.

Assumed of the constants: an int holds the number 2 (`IntBoundAssumption`), the rules
are rule sets (`MatchMakerAssumption`, `DocumentsAssumption`), and `Excluded` and
`RoomForATeam` are about the tickets there are (`BackfillAssumption`,
`BackfillStreamAssumption`); the requests are requests (`RequestsAssumption`). Of the
core's tickets it is assumed that each has its players, that attributes are maps from
names to values of the four kinds, and that no such map is `Nil`
(`SessionAssumption`). TLC evaluates all of them.

Only model-checked: all liveness (that calls and match makers end, that signals end the
process, that unary calls are answered, that nothing leaks), as fairness and ENABLED are outside what the prover
handles. Every invariant, action property and refinement that a passing run checks is a
theorem; `ImplementsContract` has the hypothesis that all rule sets are workable, which
the run's are.

## Not modelled, and the plan

The plan of modules is done, and so is that of invariants and action properties. What
could still be proved are steps towards liveness: bounds that fall with every round of a
loop, from which termination follows under the fairness the runs assume.

There is one run per question; a new run may take the place of one whose question
another answers as well.

Left out for good: the descriptors, accessors and reflection of the generated code (the
method handlers and the messages are modelled as far as a property tells them apart);
the reflection service (calls by its v1alpha name go unchecked as those of the health
service do, calls by its v1 name are checked as a method's are); what is logged and measured; the
goroutine that sets profiling rates; the AccelByte SDK, but for whether its validator is
ready and accepts a token; the reading of environment variables; the JWT claim types,
which no code uses. Of the data: names, times, latencies and excluded sessions that a
conversion copies as they are (a missing creation time becomes the epoch on the way),
and the wording of errors.
