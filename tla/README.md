# A TLA+ verification of soroban-ret

soroban-ret is a decompiler: it reads the WASM binary of a Stellar Soroban
contract and writes Rust that should do what the binary does. Nothing in it runs
concurrently and nothing survives a run. What makes it hard is that it must be
right about *programs it has never seen*: it evaluates parts of them with some
inputs unknown, it walks both arms of every branch over one map of the stack
frame, and it rewrites the result pass after pass, more than a hundred of them.
Its own prime rule is `ir/correctness.rs:3-4`, "a wrong recovery is worse than a
`todo!()`" (also `README.md:31-38`: a hole rather than a guess). That rule is
what most of the properties here state, each time against a model of what the
program means when it runs.

Paths below are relative to `src/crates/soroban-ret/src/` unless they start
elsewhere; `lifter.rs` is `pattern/lifter.rs`, `optimizer.rs` is
`ir/optimizer.rs` and `correctness.rs` is `ir/correctness.rs`.

## 1. The system

Five stages run one after the other (`pipeline.rs`, `run_to_ir` and what follows
it): WASM parsing, spec extraction, lifting of each exported function to the
Soroban IR, the optimizer with the repairs around and behind it, and source
emission. One call of `decompile` owns everything; components talk by calls and
by the state of one `LiftContext` per function, then by the function's body.

| component | state it keeps | operations | what makes it correct | modelled |
|---|---|---|---|---|
| DataKey micro-evaluator, memory (`lifter.rs` 10277-10912) | `mem`: cell address -> (value, width) | store, load at any width, the symbol and vector builders | cells never overlap, a load answers the machine's bytes or nothing | yes, proved |
| DataKey micro-evaluator, control (10292-11010) | operand stack, locals, block frames, shared step counter | every control instruction, call, return | frames are the blocks around `ip`; a completed evaluation is what the code computes, whatever the opaque payload | yes; frames, operands, budget and depth proved |
| Frame-descriptor key fold (1623-1785) | reads `frame_slots` and `slot_write_log` | the provenance gate, seeding the evaluator | only what memory must hold is seeded | yes, proved |
| Const-loop evaluation (1030-1162, 5900-5922) | a fragment run by the evaluator, its final locals | gate, run, adopt | the finals are what the machine's locals are | yes |
| Shadow-stack frame slots and join taints (800-1028, 5161-5296, 6346-6521) | `frame_slots`, `slot_taints`, `slot_defs`, `slot_write_log` | store, load, dynamic store, recogniser seed, joins of `if` and `loop`, inlined calls | a load after a join answers a value only if every path holds it | partly, what is modelled proved |
| Recognisers (`lifter.rs`, `pattern/host_calls.rs`) | the operand stack and locals of `LiftContext` | storage, events, auth, token, struct patterns over host calls | a recognised call means what it is replaced by | no |
| Structuring and CFG analysis (`pattern/structurize.rs`, `pattern/cfg_analysis.rs`, `lifter.rs` 17255-17413) | the parse cursor and recursion | descent, safety-net classification, recovery of error branches | the open activations are the blocks around the cursor; the tree is the code; a trap is dropped only if no run reaches it | yes; the descent proved |
| Pipeline, fallbacks, recovery grading (`pipeline.rs`, `dynamic_hints.rs`, `recovery.rs`) | the body and signature of each function between stages | sixty repairs around and behind the optimizer, fills from observed runs, the grade | a repair leaves what the body does or fills a hole of it; the grade owns up to every hole | partly: nearly all |
| IR optimizer (`optimizer.rs`) | the statement list between passes | passes on control flow, values, bindings, loads, names and loops, the fixpoint | the output does what the source does, or stops at a hole; the rounds settle; no local loses its binding | partly: nearly all |
| Final correctness passes (`correctness.rs`) | the body | ten passes: detectors of broken shapes and their repairs | the broken shapes are gone, a hole stands only where a value was lost | yes |
| Contract spec and type registry (`spec/`) | lookup tables, built once | lookups | a lookup is unambiguous | the lookups |
| Code generation (`codegen/`) | imports, names, indentation | emit each construct, collect imports | the text does what the body says and imports what it names; a hole stays a hole | partly: statements, imports |
| WASM front end (`wasm/`) | the parsed module, data segments | parse, validate, read data | a read answers the bytes of one segment or nothing | no |
| Command line (`../../soroban-ret-cli`) | none | read, decompile, write | - | no: input and output |
| Accuracy, equivalence and bench harnesses (`../../soroban-ret-{accuracy,equiv,bench}`) | none in a decompilation | score, re-execute, compare | - | no: measurement |

How they interact, as far as the models follow it:

- The *structurer* turns a flat body into a tree. The *lifter* walks the tree
  with one `LiftContext`; every modelled store updates the *frame slots* and
  their log. A body nested deeper than the limit loses its inside, on purpose.
- At a storage call with a key built in memory, the *descriptor fold* copies
  justified frame slots into a fresh *micro-evaluator* and runs the key's
  constructor, which is flat bytecode again. At a loop in its one wrapper block
  the *const-loop evaluation* runs the same machine on the loop.
- The lifted body goes through the first repairs and to the *optimizer*; the
  pipeline runs it a second time from the copy it kept when a body with host
  calls came out empty.
- Then stages 4b to 4y of `run_to_ir` go over all functions, one repair after
  the other, each reading the body the earlier ones left, the signature, the
  *registry* and, if there are any, the *hints* from observed runs. In their
  middle (4g) it is decided for good whether the function takes `env`.
- The *final passes* look for shapes that cannot compile and hole them; *code
  generation* writes the text; the *imports* and the *grade* are computed from
  the IR, not from the text, by walks of their own.

What is hard about it: values held only by name that must never be computed
with; overlapping stores of different widths; relative branch depths that
change meaning when code moves; one map for all paths, with taints stamped at
the joins; budgets on steps, calls, nesting and rounds; rewrites that are right
alone and wrong after another; several walks over the same tree that must agree
on which nodes they enter.

## 2. The modules

```
DkMemory -------- DkMemoryProofs             WasmBlocks -------- WasmBlocksProofs
   |                  |                        |   |                |         |
DescriptorSeed -- DescriptorSeedProofs         |   DkControl -- DkControlProofs
                                               |      |                       |
FrameSlots ------ FrameSlotsProofs             |   DkReference                |
                                               Descent --------- DescentProofs
                                               |
                                               Structurize -- StructuredTree

Endings -- Outcomes                          SorobanBody -- Optimizer -- OptimizerSoundness

Codegen -- FirstRepairs -- Recoveries -- ParamRepairs -- KeyRepairs -- LateRepairs
   |                                         LateRepairs -- Pipeline -- PipelineSoundness
   |
Correctness -- CorrectnessSoundness          IrTree -- IrRuns -- IrFold -- IrHusks -- IrLets
                                               -- IrNames -- IrOptimizer -- IrOptimizerSoundness
```

A `...Proofs` module has the theorems about the module it extends (section 5). An
MC module has the constants and bounds of one instance and the families of
bodies it starts from, and nothing else; `MCDkMemory` and `MCFrameSlots` need no
module, only a `.cfg`.

### The lifter

**DkMemory** (`DkEval::{store,load}`, `lifter.rs` 10462-10503, and the
instructions and builders that call them). `cells` is `DkEval.mem`; `ram` is the
machine that runs the same instructions, byte by byte. A byte is a literal or
"byte *i* of the value called *t*", so a value held abstract has an identity in
memory without having a number. `StoreI32`, `StoreI64` and `SymbolOut` are the
writes; `LoadCell` and `LoadExtended` are the *set* of answers the code may give,
since a load that finds no exact cell scans a hash map in no fixed order. Loads
from the immutable data section are not state and are left out.

**DkControl** is `run_instrs` with `eval_call`, `handle_call`, `dk_exit_block` and
`dk_branch`: one action per group of instructions, an activation record per
nested call, the shared step counter, the depth limit. **DkReference** is what it
must compute: the structured code the flat body came from, run on concrete
values only, with the labels as labels. `EvalSound` says that a completed
evaluation with opaque arguments equals that run for *every* value the arguments
may stand for. `AdoptionExactBar` says the same of a loop's finals, together with
what follows the loop. **WasmBlocks** says of a flat body which `end` closes an opener
and which blocks a place lies in; control and the descent share it.

**DescriptorSeed** extends DkMemory: `slots` and `log` are the lifter's
`frame_slots` and `slot_write_log`, and the steps are what can happen to a frame
before the fold - a logged store on every path, one in an arm the machine may
skip, a recogniser's seed that no log sees, a store through an index. `Fold` is
the gate (1662-1748) with its reversed, cut-off walk of the log.

**FrameSlots** is the lifter's walk of a body: a behaviour of the specification
is a program *and* its lifting. `live` is the set of memories the machine may
have at this point, over all paths; `slots`, `taints`, `defs` and `log` are the
lifter's. `ToElse` and `EndIf` are the two halves of the `IfElse` join of
`lift_structured`, `EndLoop` is `taint_loop_variant_slots`.

**Descent** is `parse_sequence` as a machine: `open` is the stack of its Rust
activations, each with what it has parsed so far, and `cursor` the index they
share; one action for each arm of the `match` and for the cut at the nesting
limit. **Structurize** goes on with `classify_seq` and `rewrite_branch_seq`, one
step each, which touch nothing but the finished tree (`LaterPass`); so every
behaviour of its `Spec` is one of `DescentSpec`, and the theorems about the latter hold of it.
**StructuredTree** has the trees, `flatten_structured` and the runs of a tree (the
effects and decisions in order, and how it is left), which is what the passes
may not change.

### The IR, what it does, and what a rewrite promises

**IrTree** is `ir/soroban_ir.rs`: an expression is its variant, its atoms and its
sub-expressions, a statement its kind, name, expressions and bodies; and the
walkers of `correctness.rs` and `pipeline.rs`. The real walkers differ in which
variants they take for leaves and in how they treat a `for`, and the operators
here differ in the same way (`MapOutsideFors`, `MapButBounds`, the parameter
`leaves`): a node a walk does not enter is a place where a repair is missing.

**IrRuns** runs a statement list in a *world*: the arguments, what storage holds,
what foreign contracts answer. The result is a trace of effects and an ending,
among them `hole` (a `todo!()` was reached) and `stuck` (the text does not
compile). **FnRuns** says how that looks to the caller of the function.
**Outcomes** is the abstract specification of every rewrite, over the ending in
each world only: a step leaves it, stops at a hole before, or fills a hole behind
what ran before it. It has one way out: a step that *guesses* may do anything.
`PipelineSoundness` and `IrOptimizerSoundness` instantiate it and check its
`Spec` as a property, so each repair and each pass is shown to implement it
except where its guess is named (section 4).

### The optimizer

Its passes run in one list per round. They are modelled in two machines, each
with the rounds and the fixpoint of `optimize_stmts_to_fixpoint`, and each over
the kind of body its passes have something to do in.

**Optimizer** has the control-flow and artifact passes in the file's order
(`Order`, where a pass run several times stands several times), the assertion on
the rounds, the guard behind the optimizer, and the second try of the pipeline.
**SorobanBody** gives statement lists over abstract host calls and their runs in
every order of two parameters; **OptimizerSoundness** says what an honest body
is - what Rust could have been compiled to - and what the output owes it.

**IrOptimizer** has the passes on values over the full IR: **IrFold** (`fold_expr` node
by node, conditions and matches on constants), **IrHusks** (guarded reads, reads
whose value is thrown away, tag checks), **IrLets** (equal reads made one,
bindings dropped or moved to their use, counters, self-referential and unbound
locals), **IrNames** (names, shadows, counted loops). One action per pass, then
`Round`, then `CountedLoops`. The binding of unbound locals walks a hash map in
the code, so `BindUnboundLocals` is a set of results and its action a choice.

### The pipeline

**Pipeline** is `run_to_ir` on one function: `Order` is its sequence of stages,
each action is one stage of it. **FirstRepairs** is what happens around the
optimizer; **Recoveries** (4b to 4c, 4m3 to 4m7), **ParamRepairs** (4c2, 4c3, 4f to 4j,
4m2, 4p, and 4c4 to 4c7 that use observed runs), **KeyRepairs** (4k to 4m)
and **LateRepairs** (4n to 4y) the stages behind it. The optimizer's own passes stand between two of
these stages and are not repeated here. A behaviour starts from a *compiled*
body and from one that the lifter may have made of it: with operands lost, keys
mistaken, a tail gone. `source` is the former, and `FilledRight` compares the end
with it.

### The text

**Codegen** translates a body to its text, again as a statement list: where `Ok`
and `Err` are written, which tails get a `todo!()`, merged lets, turned conditions,
`while` loops, `if`/`else if` chains of a match on unit variants, expressions that
have no rendering. **Correctness** is the final passes in the pipeline's order, one
action each, and `Emit` with what goes with the text: `compute_imports` against the
names the text mentions (they are two walks in the code as well), the grade of
`score_fn`, and `count_artifacts`.

Conventions: an operator named `X_Y` is `X` with a bug `Y` that the code might
have had; each breaks a property and no specification uses it. A property
named `...Bar` is one of the source's own claims with its known exceptions
taken out, each named.

## 3. What is checked

| run | states, about | shows |
|---|---|---|
| `MCDkMemory` | 11,000 | every sequence of stores and symbol-builder calls: `CellsDisjoint`, `LoadSound` (exact, narrow or sliced, a load answers the machine's bytes), `ExtendSound` (a zero-extended value really has a zero upper half), `LoadDeterministic` (hash-map order never shows), `VecWindowSound` |
| `MCDkControl` | 494,000 | branching constructors, loop fragments, callers and callees: `FramesHoldIp` (the frames are the blocks around `ip`), `OperandsNest` (no block eats the operands of the one around it), `EvalSound`, `AdoptionExactBar`, and `Decided`: every evaluation ends |
| `MCDescriptorSeed` | 391,000 | the gate: `SeededDisjoint` (cells are installed without the store that keeps them apart), `SeededAgree` (a seeded cell that differs from memory is one that an arm, a recogniser or a dynamic store touched last) |
| `MCFrameSlots` | 1,609,000 | programs of six constructs: `ReadSound`, `CrossArmsEnd`, `JoinIsLocal` |
| `MCStructurize` | 616,000 | any bytes, nested or not: `InstructionsKept`, `Ends`; well nested bodies: `OpenFollowBlocks` (the activations are the blocks around the cursor); compiled bodies: `TreeAsWrittenBar`, `NoOrphanPanic`, `NetBehindTerminator`, `RecoveryExactBar` |
| `MCMisread` | violation | `RunsAsWritten`, finding 1 |
| `MCOptimizer` | 1,090,000 | over 24,000 bodies: `Converges` (the rounds settle exactly up to six levels of empty `if`s), `NothingInvented`, `NoWrongRecoveryBar`, `CallsShow` |
| `MCWrongRecovery` | violation | `NoWrongRecovery`, finding 2 |
| `MCIrOptimizer` | 500,000 | twelve families of bodies, one for each group of passes: `PassesHonour` (the refinement of Outcomes), `Converges`, `NoBindingLostBar` |
| `MCLostBinding` | violation | `EndsAsLifted`, finding 3 |
| `MCPipeline` | 46,000 | compiled bodies and what the lifter loses of them, one family for each repair: `RepairsHonour` (the refinement of Outcomes), `FilledRight`, `EnvGivenBar` |
| `MCCorrectness` | 143,000 | bodies through the final passes and into text: `GuardedShapes`, `PassesHonour`, `HolesEarnedBar`, `MovesOnceBar`, `TextFaithfulBar`, `ImportedBar`, `HolesReportedBar` |

Each property of a passing run has a named bug (`X_Y`, listed in
`PROJECT.json` under "mutants") that makes TLC refute it on that run's own
instance, so none holds merely because its case never occurs.

### Bounds, and why they are enough

- `MCDkMemory`: `Word` 2 in place of 4 and binary bytes, so i64, i32 and
  byte loads still have three widths. Seven addresses, in two pieces, hold overlapping i64 cells,
  i32 cells inside and across them, and the two cells of a symbol builder's
  answer. All widths and windows are covered by the proofs.
- `MCDkControl`: arithmetic modulo 3, `MaxSteps` 30 for 4096, `MaxDepth` 2 for 4.
  Loops that go round end within 30 steps or hit the budget, as both must
  happen; recursion meets the depth limit. `MaxBody` is 16 for `DK_MAX_BODY` 400; one
  family calls a function of just that length and the three kinds that
  `eval_call` refuses: longer, with an indirect call, with two results. Bodies have up to six nodes over
  seven alphabets: every pair of nested blocks with a branch to each label
  needs four, a branch past one more needs five.
- `MCDescriptorSeed`: one-byte words, a row of two i64 fields in a frame a byte
  wider on either side, two logged stores and one write that no log sees: a
  store, what justifies it, and what clobbers it.
- `MCFrameSlots`: one slot (no taint of a slot reads another), two values, six
  constructs two deep: an inner and an outer join with a store in each arm.
- `MCStructurize`: any six instructions with every marker, and trees of up to five
  nodes; `MaxNest` 3 for 1024, so four openers in a row are cut. `Tails` are error tails with
  checks in and before them. Loops go round
  once more than they must.
- `MCOptimizer`: the real limit of four rounds, with empty `if`s up to nine deep; honest bodies of two statements
  over everything, of five over guards and of five over loops; other bodies of
  two, three and four. Two passes interact through a statement and its
  neighbour or its body, which two to five statements contain. Runs give every order of the two
  parameters and two answers of calls, and go round three times.
- `MCIrOptimizer`: the real limit of four rounds. Families of up to three
  statements out of about ten, chosen for one group of passes each; every pair
  of operands under every operator for the algebra. Literals of the 32- and
  64-bit types wrap at 4 and 6 bits (`IrRuns`), so overflow, sign and the shift's
  mask are all reached with small numbers. Three worlds differ in the order of the
  parameters, in what is stored and in what calls answer; a binding needs one let,
  one use and one statement between them to go wrong, which three statements hold.
- `MCPipeline`: for every repair, the shapes it looks for, the same with one
  operand lost, and near misses; worlds differ in every value a repair could
  confuse. A repair that fires is followed by all the later ones on its output.
- `MCCorrectness`: bodies of up to three statements over each pass's shapes, in
  functions that return nothing, a number, a `Result` of several kinds; a loop goes
  round twice.

Deadlock is checked in `MCDkMemory`, `MCDkControl`, `MCStructurize`,
`MCIrOptimizer`, `MCPipeline` and `MCCorrectness` (what is finished has an idle
step of its own: `Halted`, `Structured`, `Done`); elsewhere a behaviour ends when
the program given has been lifted or optimized, or a bound is used up.

### Fairness

Only `DkControl` and `Structurize` assume any: `WF_vars(Next)`, that a
single-threaded interpreter or parser which can take its next step does. Every
state of theirs has at most one enabled action, so no choice between actions is
made fair. `Decided` and `Ends` are then claims about the step budget and
about the cursor, the things in the code that make them true. Everything else
is safety: the passes and stages are a fixed list, and the rounds of the
optimizer are counted, so that they end is no question; whether they *settle* is
`Converges`.

## 4. What the checks found

Three claims of the source that the code does not keep. Each is a run that checks the
claim itself, with no exclusion, over several shapes of those that the
`...Bar` of the passing runs leaves out; TLC shows the first shape named, and
the others when the run is given a family of that one only:

1. *A dangling else* (`structurize.rs:126-134`). A then part whose last construct is an `if` without else
   hands the outer else to the inner `if`; the rest of the body follows it in. `RunsAsWritten`
   compares what the tree at the end does with what was written; `Ifs` is this shape,
   `ReturnOrTrap` a trap that a `br_if` reaches and that is read as dead (`cfg_analysis.rs` 99, 116-118), `Tails` a
   `br_if` in an error tail that is copied under one more label (`lifter.rs` 17299-17310).
2. *A loop with two exits* (`optimizer.rs:1214-1216`). `loop { if c { break } put(); break }` is inlined for
   its last break; the first is deleted by the guard and `put` runs in any
   case. `NoWrongRecovery` is the project's prime rule (`correctness.rs:3-4`). `ArmReturn` breaks it as well,
   `if c { put(); return } emit()`, where `emit` comes to run in any case (404-416: "always redundant"),
   and `SameCalls`, `emit(); emit()`, which publishes once (2070-2097: "a lifter artifact").
3. *A use that the rename does not reach* (`optimizer.rs:7187-7402`). The names
   are propagated into every expression the function lists; `Shl`, `Some`, `Try`,
   `SretResult` and `ValTag` are missing, so below them a local keeps a name that
   nothing binds any more. The comment at 6656-6657 says all references are renamed. `EndsAsLifted` holds the
   whole list of passes to what the body did. `Equal` breaks it too, the second of two equal bindings,
   and `Moved`, `let v = call(p); if p < q { put(v) }`, where the call is left on one path only: 5971-5974
   says such lets are never inlined "because moving the call from a guaranteed-execute position
   into a conditional branch would change semantics".

### Known gaps carved out of the properties

A property named `...Bar`, `ReadSound` with its history variable `exposed`, and the
two refinements of Outcomes with their `Guess` exclude the following, each by name
in the module. Taking the exclusion out makes TLC produce the example.

The lifter and the structurer:

| excluded | where the code | what happens |
|---|---|---|
| `AdoptionExactBar`: loops left through the enclosing label with something after them | `lifter.rs` 5908-5920 | the adopted finals are still what the machine has, which is checked; but it skips what follows the loop in the wrapper block, and the lifter goes on with it. 1108-1118 calls the exit model exact |
| `SeededAgree`: `suspect` | 1709 against 1652-1658 | the gate takes any logged store that still is the map's value, also one made in an arm the machine may have skipped |
| `ReadSound`: a slot overwritten and restored around an early exit of a loop | 1011-1014 | no stamp, although the exit leaves the overwritten value |
| `ReadSound`: cleared inner taints | 6509-6513 | an else arm that ends in a terminator clears the taint of every slot of the then arm, also of one written only in a nested `if` there |
| `ReadSound`: else-arm stores behind a then arm that falls through, recogniser seeds, unstamped `if`s of loop bodies, tainted slots that the then arm stores and restores | 6447-6521, 2120-2200, 7857-7900 | a later read is not poisoned |
| `TreeAsWrittenBar`: `Dangling` | `structurize.rs` 126-134 | finding 1 |
| `NetBehindTerminator`: a node that holds a branch to its own end | `cfg_analysis.rs` 89-91, 116-118 | the trap behind it is marked a safety net though the branch reaches it (`ReturnOrTrap` of finding 1) |
| `RecoveryExactBar`: `BranchingTail` | `lifter.rs` 17299-17310, 17379-17383 | a `br_if` in an error tail is copied under one more label and means another (`Tails` of finding 1) |

The optimizer:

| excluded | where in `optimizer.rs` | what happens |
|---|---|---|
| `KnownGap`: `OneWayBack` | 1174, 1264-1268 | a loop whose only way back is its last `continue` runs once |
| `KnownGap`: `TwoWaysOut` | 1214-1216 | finding 2 |
| `KnownGap`: `EarlyReturn` | 407-446, 3261 | a return that ends an arm is stripped although code follows the arm; a guard is turned inside a nested body (`ArmReturn` of finding 2) |
| `KnownGap`: `PanicGuard` | 3299-3305 | `if a <= b { panic }` comes out as `if a > b { panic }` |
| `KnownGap`: `Repeats` | 2086-2097 | the first of two equal host calls in a row is dropped (`SameCalls` of finding 2) |
| `KnownGap`: `IdleCall` | 1895-1902 | a call whose answer decides between nothing and nothing is dropped |
| `Guess` "constants": `LeakedFlag`, `OddThreshold` | `fold_expr`, 4262-4300 | a comparison added to a number is taken for a carry and dropped; `n.ffffffff` compared by anything but `<=` and `>` is read one off |
| `Guess` "has get": `TrapsAlways` | `fold_has_get_pattern` | a read or panic behind `has(key)` is made a read that traps also where the key is absent |
| `Guess` "leading" | `RemoveLeadingPanic` | a panic at the start of a longer body is taken for a trap of the build |
| `Guess` "lost loads": `StaleKeyUsed` | `recover_discarded_storage_get_into_consumer` | a key used behind a load of it, in an effect or a return, becomes what was loaded |
| `Guess` "lets": `MovedEffect` | 5280-5285, 5971-5974 | a call used once in the next statement is moved there: into a branch, or behind another effect. The comment says "safe to inline (execution order unchanged)" (`Moved` of finding 3) |
| `Guess` "lets": `HiddenEffect`, `DeadAssigned`, `StaleMove` | 5180-5290 | a value that acts below its top is dropped with its let; an assignment outlives its `let mut`; a value is moved past an assignment of what it reads |
| `Guess` "lets": `ReboundName` | 5165-5240 | an equal storage read is replaced by a local that was bound again since |
| `Guess` "duplicates": `Repeated` | `remove_duplicate_exprs` | as `Repeats`, over real effects |
| `Guess` "names": `NameTaken` | 6658-6700 | the pipeline passes no reserved names, so a name suggested by a value can capture a parameter's; a nested list starts from an empty set |
| `Guess` "loops": `OtherCounting` | 1541-1612 | only reads of the counter are looked at: one assigned elsewhere, or skipped by a `continue`, becomes the variable of a `for` all the same |
| `NoBindingLostBar`: `OutOfReach` | 7187-7402, `count_local_in_expr` | finding 3, and uses below nodes that are not counted |
| `NoBindingLostBar`: `Twins` | 5309-5311, 5748-5755 | of two equal bindings the second is removed, but only the first use of it replaced. The comment says "Substitute all references" (`Equal` of finding 3) |
| `NoBindingLostBar`: `RebindsItself` | 7098-7105 | a let that shadows what it reads has the new name in its own value |

The world of `MCIrOptimizer` also takes a unit at the end for no value, `0` and
`false` for one number, and an unbound local for a hole, as the text would.
The pipeline (`Guess` of `PipelineSoundness`, all in `pipeline.rs`): a repair that
guesses takes the first thing that fits, or what the shape mostly stands for.

| stage | when it guesses wrong |
|---|---|
| tokens | the statement replaced holds more than the check of the list |
| reconstruction | fields of one another, a bool, the head of a vector are taken for the argument itself |
| trailing, void and wrapper panic, 4r | a panic that is reached is taken for a trap of the build |
| 4b2 | a lost field that may be absent is made `None` |
| 4b4 | what was mapped to the curve was no field |
| 4b5 | nested matches both call their payload `v0` |
| 4b6 | a wildcard arm is dropped |
| 4c, 4c2 | the key lost in an arm, or behind `has`, was another one |
| 4c4 to 4c7 | the run that was observed did not make every call of the function |
| 4f, 4h | an earlier parameter is not used, so a later one is taken for it; a literal that stood for itself is replaced. 5456-5458 says "Small constants (0-255) are common real values, not artifacts", but every literal counts as one |
| 4h2 | another field is converted to the same type. 5362-5363 and 5277 speak of the *preceding* let; any let of the body is taken |
| 4i | the returned name was bound to something real |
| 4j, 4k, 4p | the arm assigned something else than the number of its variant; a large literal was no payload; the fields were not summed |
| 4m, 4m2 | a symbol is named as a variant; the last let of a name wins; the instance key had fields |
| 4n2 | a stored 0 or 1 was a number |
| 4o | what follows an early return runs where nothing returned |
| 4q | an incomplete struct is replaced although some fields were there |
| 4s, 4t | the getter that replaces the body did more than read |
| 4t2, 4u, 4v | the new let hides a name in use; a shadowing symbol was used; what was read is not what is returned |
| 4w, 4x, 4y | the payload's field came from another load; a key was the topic of an event; the event carried more than parameters |

`EnvGivenBar` counts what the scan counts: `expr_uses_env` (5006-5103) knows neither a
niladic `to_xdr`, written `x.to_xdr(&env)` (`codegen/functions.rs` 668-673), nor
`RequireAuthForArgs` (449-453), and a function that mentions `env` nowhere else loses the
parameter.

The final passes and the text:

| excluded | where the code | what happens |
|---|---|---|
| `HolesEarnedBar`: `Unsearched` | `correctness.rs` 1467-1540 | the search for a load that goes on does not look into an enum's payload, a storage write, an event or a shift, though 1467-1473 says "every compound variant that can carry a value" |
| `MovesOnceBar` | 959-1030 | a move inside a loop, and inside a shift or a `?`, is not counted |
| `TextFaithfulBar`: `Reordered` | `codegen/functions.rs` | a let merged with the `if` or `match` behind it drops or moves an effect of its value; an `if`/`else if` chain evaluates a call again for each arm |
| `ImportedBar`: `Unscanned` | `codegen/imports.rs` 534 | below `Some`, `?`, an sret result, a tag or a fold nothing is asked for; `Tag` is never imported |
| `HolesReportedBar`: the tail that is added | `recovery.rs` 147, 326-345 | the `todo!("decompiled return value")` that codegen adds behind a last unit statement is neither graded (the function is `Clean`) nor counted by `count_artifacts`; 147 says "Whether nothing was lost". Any other hole of such a text is checked |

Other differences between a comment and the code that the models follow the code in:
`walk_expr` (`recovery.rs` 437-630) does not enter what a get falls back to, though 434-436
calls its match exhaustive on purpose; `returns_a_value` (310-314) "Mirrors the condition in
codegen::module", but an empty body of type `Result<(), E>` is written `Ok(())` and graded
`LogicLost`; the doc of `on_missing` says its error is always a `ContractError`; the names of
unbound locals come out of a hash map, so two runs may differ, while `../../soroban-ret-bench/tests/plausibility.rs:15` says
"Decompilation is deterministic".

The assertion at `optimizer.rs:44-47`, "optimizer did not converge in {MAX_ITERATIONS}
iterations", fails too. Each round takes two levels off `if`s that become empty one inside the
other, and the last round must find nothing to do: six levels settle in four rounds,
seven (`Nest(7)`) trip the assertion, although 23-24 says "in practice convergence is reached
in 1". `Converges` of `MCOptimizer` says exactly that: a body settles if and only if it
has no more than `2 * (MaxIterations - 1)` such levels, over all bodies of the run and
`Nest(1)` to `Nest(9)`.

## 5. What is proved

Six modules hold theorems, each about every value of the constants where the
runs take a small instance; `WasmBlocksProofs` has the lemmas on blocks that two
others share. Every invariant below was checked by TLC on the run of
its module before it was proved.

| module | theorem | states |
|---|---|---|
| `DkMemoryProofs` | `IInvInductive` | the inductive invariant of the evaluator's memory |
| | `TypeCorrect`, `CellsNeverOverlap` | `TypeOK`, `CellsDisjoint` |
| | `LoadsAreSound`, `ExtensionsAreSound` | `LoadSound`, `ExtendSound`: a load answers what the machine holds |
| | `LoadsAreDeterministic` | `LoadDeterministic`: the scan's order does not matter |
| | `VecWindowsAreSound` | `VecWindowSound`: a vector's window is what the host reads |
| `DescriptorSeedProofs` | `SeedInvInductive` | the gate's inductive invariant |
| | `SeededTyped`, `SeededNeverOverlap` | the seeded memory is one `store` could have left: typed, `SeededDisjoint` |
| | `SeededAgreesWithMachine` | `SeededAgree`: what no unseen write may have touched is what the machine holds |
| | `SeededLoadsAreSound` | a *load* from the seeded memory answers the machine's bytes: gate and evaluator together |
| `FrameSlotsProofs` | `FrameInvInductive` | the inductive invariant of the walk |
| | `LoadsAreSound` | `ReadSound`: a load outside loops answers only what every path holds |
| | `MarksEndAtJoins` | `CrossArmsEnd` |
| | `JoinsAreLocal` | the action property `JoinIsLocal`: a join leaves the taint of what neither arm wrote |
| `DkControlProofs` | `CtlInvInductive` | the inductive invariant of the evaluator's control |
| | `StaysWithin` | `TypeOK`: budget and call depth are passed by at most the step that is refused, `ip` stays in its body |
| | `FramesAreAround` | `FramesHoldIp`: the frames are exactly the blocks around `ip`, outermost first |
| | `HeightInvInductive` | the operand stack has, at every instruction, the height the validator gave it |
| | `OperandsStayBelow` | `OperandsNest`: no block, and no branch out of one, takes operands of the blocks around it |
| `DescentProofs` | `StaysInBounds` | of any bytes: at most `MaxNest` activations below the function's, the cursor in the code or just past it |
| | `AlwaysProgresses` | the action property `Progress`: every step lowers `Left`, a natural number, or ends the parse |
| | `OpenAreTheBlocks` | `OpenFollowBlocks`: of a well nested body, the activations are the blocks around the cursor and the whole body is consumed |

### Memory

Assumed: `Word` and `Radix` are positive, addresses are integers, no token is
called `"lit"` or `"garbage"`. The inductive invariant is
`IInv == TypeOK /\ CellsDisjoint /\ CellsAgree`. `LoadSound` alone
is not inductive: it speaks of what can be *loaded*, and a cell of a token that
no narrow load answers would drop out of it. `CellsAgree` says it of every byte
of every live cell; to keep it over a store one needs that the bytes written
belong to no other live cell, which is `CellsDisjoint`, and that is kept because
`StoreCell` throws out whatever the write overlaps. The argument is one lemma
about one store (`StoreKeeps`), used once for each i32 and i64 store and twice for the symbol
builder, which writes two cells; `LoadReads` is the matching lemma about one
load, and the four properties of loads follow from it and `IInv`.
Determinism needs disjointness only: two cells that cover the same byte are the
same cell.

### The descriptor gate

Assumed, besides: the bounds are naturals and the values of callers are values. Before the fold
nothing relates the seeded memory to the machine, as there is none yet. What must
be carried up to that point is the log: `SeedInv` says that an entry which is
*believed* (`Latest`: nothing logged behind it touches its bytes; its offset is
not suspect; the map still has its value) is what the machine's bytes are
(`LogAgrees`). A logged store keeps that for the others because a store that touches
them makes them no longer latest; an unseen write because what it touches becomes
suspect. At the fold, an entry that passes the reversed walk is latest in that sense:
that is where the cut-off of the walk has to be right, and where
`SeededDisjoint` comes from, since no store keeps the cells apart. `SeededLoadsAreSound`
then needs `LoadReads` of `DkMemoryProofs` on the cells that are not suspect.

### The frame

Assumed: no value has the name of one of the lifter's markers. Any number of slots and values,
bodies of any size and nesting. `ReadSound` is about the map as it is now;
a join looks back at what the map and the taints were at the `if`, in the then
arm, and at both ends. `IInv` has a conjunct for each thing the join relies on:

- `Sound`: of a slot that is not exposed, what the map answers without a taint is
  what every memory of every path holds (inside a loop body: or what the iteration started
  with). `ReadSound` follows from it, with `NoLoneDef` for the fill from a
  single definition and `Absolute`, that outside loops no memory is relative.
- `FramesOK`: the same of the memories at each open construct's entry, of those
  at the end of a finished then arm (`ThenSound`) and of a loop's exits
  (`ExitsSound`), *as far as the log says what the map held then* (`Opened`);
  that an else arm stands for the then arm's stores by its CrossArm marks
  (`ThenMarked`); that a slot not stored since kept its taint (`OwnTaints`, from
  which `JoinIsLocal` follows); and how the constructs lie inside each other (`Nested`).
- `MarksOwned`: every CrossArm mark belongs to an open else arm; with none open
  there is no mark, which is `CrossArmsEnd`.
- `LogIndexed`: the log's first and last entries of a slot exist, so that the
  `CHOOSE`s of the model mean something.

The proof showed that two sets carved out of `ReadSound` at the join were not
needed: what they covered had been carved out at the else already. They are gone, and
`ReadSound` says more than it did.

### Control

Assumed, besides positive bounds: `EntriesAssumption`, that the code is validated -
blocks are paired, an `end` which closes none is the last instruction, calls and
labels name something, immediates are numbers, and operands are typed (`Fits`):
every instruction has one operand height, the one `Inferred` from the
instructions before it, and inside a block none takes operands from below the
height the block was entered at. It is part of what WASM validation
demands; the host validates a contract when it is uploaded, and the decompiler relies on
that. TLC evaluates it for every body of `MCDkControl`, with the heights
computed. It speaks of code only: not of frames, of branches taken, or of
what is on a stack. Code behind a jump has no height, and nothing is
assumed of it; nor of what a label expects on the stack, since
`dk_branch` cuts to the frame's height itself.

`CtlInv` says of every activation (`ActOK`) that its frames are, in the order of
the stack, the openers `Around` the `ip` with the ends the scan paired them with; a
caller stands on its call, so that what holds of it when it is left holds
when it is returned to. The two difficulties are the bracket structure, which the
model only defines by counting (`Unclosed`), and branches. For the first,
`UnclosedSplits` adds the counts of adjoining stretches, and from it follow `EndIsOne`
(an opener has one end) and `Laminar` (two blocks are nested or apart), by arithmetic
and without induction. For the second, leaving the block at depth *d* takes away the
*d* innermost frames and lands behind an end: `Laminar` says that exactly those
blocks no longer hold the new `ip`. There is one lemma for each action.

`OperandsNest` alone says nothing of the height behind a branch, which may land
in an outer block. `HeightInv` says what that is: a frame has the height and the arity its opener
was given (`Framed`), the running stack has the height of its `ip` (`Stacked`), a
caller's has it less the call's parameters, and the callee above it is the
function the call names (`Awaits`). A branch then leaves
`height + arity` operands, which is the height behind the block's end, and a back
edge `height`, that of the loop's first instruction (`HeightLands`); a return adds the
callee's arity, which the caller's call gives. That a frame is the frame of *one*
opener is `EndsApart`, from `Laminar`. The heights of nested blocks are nested
(`BasesNest`) because the inner opener is an instruction of the outer block.

### The descent

The comment on `structurize` says "Block/loop/if/else/end nest perfectly, so this is a
simple recursive descent"; it is also run on bodies no validator has seen. Assumed is only
that the limit is a natural number and that a body is a sequence of instructions.

*Of any bytes.* `DescentInv` is inductive: the activations are typed, there is one to
`MaxNest + 1` of them, the function's is the first and the only one of its kind
(`StackInv`); the cursor lies in the code or just past its end (`CodeInv`). That only the
bottom activation is the function's makes a return always find its caller. A stray `else`
leaves the cursor where it is, and `Left` counts the activation it ends. A skipped
opener moves the cursor at least one on, because `skip_to_matching_end` never moves back
(`SkipsOn`). `AlwaysProgresses` is the safety half of termination; with weak fairness it is
`Ends`, which TLC checks.

*Of well nested code.* `FollowInv` names, for the activations above the function's, the blocks they
parse: strictly increasing openers, all of `Around(Code, cursor)` and nothing else, each with the arm the
cursor lies in. A step to the next instruction changes `Around` only at an opener and behind an
`end` (`AroundPast`, in `WasmBlocksProofs`), and an arm only at its block's `else`
(`ArmKept`, `ElseInnermost`). A block past the limit is jumped: `SkipsBlock` shows that the
first index where the count of the unclosed falls below zero is the block's own
`end`, and no block around the cursor is lost or entered on the way. `LeastOf` gives that first index: the
model's `Min` is a `CHOOSE`, which means something only of a set that has a least element.

`WellNested` is a hypothesis of the theorem, not of the machine. Its first two parts are
what validation gives (`Paired`, every `else` an `if`'s). The third says that no `if`
without `else` ends right in front of the `else` of the `if` around it. It cannot be dropped: that is
the dangling else of `MCMisread` (finding 1), where the activations do not
follow the blocks, and the step that fails without it is the one of `AtEnd`.
So the theorem bounds that finding: nothing else that
validates makes the descent lose its place.

### Only model-checked

- `Decided` and `Ends`: liveness, which the proof system does not reach.
- `EvalSound`, `AdoptionExactBar`, what `Structurize` says of trees and all properties of
  the optimizer, the pipeline, the final passes and the text: they compare runs
  that are recursive definitions over trees. That needs induction over data, and
  the proof system refuses modules with `RECURSIVE` operators besides. The two
  refinements of Outcomes are model-checked for the same reason: their mapping
  is such a run.

## 6. What is not modelled

- *Recognisers* (`lifter.rs`, `pattern/host_calls.rs`): a long table of patterns over host
  calls, each local to one call; what they may lose is what the families of `MCPipeline`
  start from. *Inlined calls and promoted slots* of the frame map, and the loops that
  lifting reconstructs (`lift_structured_loop`), are planned.
- *The whole optimizer as one list*: the two machines have the passes of a round in the
  file's order each, but no body goes through both. Bodies that interest the one have
  nothing to do for the other; an interaction of, say, a guard turned by the one and
  a let moved by the other is out of reach.
- *The second naming* (pipeline.rs 733-737): `propagate_variable_names` and
  `remove_self_assignments` once more between stages 4m7 and 4n, with the parameters'
  names reserved. Both are passes of `IrOptimizer`, where nothing is reserved; what the
  stages behind them make of the new names is not.
- *Two folds of an `if` before the join of its frame maps* (`lifter.rs` 6360-6415): the trap guard of
  an option's decoding, and the tag guard of a parameter spliced into what follows. Both
  replace the `if` as a whole; `OpenIf` starts behind them.
- *Stage 4a* (field names of unions), the panic handler of a stub, the `Missing`
  functions and the sums of the report: no body is changed there.
- *Declarations* of types, events, errors and traits as text, doc comments, layout and
  formatting of code generation: wording.
- *WASM parsing* is the `wasmparser` crate's, and the data section is immutable; the
  tables of the *type registry* are built once from the metadata and are constants here;
  *command line* and *harnesses* are input, output and measurement.

Abstractions inside the modelled parts: i64 arithmetic and comparisons of the
micro-evaluator are represented by `add` and `eqz` (each refuses an opaque
operand, as all of them do); `TokenAssumption` keeps abstract values apart by
name; conditions of `FrameSlots` and of `StructuredTree`'s runs are free; slots
of `FrameSlots` do not overlap, since overlaps are DkMemory's subject. Names, types
and literals of the IR are atoms; the snake_case of a name is a table of the
registry; a string is its name; a symbol is long or short by being in a set.

## 7. Plan

Done: memory, control, the descriptor gate and frame slots with their proofs,
structuring and the proof of its descent, the optimizer in two machines, the pipeline's stages, the final passes,
the text with its imports and grade.

Next:

1. **FrameSlots, inlined calls** (`lift_inline_call`, 9330-9400, and its call site): own journal and taints over
   a shared map and log, and the unique-definition fill at 5262-5280.
2. **LiftControl**: `lift_structured` and `lift_structured_loop`
   (`lifter.rs` 5601-6500, 7857-8090) from `StructuredTree` to the IR, with the
   property that the lifted body's runs are the tree's.
3. **One optimizer**: the lists of `Optimizer` and `IrOptimizer` merged over the full IR.
4. **DataSection** (`wasm/data.rs`) and **HostCalls** (`pattern/host_calls.rs`): pure
   operators against reference definitions over bounded inputs.

Theorems: those of **FrameSlots** carried over to inlined calls, once these are modelled;
the data section's reads, which need no recursion.
