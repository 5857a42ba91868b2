# Zanbato in TLA+

Zanbato is a toolkit for [Kaitai Struct](https://kaitai.io): it parses `.ksy` schemas, generates
Go and C readers and writers and Wireshark dissectors from them, and evaluates them at run time
against binary data. The evaluator also runs, compiled to wasm, in the worker of a web workspace
in which the schema, the bytes and the parsed tree are edited side by side. This directory holds
TLA+ models of the parts of it that keep state, and of what expressions and the generated readers
and writers compute, the TLC configurations that check them and theorems about them that TLAPS
checks.

## The system and its parts

| Part | State | Operations | What is hard |
| --- | --- | --- | --- |
| Lazy parse tree, `kaitai/eval` | per node: state, value, span, start position, dependency edges; the stack of nodes being resolved; one shared stream position | `Resolve`/`Value`, `SetValue`, `MarkDirty`, `Invalidate`, `SetStream` | re-entrancy through expressions, cycles, order of access, stale dependents after an edit |
| Expression engine, `kaitai/expr`, `kaitai/expr/engine` | none of its own; calls back into the tree (`OnResolve`, `LookupChild`) | parse, evaluate, type, `sizeof`, bit alignment | precedence; the type that the generated code is written from against the value the evaluator computes; which lookups reach the tree, and which of them record a dependency |
| Schema model and parser, `kaitai`, `kaitai/ksy`, `kaitai/types`, `kaitai/kst` | none | YAML to structures, promotion of kinds | promotion of kinds of different width, sign and byte order |
| Resolver, `kaitai/resolve`; import graph, `web/src/state/importGraph.ts` | cache of parsed files | resolve an import | the two must agree on file names; import cycles |
| wasm entry points, `cmd/zanbato-wasm` | the installed file set | `loadKsys`, `parse` | panics, a runtime that exits |
| Eval worker RPC, `web/src/rpc`, `web/src/workers` | pending calls, ready promise, boot queue, messages in both directions | `call`, `terminate`, message and error handlers, `boot` | requests before boot, boot failure, late answers, termination at any point |
| Workspace, `web/src/state/workspace.tsx` | project, paths, editor text, buffer version, tree, error, selection, client | parse effect, editor mirror, `setKsySource`, `openBinaryFromProject`, `reloadWorker`, ... | effects that overlap at every `await`, values read before it and used after it |
| Byte buffer and hex editor, `web/src/buffer`, `web/src/components/hex` | pieces, undo and redo stacks, version; caret, nibble, mode | insert, delete, overwrite, undo, redo; key and pointer events | splits and joins of pieces, history, caret state that outlives its position |
| Virtual file systems, `web/src/vfs` | files, empty directories, overlay, tombstones, cache | list, read, write, mkdir, delete, exists | tombstones of parents and children, delete and re-create |
| Panels, `web/src/panels`, `web/src/components/tree` | rendering state | events that call the workspace | - |
| Go and C emitters, `kaitai/emitter/golang`, `kaitai/emitter/c` | per run: names, imports; per object read: the bytes and bits kept to write it back | text generation; the generated `Read` and `Write` | the two and the viewer must read the same values from the same bytes, and write back what was read |
| Wireshark emitter, `kaitai/emitter/wireshark` | per run: names | text generation | - |
| C runtime, `runtime/c/zanbato.h` | arena, stream, bit buffer of reader and writer | typed reads and writes, substreams, processing | bit buffers across byte boundaries and of both bit orders |
| Command-line tools, `cmd` | none | argument handling | - |

A key press in the workspace changes the buffer, which bumps a version, which re-runs the parse
effect after a debounce; the effect sends the files and the bytes through the RPC client to the
worker; the worker calls `loadKsys` and `parse`, which builds a lazy tree over the bytes and
resolves every node depth first. The emitters take the same schema and the same engine to other
ends: they write, as text, a reader and a writer in Go and in C, which link with a runtime each.
A schema therefore has three readings, the viewer's, the generated Go's and the generated C's,
and two ways to be written. Everything in Go is single-threaded and synchronous; everything
in the browser interleaves at messages and awaits.

`PROJECT.json` lists the parts with their sources, and the hazards of each at the line where it
bites.

## Modules

| Module | Models | Extends or instantiates |
| --- | --- | --- |
| `LazyTree` | resolution, dependency edges and edits of one struct of `kaitai/eval` | |
| `MCLazyTree` | the small schemas for TLC | `LazyTree` |
| `LazyTreeProofs` | type correctness, the stack discipline, stability of answers, the layout | `LazyTree` |
| `LazyTreeDirtyProofs` | the dependency graph under edits, what they leave alone, what is read after them | `LazyTreeProofs`, `SharedLemmas` |
| `SubStreams` | nested user types and the sub-streams they are read from | |
| `SubLayout` | where the schema puts each node in the root buffer, and the properties | `SubStreams` |
| `MCSubStreams` | the nested schemas for TLC | `SubLayout` |
| `SubStreamsProofs` | offsets and origins, what is read through windows, the layout being well defined | `SubLayout`, `SharedLemmas` |
| `RpcService` | what an `EvalClient` promises | |
| `EvalRpc` | the client, its worker and the messages between them | `RpcService` as `Service` |
| `MCEvalRpc` | two file sets for TLC | `EvalRpc` |
| `Workspace` | the workspace's effects and handlers, and the client in use | `RpcService` as `Client` |
| `MCWorkspace` | two projects for TLC | `Workspace` |
| `WorkspaceProofs` | what is shown at rest, whose result appears, the loading flag, the mark of the analyzed file | `Workspace` |
| `EvalRpcProofs` | type correctness, promises, order, the refinement | `EvalRpc` |
| `ByteEdits` | what an insertion, a deletion, an overwriting make of a byte sequence | |
| `ByteBuffer` | what the buffer promises: a byte sequence with undo and redo | `ByteEdits` |
| `PieceTable` | the buffer as it is, pieces in arrays that are spliced | `ByteBuffer` as `Buffer` |
| `MCPieceTable` | the bytes for TLC | `PieceTable` |
| `SharedLemmas` | the elements of an edited sequence; functions that are recursive over numbers | `ByteEdits` |
| `PieceTableProofs` | no array is shared, undo is exact, pieces are ranges of bytes, the table refines `ByteBuffer` | `PieceTable`, `SharedLemmas` |
| `HexEditor` | keys, pointer and rendering over a buffer that others replace | `ByteEdits` |
| `MCHexEditor` | the bytes for TLC | `HexEditor` |
| `HexEditorProofs` | where the caret rests, which byte two digits make, what a key edits | `HexEditor`, `SharedLemmas` |
| `Kinds` | the primitive kinds, their promotion, the integers of each width | |
| `ExprSyntax` | the expression parser | |
| `ExprEngine` | the type the engine gives an expression, the value the evaluator computes | `ExprSyntax`, `Kinds` |
| `GoExpr`, `CExpr` | the type and the value of the Go and of the C an expression is compiled to | `ExprEngine` |
| `ExprPipeline` | one expression, parsed, typed, evaluated and compiled, and the properties | `GoExpr`, `CExpr` |
| `MCExpr` | fields, literals and operators for TLC | `ExprPipeline` |
| `ByteStream` | streams and writers: bytes, terminators, padding, bits | `Kinds` |
| `CodecFormat` | attributes, the items a reader makes of them, repetition, switches | `ByteStream` |
| `EvalReader` | how the viewer reads a format | `CodecFormat` |
| `GoCodec`, `CCodec` | the generated `Read` and `Write` | `CodecFormat` |
| `CodecPipeline` | one format and one file through all of them, and the properties | `EvalReader`, `GoCodec`, `CCodec` |
| `MCCodec` | formats and files for TLC | `CodecPipeline` |

Operators whose comment begins "Faulty variant" change a definition the way a bug would; nothing
but the mutation check of `PROJECT.json` uses them.

### LazyTree

The Go call stack is explicit. Each activation of `Tree.resolve` is a frame with its node, a
program point, the reference its expression has reached and the sum so far; one step is what an
activation does between two calls of another one. The nodes of the frames are `resolvingStack`
(pushed and popped by `resolve`, `resolve.go:27-29`), the frames that are inside an expression
count as `evalDepth`.

| Code | Model |
| --- | --- |
| `Node.state` (`node.go:12-20`) | `state`; `stateSpanResolved` belongs to user types, which are the subject of `SubStreams` |
| `Node.value` | an integer; for a byte field its length; `Null` for a field that its `if:` skipped |
| `startPos`, `span.EndIndex` | `start`, `end`; like the code, `Invalidate` resets both, `MarkDirty` only the span |
| position of the shared stream | `pos` |
| `resolve`: the guards, the error path | `Access`, `Call`, `Cycle`, `Return` |
| `resolveSeqField`: predecessor, `if:`, seek, read | `FindPosition`, `AfterPredecessor`, `SkipCondition`, `FinishCondition`, `ReadByte`, `ReadSized` |
| `resolveInstance`: `if:`, value, siblings, `pos:` | the same condition steps, `ComputeValue`, `EnsureSibling`, `AfterSibling`, `ReadInstance` |
| `evaluateExpr` with `OnResolve` and `LookupChild` | `EvaluateReference` (with `RecordDep`), `ExceedDepth` |
| `SetValue`, `MarkDirty`, `Invalidate` | actions of the same names; `Reached` is the closure that `markDirty` walks |

An expression is a literal natural number plus the values it refers to, each by bare identifier or by member
access: the two ways differ in what a node that is being resolved does (the identifier is
unresolved, the member access reports a cycle) and in that only the member access records a
dependency. Attributes are one byte, a byte field with `size:`, a `value:` instance and an
instance read at `pos:` or at the end of the fields. A read past the end of the input fails.
`edited` is a history variable: the nodes whose value a caller has set.

### SubStreams and SubLayout

A user type with a `size:` is read from a sub-stream, a window of the stream around it, and its
positions count from the start of the window; `streamOffset` says where that is in the root
buffer, so that `ByteRange` can translate. The fields of a struct are nodes that its reading
creates and the next reading replaces (`Build`). Streams are windows of one input: `size` is what
`Size()` answers, `limit` where reading fails, since `io.SectionReader` may promise more than
there is around it. The stack of activations is that of `LazyTree` without its expressions.

| Code | Model |
| --- | --- |
| `NewSubStream`, `Stream.Size`, `ReadBytes` (`stream.go`, runtime library) | `SubStream`, `size`, `CanRead`, `Bytes` |
| `resolveSeqField`, `resolveInstance`, `ensureSeqResolvedAndSeeked` | `FindPosition`, `EnsureSiblings`, `ReadLeaf` |
| `readUserType` and the end of `readSingle` (`readtypes.go:237-243,390-662`) | `EvaluateSize`, `ReadStruct`: a `size:` enters a window, of a seq field without looking whether it is filled, of an instance by copying its bytes; `size-eos:` enters one and does not advance the stream around it |
| `userTypeSpanIsKnown`, `ComputeStructSizeStatic` | the disjuncts of `ReadStruct`, `StaticSize` |
| `fullyResolveUserType` | `Walk` |
| `ByteRange`, `Invalidate`, `SetStream` with `propagateStream` | operators and actions of the same names |

`SubLayout` computes the place of each node from the schema and the bytes alone, in absolute
positions, the way the format is meant; `SubStreams` gets there through windows, lazily and in any
order. A place is a recursive function over the nodes, and `Below` is the least set closed under
parts, so that both can be reasoned about. `Described`, `Fits` and `Orderly` say of which nodes the
schema speaks, what has to be there to read them, and after which failures a position is still the
right one. `reread`, `replaced` and `Counted` name what the properties exempt: windows that are
cut again after `Invalidate`, a root that has another stream, and schemas in which the static size
of a struct leaves a size out.

### RpcService and EvalRpc

`RpcService` has the calls and their outcomes only: `Issue`, `Reply` to the oldest waiting call
with the answer that the files installed last determine, `Fail` of everything that waits, and
`Exit`: the evaluator is gone on a call, whose promise is then never settled, and refuses the later
ones.

In `EvalRpc` the client has its pending map, the state of `readyPromise` and `terminated`; the
worker its phase, its boot queue and the installed files; `inbox`, `outbox` and `errors` are what
is on its way between the two. A parse's answer is the file set it was parsed with, the rest of
its data (root name, bytes, tree) being a function of the request. `boot` is `Register` (its
fetches, the instantiation and the poll succeed), `Drain`, `PostReady`, or `BootFails` at any of
its steps; from `Register` to `PostReady` no message is received, since the code does not await
in between. `Handle` answers a request or lets the Go program exit on it (`exit`). A panic is no
exit: `loadKsys` and `parse` recover it and answer with it (`cmd/zanbato-wasm/main.go`). On what
Go cannot recover from, such as running out of memory, the call under way returns `undefined`, which
`onMessage` has taken off the pending map when it throws on it (`evalClient.ts:110-114`): this one
promise is "lost". Every later call throws in the worker, which answers that it failed. `terminate` may come at any point, also while the worker is draining. `Uncaught` is
an error event of the browser: from a script that does not load (the worker then never runs) or
from an exception nothing catches, after which the worker lives on.

### Workspace

Three kinds of steps take turns as the browser takes them. A *task* is a user's event, a timer, a
message from the worker, a read that has ended, a render that is not due at once. Whatever an
`await` was waiting for continues before the next task: `NewTask` holds only when no generation
is `Runnable`. A user's event is rendered, and its effects run, within its own task (React
flushes discrete events synchronously): `due`. Everything else is rendered in some later task.

| Code | Model |
| --- | --- |
| state of `WorkspaceProvider` (`workspace.tsx:137-190`) | variables of the same names; `version` is `bufferVersion`, the tree a record of what was parsed |
| dependencies of the two effects (`:184`, `:265`) | `Deps`, `EditorDeps`; `mounted` and `mirrored` are those of their last run, which are also what event handlers close over |
| parse effect and its cleanup (`:203-265`) | `ParseEffect`; each run adds a generation to `gens` and cancels the others |
| the async function inside | phases `timer` (`Fire`), `ready` (`AfterReady`), `walk` (`ReadImport`, `SendLoad`), `load` (`SendParse`), `parse` (`ShowResult`); `catch` and `finally` are `Fail` |
| editor mirror (`:164-184`) | `EditorEffect`, `FileRead` |
| `EvalClient` | `Issue`, `Reply`, `Fail` of `RpcService`; `Boot` settles `ready`, calls of a replaced client are `Rejected`; there is no `Exit` (`exit <- 0`) |
| handlers (`:124-129`, `:267-331`) | actions of the same names; `SelectKsy` and `PanelWrite` are those of `ProjectPanel.tsx` |

The files of a project are a function from paths to texts, a text stands for its imports
(resolved paths) and for being valid or not. Both file systems that a user can write to keep
their files in memory, so that a write is over before the next task. `touched` and `origin` are
history variables: another panel has written since the last parse began; the path whose file the
buffer holds.

### PieceTable and ByteBuffer

`ByteBuffer` is a sequence of bytes whose every edit pushes the previous one on the undo stack and
empties the redo stack. `PieceTable` implements it with JavaScript arrays of pieces. Arrays are
objects: `arrays` holds the contents of all that were ever created, `pieces`, `undoStack` and
`redoStack` hold references. An edit copies the table's array for the undo step
(`snapshotPieces`, `pieceTable.ts:314`) and then splices the array itself, so that a reference to
it anywhere else would see its history change; undo and redo exchange references without a copy.

| Code | Model |
| --- | --- |
| `Piece`, its buffer never written after it was made | a record with the bytes of its buffer, offset, length |
| `locate` | `Locate`, which counts pieces from 1 |
| `insertInternal`, `deleteInternal` | `InsertInternal`, `DeleteInternal`: pieces to pieces |
| `insert`, `overwrite`, `delete`, `undo`, `redo` | actions of these names; `bump` is the increment of `version` in `Next` |
| `totalLength`, `sumLengths` | `length`, kept by the edits and recomputed by undo and redo |
| reads (`readByte`, `read`, `toBytes`) | `Bytes` |

A call out of range throws before it changes anything, a call that changes nothing (an empty
insertion, an undo of nothing) returns before `bump`; both are the absence of a step.

### HexEditor

The caret and its anchor are state of the workspace (`hexSelection`), the nibble, the mode and the
drag are state of the component, the bytes belong to neither. A handler closes over what the last
render gave it, `seen`, while its operations apply to the buffer that there is now: a load or a
change of project may lie between. Keys and clicks are rendered before the next event (`due`),
pointer moves and what the workspace does by itself are rendered some time later. `editOps.ts`
yields operations (`Outcome`), `applyEdit` applies them one by one up to the first that throws
(`Applied`), and caret and nibble are set only if none does. A handler that throws on reading the
byte at the caret is not a step (`Readable`).

One assumption is made about the browser: the selection that the effect of a render clamps
(`HexEditor.tsx:101-109`) is rendered before the next event, as React does for effects of
a discrete event; a key in the few milliseconds after a load would otherwise still see the old
caret.

`tree` tells whether a tree is in view. A click in it selects a range of its own that nothing compares
with the buffer (`workspace.tsx:355-369`), up to `MaxIndex`, which lies behind the end of every
buffer of the run. `typed` is a history variable: the digit typed last while
the nibble is low, and where.

### Expressions: ExprSyntax, ExprEngine, GoExpr, CExpr, ExprPipeline

An expression is read by one parser and then goes three ways: the evaluator computes it in
unbounded integers (`big.Int`), the emitters write it in the fixed widths of Go and of C, after
the type that the engine gives each node. What the emitters write is text; the models give the
static type of that text by the rules of its language, and the value it computes.

| Code | Model |
| --- | --- |
| `expr.go`: the climbing loop, unary, postfix, primary, arrays, f-strings | `ParseExpr` and its parts, over tokens; white space and the characters of a number are left out |
| `value.go`, `context.go`: `ResultTypeOfNode` and the symbol tables | `ResultTypeOf`, `SymbolTable`; a type is the `ExprKind` and the kind of its values |
| `evaluate.go`, `builtin.go` | `EvalNode`, with the 0.11 compatibility mode as `compat` |
| `types.Kind`, `Promote` | `Kinds`, with the ranks of its `iota`, to which `Promote` adds |
| `golang/expression.go` | `GoType` (`"none"` where the Go compiler refuses), `GoValue`, `GoInstance` |
| `c/expression.go` | `CType` by C11's conversions, `CValue`, `CInstance` |

A byte has `ByteBits` bits, and the widths of the kinds are multiples of it, so that the
boundaries of `u1` to `u8` are a few values apart. `ExprPipeline` is a state machine only to
enumerate: each step joins one more operator to the expression.

### Readers and writers: ByteStream, CodecFormat, EvalReader, GoCodec, CCodec, CodecPipeline

A format is a sequence of attributes, a record each with the keys that `ParseAttrType` collects.
An object read is a cell per attribute, a cell the items of its repetition, and an item its value
with what the generated code keeps beside it (`_raw_`, `_raw_tail_`, the bits that complete a run
of bit fields): that is what lets a writer give back what the value has lost.

| Code | Model |
| --- | --- |
| `zb_stream_t`, `zb_writer_t` and their functions (`zanbato.h`) | `ByteStream`: position, bits pending, the reads and writes; the Go runtime, which is not in the repository, is taken to do the same |
| `types.TypeRef`, `Attr` | the record `Attr0` |
| `readRepeated`, `emitRepeatRead` and the loops of `emitAttrRead` | `ReadRepeated` |
| `resolveSeqField`, `readSingle`, `readUserType`, `readTypeSwitch`, `handleBitTransition` | `EvalField`, `EvalSingle`, `EvalUser`, `EvalCase`, `EvalAt` |
| `emitReadFunc`, `emitAttrRead`, `emitUserTypeRead`, `emitTypeSwitchRead` (Go) | `GoFields`, `GoField`, `GoUser`, `GoSwitch`: what the emitted text does |
| `emitWriteFunc`, `writePrimitive`, `writeUserTypeSingle`, `emitTypeSwitchWrite` (Go) | `GoWriteFields`, `GoWritePrimitive`, `GoWriteUser`, `GoWriteSwitch` |
| the functions of the same purpose in `emitter/c` | the operators with a `C` for the `Go` |
| `emitProcess`, `emitUnprocess`, `applyProcess` | `GoProcessed`, `GoUnprocessed` and their counterparts: xor with one key, rotation |

Each of the three is translated from its own code, at the order in which that code cuts, strips
and processes, so that they differ wherever the code does. Sizes, counts, conditions and the
values switched on are constants of the attribute: what they are computed from is the matter of
`ExprPipeline` and `LazyTree`.

## Runs

| Run | Bounds | Shows |
| --- | --- | --- |
| `lazy_read` | a struct of three fields and two instances; 387 schemas that combine sizes, conditions, positions and values referring to each other by identifier and by member, cyclic ones included; inputs with 12 bytes, with 2, and with a 0 that makes conditions false; depth limit 3 | reading |
| `lazy_edit` | the same struct, schemas with member accesses only, in some of which a plain field follows one whose size is edited; `SetValue` to 0 or 2 and `MarkDirty` on a field and an instance, `Invalidate` of the tree; depth limit 2 | editing |
| `sub_read` | a root with a length byte, a struct of a byte, a nested field and an instance, another byte, and a struct at a position; 32 combinations of their sizes and inputs that are long enough, too short, or make a window empty; `Invalidate` of the root and of the nested field, one other input; windows may drift to offset 3 | sub-streams |
| `eval_rpc` | four calls, two file sets, one worker error, an exit of the Go program on any call | the RPC |
| `workspace` | two projects with a schema and a library, which import the library, one of them without it; one more text, which is no schema; two contents of the buffer; two events or faults from start-up on | the workspace |
| `piece_table` | three different bytes to begin with; insertions and overwritings of one or two other bytes, deletions, undos and redos, anywhere; four of them | the buffer |
| `hex_editor` | digits to base 2, two columns, one of the four bytes printable; three bytes to begin with, loads of one and of four; nodes of the tree with ranges up to offset 5; six events | the hex editor |
| `expr` | bytes of one bit; a field of each of `u1`, `u4le`, `s4be`, `u8` and of bytes, literals 0, 3 and 9 (more than a C `int` holds), a boolean and an array; up to two operators, the second also beside `d.max < 3`, which C computes ahead; shifts by up to 12; three environments; both compatibility modes | expressions |
| `codec` | bytes of three bits, of which 0 terminates, 1 pads and 5 is neither; files of up to three bytes; every attribute of `MCCodec` alone, or followed by two bits or by the bytes left; xor by 1, rotation by one bit | readers and writers |
| `lazy_ident`, `lazy_position`, `lazy_footer` | the schemas that exhibit each finding | the findings below |

Three fields are enough for a field to have a predecessor and a successor besides itself, two
instances for a chain and for a cycle that contains no field. Nothing bounds the number of
accesses and edits: the state space is finite because values are. Four calls allow a load and a
parse on both sides of a boot, an error or a termination. One worker error is enough for one
before and one after any other step; more of them only repeat its effect. In `workspace` two
events make three generations with the one that start-up begins, each at any phase of the others;
an event in the middle of what another one began is where the hazards are. Event and fault share
the bound: a generation that fails while another one is under way needs one of each.

In `sub_read` two levels of windows are enough for an offset to be added, inherited and
corrected once more; `MaxOffset` bounds how often a window is cut out of itself by `Invalidate` and
another reading, which would go on for ever.

Two edits make every shape an edit can meet: a table of four pieces one byte long, of which a third
edit can split, join or remove any; the fourth step is then an undo or an edit of that result, and
two edits with an undo and another edit make a splice of an array that a stack has held. Six
events are a pair of digits with a replacement of the buffer, a render and a movement between.
Base 2 keeps the number of contents small; two columns are enough for a row and the one below it.

Two operators are enough for an operand of each kind on each side of each operator, for every
pair of precedences, and for a promoted result to be promoted again. Three bytes are enough for a
sized attribute of two bytes to have a byte after it or to be cut by the end, for a terminator to
be first, last, twice or missing, and for a bit field to begin in each bit of a byte; the second
attribute is what an attribute that ends at the wrong byte, or with the wrong bits pending, makes
read wrong. A byte of three bits holds a terminator, a padding byte and values that are neither.

What the properties say, beyond their types:

* `StackDiscipline`: no node is resolved re-entrantly, the cycle sentinel stays on no path, and
  once cycle detection has marked a node of the stack everything above it is bound to fail.
* `AnswersAreStable`: while a resolution runs, no value, span or error already given changes.
* `Layout`: each field starts where the one before it ends and an instance without `pos:` is read
  at the end of the fields, whatever was accessed in which order.
* `NoSpuriousError`: without cyclic reads and with references nested no deeper than the limit, a node
  that has failed has a reason of its own (the input ends, a field it refers to was skipped) or reads
  a node that has failed: no order of access makes a cycle or a depth of it.
* `ReferencesFollowEdits` (of `lazy_edit`): a resolved node has the value and the length that its
  attribute makes of the present values of the nodes it refers to, edits included, and of the bytes
  at the position where it was read. That this is still the position where it belongs is not
  claimed, and not so: see `lazy_position`.
* `EdgesMirror`, `NoStaleDependent`: the edges mirror each other, and no resolved node has a
  recorded dependency that is not resolved.
* `UnrelatedStayIntact`: an edit dirties nothing that does not refer to the edited node.
* `Terminates`: resolution ends, on cyclic schemas too.
* `OffsetIsOrigin`: the offset of every node is the origin of its stream, also of streams that an
  `Invalidate` or `SetStream` has left in place.
* `ReadsAsDescribed`, `RangesInBuffer`: a field has the bytes that the schema describes, inside of
  every struct around it, and `ByteRange` points at them; nothing fails when everything fits. A
  node placed after a failed one is exempt, and so are re-read windows, structs whose static size
  leaves a size out, and, of the ranges, user types with a size: see the findings.
* `NoLostPromise`, `CallsInOrder`, `Implements`, `CallsSettle`, `ReadySettles`: no call is
  forgotten, overtaken, answered twice or answered from the wrong files, except that the one the Go
  program exits on is lost; every other call is settled
  unless the client has already been told that the worker failed; `ready()` is settled unless the
  client was terminated.
* `ShowsPresent`: at rest the panel shows the parse of the files on disk, the schema selected and
  the bytes in the buffer, or the error of such a parse; files that another panel has written
  since are exempt, see the findings.
* `NoStaleResult`, `OwnFiles`: no result of an older selection, project or text appears, not even
  for a moment, and a parse uses the files that its own generation has loaded, although
  generations share one worker that holds one set of files.
* `LoadingIsTrue`, `LoadingEnds`: the flag tells whether a result is still to come, and it comes.
* `MarkedIsLoaded`: path and bytes of the open binary belong together whatever reads overlap.
* `HistoryKept`: what an undo step will restore stays as it is while it is on the stack.
  `Implements` of `PieceTable`: the table shows the bytes of `ByteBuffer`, and so does every step
  on its stacks.
* `CaretInBuffer`: once rendered, caret and anchor are inside the buffer or at its end, whoever
  set them and however the buffer was replaced.
* `PairMakesByte`: when a second digit comes, the first is the high digit of the byte at the
  caret. Loads, new projects and clicks in the tree are exempt: they move the caret and leave the
  nibble low (`workspace.tsx` cannot reach it), so that the next digit is taken for a second one.
* `EditsWhereSeen`: a key changes the selection or the byte at the caret that were rendered,
  nothing before or after, and the caret goes along.

* `ParserInverts`: the parser gives back the tree of every expression written with no more
  parentheses than precedence and left association call for.
* `TypeTellsValue`: the engine's type of an expression tells the kind of every value that the
  evaluator gives it. The emitters have nothing but that type.
* `GoCompiles`: Go accepts what is written for an expression over fields and literals, unless it
  holds a constant that Go refuses (`RefusedConstant`).
* `GoComputes`, `CComputes`: where nothing overflows, the compiled expression has the value the
  viewer shows; the Go also fails where the viewer does. Of the C something is claimed only where
  it is defined (`DefinedInC`): the viewer shows a value, and a `min` or `max` that is computed ahead
  of the expression has a byte to begin with. `Representable` says what overflow is; `Mistyped`, `Uniform`, `IntQuotient` and
  `KeptByC` name the forms for which the property fails, see the findings.
* `GoReadsAsViewer`, `CReadsAsViewer`: a generated reader accepts exactly the files that the viewer
  shows without an error and that satisfy `valid:` and `contents:`, and reads the same values.
* `GoRewrites`, `CRewrites`: what was read and not edited is written back byte for byte, stripped
  terminators and padding, processed bytes, bytes no field covers and spare bits included.
  `Regular`, `AsViewer`, `GoSound`, `GoAsViewer`, `CAsViewer`, `GoRestores`, `GoKeeps`,
  `CRestores` and `CKeeps` name the attributes and files for which these fail, see the findings.

`CHECK_DEADLOCK FALSE` in every configuration: the tree may be completely resolved, all calls
may be made and settled; edits, events, expressions and files are bounded.

### Fairness

`LazyTree` has weak fairness of `Resolve`: a resolution is one synchronous call, nothing stops it
half-way. Callers need no fairness, nobody has to ask. `EvalRpc` has weak fairness of message and
error delivery (the event loops run on), of `Boot` (its poll is bounded to 1000 ticks and its
fetches are assumed to end) and of `Serve` (the evaluator returns from each request, which is
what `Terminates` says of the tree). No fairness of calls, termination, or worker errors.
`Workspace` has weak fairness of `Callback`: renders, timers, reads, boot and answers come about,
what awaits them goes on. Answers and boot of the client are what `CallsSettle` and `ReadySettles`
of `EvalRpc` say. No fairness of events or faults. `PieceTable`, `HexEditor`,
`ExprPipeline` and `CodecPipeline` promise nothing that must happen.

## Findings

* `lazy_ident` - a node referred to by its bare name records no dependency: the identifier is
  resolved by `OnResolve` (`bridge.go:116-150`), while only `LookupChild` and `LookupIndex` call
  `recordDep`. After `SetValue` on `len`, a field with `size: len` keeps its old value, although
  `node.go:218` promises to dirty "every node that depended on it during prior resolution".
* `lazy_footer` - if the size of `b` is an instance at a literal position, resolving the instance
  resolves the field after `b` first, which asks for the position of `b`, which is being
  resolved: "cycle detected", for good, although `resolve.go:320` skips such children "to avoid
  cycling back".
* `lazy_position` - a field starts where the field before it ended when it was read
  (`resolve.go:90-96`), and no edge records that. With `fa` a byte, `fb` of size `fa` and `fc` a byte, a
  `SetValue` on `fa` dirties `fb`, which is then read with another length, while `fc` stays resolved
  at its old place, although `MarkDirty` is to reach "the set of nodes whose previous resolution
  consulted this one" (`node.go:207-209`) and `SetValue` "every node that depended on it" (`:218`).

Other divergences were met while modelling. They have no run of their own; the models do what the
code does, and the properties leave the cases out, each by a condition that is named.

**Lazy tree.** A field whose predecessor failed fails with it, but the next time another field
asks, the failed predecessor's empty span is taken for a position (`pred.state <
stateSpanResolved` is false for `stateError`), so that fields after a truncated one are read,
contrary to `eval_test.go:189-195`; `Layout` asks for a resolved predecessor. `Invalidate` of one
node forgets its edges on its side only (`node.go:194`), which is why the theorems on edges assume
callers that invalidate the whole tree. `SetValue` on a node never resolved leaves it without a
position (`node.go:241`). `Context.WithTemporary` drops `index` (`context.go:1086`).

**Sub-streams.** `ByteRange` "returns the byte offset range [start, end) this field occupies in the
root buffer's coordinate system" (`node.go:161-164`), but the span of a user type with a size is
recorded in the coordinates of the stream around it (`readtypes.go:241`) after `streamOffset`
has moved into the window (`:487`, `:621`): a struct of n bytes at p has the range [2p, 2p + n),
which `RangesInBuffer` leaves out. `readUserType` replaces the
stream of a node by its own window (`readtypes.go:620`) and `Invalidate` does not put it back, so
that after "re-evaluation" (`node.go:184-185`) a sized struct is read from a window of its window;
`SetStream` assigns the root's stream before `propagateStream` compares it with the children's
(`tree.go:145-148`), so that none of them gets the new one; a `size-eos` struct leaves the stream
around it where it began (`readtypes.go:558-567`, against the comment at `:667-675`), so that its
own range is empty. `ComputeStructSizeStatic` is to return -1 "if the size cannot be determined
statically" (`sizeof.go:11-12`), but it counts a user type that is declared inside as its fields,
whatever its `size:` (`:58-62`): a struct of a byte and a one-byte type with `size: 2` ends after two
bytes, and the field after it is read one byte early (`readtypes.go:691`). `Counted` leaves the
schemas with such a field out.

`lazy_ident` is why the schemas of `lazy_edit` use member accesses.

**Workspace.** The editor's text is "Mirrored from the VFS" (`workspace.tsx:34-36`), but its effect
does not subscribe to the file system: a file that is open while the project panel overwrites,
creates or deletes it keeps its old text in the editor; and a read under way that ends after the
first key stroke replaces what was typed. `Workspace` takes that the Go program does not exit: where it
does, `loading` stays set, the promise being lost (see `EvalRpc`).

**Expressions** (`Mistyped`, `Uniform`, `IntQuotient`, `Representable`, `KeptByC`). The evaluator
divides with `big.Int`'s `Div` and `Mod`, which are Euclidean, for a "floor" (`evaluate.go:648-656`)
that Go and C do write: they differ for a negative divisor. The subscript of a bytes attribute
is typed as bytes. A method as the left operand of another kind gets no type. In Go,
`(s4a / s4b) - s4c` does not compile, a quotient being an `int`; nor do constant expressions
beyond `int64`, nor a shift by a constant below zero (`s << -(3)`, `s << ~3`,
`golang/expression.go:801-804`), where the evaluator shifts by the magnitude. `first` and `last` of an
empty array or byte string are nil to the evaluator, which panics on it (`builtin.go:238-256`,
`evaluate.go:31`), so that the whole parse fails instead of the one node (`zanbato-wasm/main.go:72`);
the generated Go method recovers (`golang/emitter.go:2551`). The C does not check subscripts,
`first`, `last`, `min` and `max` (`c/expression.go:467-472, 506-508, 530-531, 575-578`): out of range
it is undefined, and since `min` and `max` are computed ahead of the expression, also where the
viewer would not have needed them (`false and d.max < 3`). `.size` gets no promotion. Arithmetic of one kind wraps in the width of
that kind, and `u8` beside a signed kind is promoted to `s8`. In C, comparisons are not widened as
arithmetic is, `-x` of an unsigned field is declared unsigned, a conditional has the type of its
first branch, a `u8` from 2^63 on is stored in an `int64_t`. The 0.11 mode truncates every binary
result in the evaluator, some of them in Go and C.

**Readings** (`Regular`, `AsViewer`, `GoSound`, `GoAsViewer`, `CAsViewer`).
* `eos-error` of a user type defaults to an error in the viewer and to none in the emitters
  (`readtypes.go:504`, `golang/emitter.go:792`, `c/emitter.go:1571`); the schema of KSY says true.
* The viewer aligns to a byte between the elements of repeated bit fields, leaves the stream in
  front of a `size-eos` object, does not advance a sized switch past its size unless the case is an
  object, and shows what there is of an object that the file cuts.
* Go: a sized object with both a terminator and padding is not stripped of the padding if the
  terminator is absent (`golang/emitter.go:867-894` is not reached); elements of a repeat-until are
  not processed; a repeat-until of a switch reads nothing; only the last element of a repetition
  is validated, and an empty one panics; conditional bit fields break the alignment of a run;
  a repeated sized object with terminator or padding does not compile, nor does a repeated
  processed one with a terminator (`golang/emitter.go:825,849,1987-1996`).
* C: a string with a terminator and `size-eos` ends at the terminator; repeated bytes to the end and
  repeated objects are not stripped, and with a terminator not processed; a switch whose cases have one
  type is read without looking at the value; a repeated `contents:` with `until` stops after one.

**Writing back** (`GoRestores`, `GoKeeps`, `CRestores`, `CKeeps`).
* Go: a terminated and processed value loses its terminator; bytes in a size, or to the end, gain a
  terminator if there was none and lose one that stands alone (`golang/emit_write.go:246`); a `size-eos`
  object is read raw but unprocessed when written; bytes an object leaves unread are lost unless its
  size's bytes are kept; a repeated field of one bit is written big-endian; an unmatched element
  of a switch without a size shifts the indices after it.
* C: what is stripped at the end of the file is lost; a terminator is written over a byte where there was
  none; bits pending at the end of an object's buffer are dropped (`zb_writer_bytes`), as are those
  of a run with a conditional or repeated field; a switch of one type loses its size; a repeated
  sized object written with `include` ignores it (`c/emit_write.go:506`); `zb_write_bits_le` of
  more than 64 bits with those pending loses the top ones (`zanbato.h:1155`), which no
  attribute of the run is wide enough for. Bits pending stay behind bytes written within a limit
  (`zb_write_bytes_limit`, `zanbato.h:1088-1112`, does not align) and across a terminated read at the
  end of the stream (`:845-850`); no case that the properties cover meets either with bits pending.

## Theorems

Proved for every value of the constants: any struct, any schemas and inputs, any depth limit;
any file sets, any number of calls and of worker errors; any bytes, projects and binaries. The only
assumptions are the named `ASSUME`s of `LazyTree`, `SubStreams`, `SubLayout`, `EvalRpc`, `PieceTable`,
`HexEditor` and `Workspace`, which say what the constants are, and those on `Invalidatable` and
`Dirtiable` below. Four of them say more than a type: that the markers of `Workspace` (no error, no
text, ...) are not data; `ProjectsAssumption`, that a project is not created with a binary open
(`currentBinaryPath` is null in `App.tsx:80` and `githubProject.ts:89`); `TreeIsFinite`, that the nodes
form a finite tree under the root, in which a field has one place; and `SchemasAreReadable`, that a
size is known when it is needed: it is that of a byte field of a struct around, read before the
field, and what takes the rest of a stream is the last in it.

* `LazyTreeProofs!TypeCorrect`, `StackSafe`, `AnswersKept`. `StackDiscipline` is its own
  inductive invariant because it is stated with two conjuncts nobody would ask for: each
  activation waits for the one above it (`CallChain`), and once one of the stack is marked by
  cycle detection the top one waits for a failed node (`FailurePropagates`). Without the second,
  a marked node could be overwritten by the "resolved" of its own activation, which is what
  `AnswersAreStable` excludes.
* `LazyTreeProofs!LayoutHolds`, when nothing is edited (`Dirtiable = {}`, which is the situation the
  property is about) and only the whole tree is invalidated. `Layout` speaks of an idle tree; the
  invariant `LayoutInv` says what the activations on the way there have established: program points
  belong to the kinds of attribute they are for (`KindFits`); who has asked the field before it has
  its answer (`Answered`); a field that has passed its first point starts where the one before it
  ended (`InSequence`); an instance that has sought the end of the fields still has the stream
  there when it reads (`AfterFields`). The last one takes that the fields are read by then, although
  `ensureSeqResolvedAndSeeked` skips fields that are being resolved: the stack is a path in the graph
  of reads (`WaitsRead`), so that a field being resolved below such an instance closes a cycle
  (`NoneBelow`), which `Acyclic` excludes. The schemas are those the parser builds: a field occurs once
  in `seq` and is of a kind read in sequence (`Schema`).
* `LazyTreeProofs!ErrorsHaveCauses`, for the same callers. A node fails in the step in which its activation
  returns (`NewlyFailed`). `NoneBelow` excludes that it finds what it needs on the stack; that it finds
  the evaluation too deep is excluded by a rank of the nodes, which exists where references are
  not nested deeper than `MaxEvalDepth` (`Shallow`) and falls along the stack below each activation that
  evaluates, so that those are no more than the ranks (`DepthBound`). What remains is a cause, read
  off the sums that the activations have added up (`InProgress`, which makes the length of the read
  that failed the sum of the size's references), and a cause lasts, as no answer is taken back
  (`CauseKept`). The error of a node of the stack would have no cause yet; there is none (`Sound`).
* `LazyTreeDirtyProofs!EdgesMirrored`, `NoDependentMissed`, for callers that invalidate the whole
  tree only (`Invalidatable \subseteq {Root}`): a node's own `Invalidate` forgets edges on one
  side. The invariant adds `DepsSettled`: while a resolution runs, the dependencies recorded by a
  node of the stack are resolved or are what it waits for.
* `LazyTreeDirtyProofs!UnrelatedKept`, for the same callers. `DepsNamed` says that a node has edges
  to what its expressions name only, and to what its `if:` names only where that was false, so that
  a dependency is one that was consulted. What `markDirty` reaches without starting from it depends on
  something else that it reaches (`ReachedBy`): otherwise what it reaches would be closed without it.
* `LazyTreeDirtyProofs!ReferencesFollowed`, for the same callers and schemas whose references are all member
  accesses (`MembersOnly`): a bare identifier leaves no edge, which is what `lazy_ident` shows. The
  theorem says what the edges are for: the cached value of a node that no caller stored is what its
  attribute makes of the present values of its references and of the bytes at its position,
  however reads, edits and invalidations were mixed. A resolution from scratch might read
  elsewhere, since a position leaves no edge either (`lazy_position`). The invariant
  `FollowInv` has two parts. A resolved node was skipped by an `if:` whose value, of references that
  are resolved now and have edges, is 0, or is filled with what its kind makes of its expression
  and of the bytes (`Follows`). An activation has added up the values of the references it is past
  (`PartWay`), and is past an `if:` that held (`Passed`). Both last as long as the node's
  dependencies do (`Steady`): resolving takes back no answer (`AnswersAreStable`) and no edge, and an
  edit that touches a dependency has the node among its dependents, by `EdgesMirror`, and clears it.
  An expression has any number of references; its value is a recursive function (`Sums`), whose
  equations come from `SharedLemmas`, as those of the piece table do.
* `SubStreamsProofs!OffsetsAreOrigins`. The inductive invariant `OriginInv` adds that the stack
  holds nodes, each at a point of its own function (a field of the seq looks for its predecessor,
  which is then a node), and that the root never moves, so that `SetStream` may replace its
  stream and keep its offset.
* `SubStreamsProofs!ReadsRight`, `RangesRight`: what lazy reading through windows finds is what the
  schema says in absolute positions. The proof has four parts.
  First, the layout is well defined (`PlacesAreDefined`). A quantity (where a node begins, how long it
  is, where its stream begins, ends and gives out) is determined by others, and no quantity rests on
  itself: those of a field come after those of the fields before it and before each struct around
  it, an instance's after those of the fields of all structs around it, the length of a struct whose
  end is that of its last field after those of its fields. `Span` is the set of what comes before a
  quantity; it is finite and grows along this order, so the equations have a solution
  (`SharedLemmas!RankedRecursion`). The same lemma gives the static sizes their equations, from which
  `StaticExtent`: a static size is the size, in schemas that are `Counted`.
  Second, which nodes fail. `Ok` is the largest set of fields that fit and whose reading rests on
  fields of the set alone; the invariant says that a field that was read is in `Ok` and one that
  has failed is not. The position of a node is that of the schema only where nothing it rests on
  fails (`Clean`); such a node, if no window around it was cut again, is `Here`.
  Third, the invariant `SteadyInv`, which TLC found to hold for the schemas of `sub_read` too. `StackInv`: no node is on
  the stack twice or above a struct in it that is being resolved, each activation waits for what
  its program point may call, and a walk through a struct calls nothing that comes after it.
  `StateInv`: what is being resolved is on the stack, and the nodes of a struct are there once it
  was read. `NodeInv`: a node that is `Here` has the window of the struct around it as its stream,
  or its own once its parts are there, and has read from where the schema puts it, as much as the
  schema gives it (`NodeOK`). `ReadInv`: an activation about to read stands at the right position.
  The hardest steps are those in which the end of a struct is taken: from its last field
  (`WalkedExtent`), from its size (`SizedOK`), or from its static size (`PlainOK`).
  Fourth, what the properties ask of a node that was read in order (`Orderly`) follows: then what it
  rests on was read, hence is in `Ok`, hence the node is `Clean` (`OrderlyClean`).
* `EvalRpcProofs!TypeCorrect`, `PromisesKept`, `InOrder`, `ImplementsService`. The inductive
  invariant adds what is in the mail: which kinds of message each phase can have posted
  (`Mailbox`), that responses travel in the order of their ids and below the calls still queued
  (`Ordered`), that each carries the answer `RpcService` prescribes while the worker's files
  are those the next call must find (`Correct`), that only the call the Go program exited on is
  answered with nothing (`LostAtExit`), and that this call and those answered are behind what is
  still on its way (`Behind`). From it, a response that settles a call settles
  the oldest one: `ImplementsService` maps it to `Reply`, a boot error, an error event and
  `terminate` to `Fail`, a call to `Issue`, everything else to a stutter.
* `PieceTableProofs!NothingShared`, `UndoIsExact`, for any bytes and any number of edits. The
  inductive invariant `References` says that references lead to arrays and that no two of the
  table, the undo and the redo stack are the same one (`Unshared`, a conjunct of `TypeOK`): an
  edit pushes an array that it has just created, an undo takes one reference from a stack and
  leaves its own on the other. What is in the pieces does not matter to it.
* `PieceTableProofs!TypeCorrect`, `ImplementsBuffer`. The invariant `Inv` adds to `References` that all
  arrays, those of the history too, consist of pieces that are ranges of bytes and not empty
  (`PieceSet`), and that the cached length is the sum of the table's. `Bytes` and `Ends` are
  recursive functions over the pieces; that they exist and are determined by their equations is
  an induction over numbers, done with sets (`SharedLemmas!NatSets`, from the least element a set
  lacks; `Recursion`, `RecursionOnce`). From there: what pieces show in turn is a concatenation
  (`BytesJoined`); `Locate` finds the piece that holds an offset (`Located`), which takes that no
  piece is empty; the parts of a split piece show the parts of what it shows (`Parts`). So
  `InsertInternal` and `DeleteInternal` show the bytes inserted into and deleted from
  (`InsertShows`, `DeleteShows`), and an overwrite, which the code does as a deletion cut off at
  the end and an insertion, what the buffer has overwritten. The stacks map to what their arrays
  show: `UndoIsExact` is why an edit leaves them alone but for the copy it pushes (`EditMaps`),
  while undo and redo move what is shown from one to the other (`ExchangeMaps`).
* `HexEditorProofs!CaretComesToRest`, `TwoDigitsOneByte`, `KeysEditWhereSeen`, for any bytes, any base,
  any loads and changes of project in between. The invariant `IInv` adds to the types that the
  selection last rendered lies in the length last rendered (`SeenInside`), though perhaps not in
  the buffer, which a load may have shortened since; and that while a second digit is awaited
  the byte where the first was typed still has it on top and the anchor is still there
  (`HighDigit`). The splices of the code are rewritten into pointwise statements about bytes by
  the lemmas of `SharedLemmas`.
* `WorkspaceProofs!RestShowsPresent`, `LoadingFlag`, `ParsesItsOwn`, `ResultsAreCurrent`, `MarkIsTrue`.
  The invariant `IInv` follows a run of the parse effect from its start to its result. At most one
  is not cancelled, and there is one exactly while loading (`OneCurrent`). What it parses is
  what was last rendered, and no other run has called the evaluator since it sent its files
  (`CurrentIsOwn`). Unless an event or a text not yet rendered has changed the disk, what it has
  collected is on disk, and the files reached but not collected are on its list or missing
  (`WalksPresent`). A call's outcome is what `RpcService` prescribes, or a failure if there has
  been one (`Answers`); counters only grow (`Since`). `Settled` is `ShowsPresent` as it can be
  kept: from the moment the last run is done or cancelled, also while the effect is due again or
  a newer binary has come (`mounted.version`), in which case the bytes may be older ones.

Liveness (`Terminates`, `CallsSettle`, `ReadySettles`, `LoadingEnds`) is out of the prover's reach
and model-checked only. Safety that is model-checked only: the properties of `ExprPipeline` and
`CodecPipeline`, which are about functions that are recursive over the expression and over the
format, declared `RECURSIVE`, and so beyond what the prover can do by
induction: that takes recursive functions over numbers, as in the piece table.

## Not modelled, and the plan

In this order:

1. `OverlayVFS` against one file map; the import graph against the Go resolver.
2. Arrays and type switches of the lazy tree as nodes of their own (`EvalReader` reads them in order
   only), and their edges.
3. In the codec: instances, which the emitters read on demand and write at a position; sizes and counts
   that refer to other fields, and what an edited value does to them.

Theorems to come: the promotion of `Kinds`.

Not modelled of the modelled parts: in the engine floats, enums, parameters, scopes, `_sizeof` and
string encodings; in the emitters names, imports, the division into files, debug positions,
enums, `params:`, `parent:`, `io:`, opaque types, endian switches, multi-byte terminators,
encodings, zlib and custom processing, and the tests that `kst` emits; in the C runtime the
arena, files, floats, encodings and zlib.

Not modelled at all: the translation of YAML to structures, which is stateless and checked by the
upstream conformance suite; the Wireshark emitter, which is marked experimental; the command-line
tools, which handle arguments; the panels, which render what the workspace holds; `github.ts`, which
is remote I/O.
