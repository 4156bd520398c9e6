# libddwaf-java: a TLA+ model of the Java/native boundary

libddwaf-java wraps libddwaf, a C++ web application firewall engine, for the
JVM. The engine copies nothing: Java values are laid out in off-heap buffers in
libddwaf's own format, and the engine keeps pointers into those buffers. Most of
what can go wrong is therefore about memory that two worlds share: who may write
to a buffer, how long it has to stay, who frees it, and what a thread may do
while another one closes the object it works on. That is what these modules are
about. libddwaf itself is a submodule and external: it is modelled by what the
code here relies on.

Source paths below are relative to `src/main/`; `BBS` is
`java/com/datadog/ddwaf/ByteBufferSerializer.java`.

## Inventory

| Component | State | Operations | Hard because |
|---|---|---|---|
| Arena pool and leases (`BBS` 439-484) | deque of free arenas; per lease its arena and `closeCalled` | `getLease`, `serializeMore`, `close` | shared by all threads; leases are unsynchronized; arenas are freed by the collector |
| Arena (`BBS` 288-437, 486-585, 743-790) | segments of slots and of string bytes, current segment, recycled array objects | allocate slots, write a string, `reset` | recycled memory and objects; boundaries of segments |
| Serializer (`BBS` 68-286, 609-723) | recursion, remaining elements, metrics | `serializeMore`, `doSerialize` | three limits that interact; stale slots; containers changed by the application meanwhile |
| WAF context (`WafContext.java`, `waf_jni.c` 422-608) | `online`, native pointer, lease, monitor | constructor, `run`, `runEphemeral`, `close` | runs against close against the collector; failure at every step |
| WAF handle (`WafHandle.java`) | `online`, native pointer, read-write lock | `getKnownAddresses`, `getKnownActions`, `close` | readers against close; a third, unlocked user |
| WAF builder (`WafBuilder.java`, `waf_jni.c` 909-1091) | `online`, native pointer; libddwaf's configurations | `addOrUpdateConfig`, `removeConfig`, `buildWafHandleInstance`, `close` | failures after the native side has changed; conversion of paths |
| Native methods, run budget, results (`waf_jni.c` 445-575, 965-1077, 1872-2243, `metrics.c`) | none beyond a call | `initBuilder`, `addOrUpdateConfig`, `buildInstance`, `runWafContext`: budget arithmetic, return codes to exceptions, metrics | every JNI call may throw; logging, wrapping and metrics fail on top of it; clamping at zero |
| UTF conversion (`utf16_utf8.c`) | none | UTF-16 to UTF-8 and back | surrogates, truncation, malformed input |
| Native initialization (`waf_jni.c` 193-289, 610-871, 1093-1385; `Waf.java`) | `_init_ok`, cached global references | `JNI_OnLoad`, `deinitialize`, `JNI_OnUnload` | partial failure; races with running calls |
| Conversion of configurations (`waf_jni.c` 1387-1839, `cs_wrapper.c`) | recursion, limits | `_convert_checked` | error paths half way through a tree |
| Diagnostics and results to Java (`output.c`, `json.h`, `base64.c`) | list of JSON segments, zlib stream, encoder state | objects to Java objects, to JSON, to compressed base64 | sizes computed apart from what is written; buffers that grow; characters cut by segments |
| Logging (`logging.c`, `logging/`) | cached references | forwarding to slf4j | calls back into Java with exceptions pending |
| Leak detection (`LeakDetection.java`) | set of unclosed references, reference queue | register, `notifyClose`, the watching thread | depends on when the collector acts |

How they interact: `WafBuilder` makes `WafHandle`s; a `WafContext` is created
from a handle; it keeps a reference to it (`wafHandle`) that no method uses
again, and whatever the native context took from the `ddwaf_handle`. Every context
holds one lease for as long as it lives (its *persistent* data accumulate in
that arena) and takes a second one for the time of a run with *ephemeral* data.
Leases come from the one arena pool of the process. The serializer writes into
the arena of a lease; `run` hands the address of the root slot to `ddwaf_run`.

What makes each correct is stated by the properties listed under *Runs*; what
is hard to test is listed under "hazards" in `PROJECT.json`, each with the
properties that would catch it.

## Modules

`ExclusivePool` is the abstract promise of the pool: a resource is free or has
one owner, moves between owners only through the pool, and is destroyed only if
its owner dropped it.

`ArenaPool` is the pool with its leases. `lease[h]` is the arena of the
`ArenaLease` object that holder `h` (a field or a local variable) refers to.
Actions: `GetLease` (`pollFirst` or `new Arena()`), `SerializeMore`,
`BeginClose`/`EndClose` (`close()` is two steps because `reset()` comes before
`addFirst()`), `Forget` and `CollectArena` (the collector). `BeginClose` is the
test of `closeCalled` and then `MarkClosed` (set it, reset the arena): in `PoolNext`
they are one step. `ArenaLease` is not synchronized and does not check for use
after close, so `PoolNext` states the contract its callers keep: no two threads
close one lease at a time.

`WafContext` extends `ArenaPool` with threads and contexts. `pc[t]` says where a
thread is in the constructor, `run` or `close`; each action is one step of the
Java method, or of its native half, between two points where another thread, the
collector or an exception can intervene. The monitor of a context is held over
the whole of `run` and `close`, as in the code. `close` tests and sets
`closeCalled` of its lease in two steps (`CloseTest`, `CloseLease`), so what keeps two
threads from passing the test together is the monitor and the state of the
context, and not the model. `clearWafContext()` may throw (`ClearThrows`); the
`finally` behind it closes the lease all the same. A lease is closed at most once
by this layer, so that the test is needed for a repeated `close()` shows only in
`ArenaPool`. `KeepsAlive(t)` is the effect of
the volatile writes to `leaseFenceSink`: until then the collector must not treat
the leases of a running call as unreachable. `refs[c]` are the arenas the native
context points into. A call that throws from `checkOnline()` changes nothing and
is a stuttering step; so is a constructor in which `ddwaf_context_init` fails. The
native context of an object that is never closed, or whose constructor ran out
of memory, leaks in the code; the model takes it out of `native` because nothing
can run or destroy it any more.

`Arena` is the bump allocator inside one arena. A region is a list of segments
with capacities, positions and the current one; `views` and `nextView` are the
recycled `PWArgsArrayBuffer`s. `Takes(r, n, k)` describes the result of the loops
of `allocatePWArgsBuffer` and `writeStringUnlimited`: the segment where they
stop. Slots are units, not 40 bytes.

`Serializer` extends `Arena` with `doSerialize` as a stack machine, and with the
contents of slots and string bytes, which survive `reset()` as they do in the
code. A call is `Enter` (limits, name) and then the write of its value; a
container pushes a loop. `claimed` is what `size()` said, or how often the
`hasNext()` of the first pass over an `Iterable` answers yes (for ever, if it is
beyond `MaxInt`); `items` is what the iterator of the second pass yields: they
may differ. The first pass is a loop of steps of its own (`CountElement`), which
ends at the elements left. The values inside `Throwing` are of classes of the
application: `size()`, `iterator()`, `hasNext()`, `next()` and the `toString()` of
a key may throw (`ApplicationThrows`). Values are finite trees; a value that
contains itself is cut at `maxDepth` like any that is nested deeper, so it is
stood for by one of `maxDepth` and more levels.
`SerializerRef` defines what the limits leave of a value as a walk over its
elements (`After`, by levels: how far the count is after an element and all in
it, and what was cut), and reads the tree back by following pointers (`Holds`)
along the same walk. Numbers, booleans,
null and unknown types are one kind, "scalar"; a character is the number of its
UTF-8 bytes. The values are the constant `Values`, closed under taking elements
(`ValuesAssumption`), and a null pointer is neither a text nor a reference to one
(`AbsentAssumption`). `SequenceSums` has the sums that `Serializer`, `Json` and
`Strings` need, as a recursive function that both TLC and proofs can use.

`WafHandle` models the lock by what it excludes. `InitWafContext` is the native
half of the constructor of `WafContext`, which uses the handle's pointer.

`WafBuilder` keeps libddwaf's configurations by the bytes of the path that the
native code passes on (`Key`), and beside them what each caller may expect to be
in force under a path (`expected`, a set of configurations or `Nothing`): after an
update or a removal that returned, one thing; after an update that threw, what it
was to put there as well as what was there, or nothing if libddwaf rejected it. A
path is a sequence of UTF-16 units, each the bytes it has in modified UTF-8.
All methods are synchronized, so each is one step. Whether libddwaf keeps an
older configuration when an update is invalid is not visible in this repository
and left open.

`Utf` is `utf16_utf8.c`: the three loops (`Encode`, `Decode` from a whole
string or from a window, `Refill`/`ReadSegment`/`ReadEnds` for the window over
JSON segments) around the decoders and writers of single code points, which are
operators on code units. Reads beyond the input are what `IllegalLength` and
the cursor would do, so that leaving a buffer is a state and not an error of the
model. `Json` is `json.h` with `_convert_json`: its recursion is a list of pieces
still to be written, and a segment has a size and bytes. `Base64` is `base64.c`
with its loads of eight bytes, its three-state switch and its trailer; the
table of 12 bits is two of 6. `Schema` extends both with the loop around
`deflate`; zlib may keep output back and is external. `Strings` composes them as
`_create_result_checked` and `output_convert_attributes_checked` do. `Unicode`
defines what the conversions have to yield, from the definitions of the standard
and without their machinery: both encodings are self-synchronizing, so that a
text is the sequence of the characters that start at its places
(`Utf8Of`, `Utf16Of`). `StringsRef` does the same for JSON: the text of the objects
with up to n levels is a function of that for n - 1 levels (`JsonTexts`).

`NativeInit` is `JNI_OnLoad` as the list of its steps (`CodeSteps`, written with
one operator per sub-initialization of the code), each caching at most one
global reference and each able to fail, then native calls, `deinitialize` and
`JNI_OnUnload`. The group of a step says which sub-initialization releases it.
Fields and method ids are grouped where they are looked up in a row; a failure
has the same effect in each.

`JniEnv` is what all native methods share, as operators on an environment: a
call that may throw, the pending exception, local references, live native
objects, and `Log` and `Wrap` (`java_log`, `java_wrap_exc`), which put the pending
exception away. `ConvertConfig` is `_convert_checked`, `Output` is the part of
`output.c` that makes Java objects, and `NativeCalls` has the entry points of the
builder and of a run; each is one step, because a native call shares nothing
with other threads but what the other modules model. A step is parameterised by
the set of its calls that fail. What a boolean JNI call returns when it throws is
undefined and chosen freely (`answer`). `NativeCallsRef` states the properties
and what the conversions have to yield. Values with more calls than one make
sense of are merged: a scalar is two calls, one for the value and one for the
object; `GetStringLength` and the null checks of a builder and a path that Java
has checked before are none. A fingerprint (`_dd.appsec.fp.`) is converted as a string
whatever its type is, by the count of its entries. The text of strings is left to `Utf`. Entries of maps that a Java caller
cannot produce (null keys) and arrays of primitive types are left out.

The `MC*` modules give the constants for TLC.

## Runs

| Run | Checks | Bounds |
|---|---|---|
| `waf_context` | input of a run stays until `ddwaf_run` returns (`RunInputIntact`), stored input stays until the context is destroyed (`StoredInputIntact`), no arena used by two threads (`NoSharedArena`), no run on a destroyed or shared context (`RunOnLiveContext`), the ephemeral arena comes back whatever is thrown (`EphemeralReturned`), one owner per arena (`ExclusiveArena`), arenas from the pool are empty (`PooledBlank`) | 2 threads, 2 contexts, 3 arenas (334193 states): both threads on one context or each on its own, with fewer arenas than leases, so recycling, freeing and running out all happen; threads, contexts and arenas are symmetric |
| `waf_context_live` | a thread that closes a context gives its arena back, whether or not clearing the native half throws (`CloseReturnsArena`); every step is allowed by the contract of the pool (`KeepsPoolContract`); a closed lease's arena comes back (`ClosedArenaReturns`); the pool refines `ExclusivePool` (`PoolIsExclusive`) | 2 threads, 1 context, 2 arenas, no symmetry |
| `serializer` | no overlap, no overrun (`LiveSeparate`), recycled views not shared (`ViewsStable`), what was returned can be read back (`RootsIntact`), truncation counts (`MetricsExact`), slots used (`SlotsBounded`), termination (`Terminates`), and the arena is used as `Arena` allows (`UsesArena`) | 5 maps (nesting of 4, texts over the limit, an Iterable without end, one that yields more the second time, a map that shrinks and whose code throws), 2 sets of limits, 2 calls in each of 2 leases, segments of 3 slots and 8 bytes: segments are filled, skipped, added and reused. The bounds stop the system, so deadlock is not checked |
| `waf_handle` | `KnownOnLiveHandle`, `DestroyedOnce` | 3 threads (two readers or closers and one more), 2 handles |
| `waf_builder` | under ASCII paths a handle is built with what the calls on that path let their caller expect (`AsciiAsAsked`) | 2 ASCII paths that differ in their last character, 2 with a character of two bytes that share a key; a configuration with rules, one without, one invalid; 102704 states |
| `strings` | no buffer is left (`BuffersRespected`, `SegmentsRespected`, `Base64InBounds`), no well-formed character is lost and malformed bytes leave a U+FFFD (`KeepsCharacters`), UTF-8, JSON and base64 are exact (`EncodesExactly`, `JsonExact`, `Base64Exact`), nothing stays in zlib (`GzipComplete`), every conversion ends (`StringsTerminate`) | all byte strings of up to 3 bytes over 12 that start, continue and break characters of each length, 4 bytes over 6 of them; texts of characters of 1 to 4 bytes through a window of 6 bytes and segments cut in every part; strings of up to 4 units with surrogates; 8 objects; segments of 5 bytes; output of zlib from 0 to 47 bytes a call, so that buffers fill exactly and double. The system stops, so deadlock is not checked |
| `native_init` | references released once (`ReleasedOnce`) and present for calls (`CallsSafe`) and for the callback (`CallbackLive`), `jcls_rte` there to throw with (`RteUsable`), nothing left afterwards (`NothingLeft`, `DeinitReleases`) | every step of the code; 3 threads: two that deinitialize and one that calls. The system stops once it is unloaded |
| `native_calls` | the first failure is what Java gets (`FirstFailureReported`), resources are released (`ResourcesReturned`), conversions are exact (`ConversionsExact`), the time given to libddwaf (`BudgetRespected`) | any one or two of the first 60 calls fail (no method makes more unless something fails), with and without logging; 4 configurations over every kind of value with limits of depth 2, 6 elements, 2 characters, 5 reports (3 malformed), 8 results, all codes and buffers, every mixture of 3 budgets, 2 run limits, 6 system properties and 9 pairs of times; 3 nanoseconds to a microsecond so that both roundings matter, and a size_t of 1000 values |
| `waf_handle_context` | violated: `ContextOnLiveHandle` | as `waf_handle` |
| `waf_builder_paths` | violated: `BuildsAsAsked` | 2 paths with a character of two bytes |
| `waf_builder_remove` | violated: `RemoveThrowsOnlyIfClosed` | the paths "a", "b" and "ab" |
| `utf_supplementary` | violated: `SupplementaryExact` | as `strings`, with a character from U+20000 on |

Fairness. `PoolSpec` assumes that a thread inside `close()` finishes it.
`WafContext!Spec` assumes that a thread goes on with a call it has begun: its
steps never wait for another thread once the monitor is taken, and `ddwaf_run`
is given a time budget. `SerSpec` and
`StrSpec` assume the same of a serialization and of a conversion, which wait for
nothing. `NativeSpec` assumes it of a thread that has begun to release the
references, and of no other: calls may last for ever. Nothing
is assumed of the application (it need not close anything) or of the collector.

### What the violated runs show

* `waf_handle_context`: `new WafContext(handle)` passes the pointer of a handle
  to libddwaf without its lock and without looking at `online`
  (`waf_jni.c` 431-436), so it can use a `ddwaf_handle` that `close()` has
  destroyed. `getKnownAddresses` and `getKnownActions` refuse a closed handle
  (`WafHandle.java` 45-49), and the tests assert that they do. A comment of
  `ReachabilityFenceTest.groovy` (215-216) asks callers to keep the two apart.
* `waf_builder_paths`: the native code passes the number of UTF-16 units of a
  path as the number of its bytes (`waf_jni.c` 947 and 995). Two paths that
  differ only in the bytes cut off are one path to libddwaf. Paths of ASCII
  characters are safe from that, and from any other path (`AsciiAsAsked`).
* `waf_builder_remove`: the documentation of `removeConfig` says that it does
  not fail if the configuration does not exist; it throws, and
  `WafBuilderTest.groovy` (80) asserts that it does.
* `utf_supplementary`: `_write_utf16_codeunits` masks the bits above the
  sixteenth of a code point where UTF-16 subtracts 0x10000 (`utf16_utf8.c` 200;
  its comment speaks of bits above the twentieth). From U+20000 on, Java gets a
  character of plane 1 instead. `KeepsCharacters` states the rest with this
  exception.

Also noted while modelling, and no contradiction to what the repository says:

* A comment of `ReachabilityFenceTest.groovy` (229-231) empties the pool because
  arenas with bytes of earlier requests behind the freshly written region "can
  cause subsequent tests to see unexpected native results". `RootsIntact` says that
  no such byte is part of the tree libddwaf reads by following its pointers and
  counts. What the comment fears is a read outside of that tree, which no code of
  this repository makes and libddwaf's is not modelled to make.
* When `JNI_OnLoad` fails after `java_log_init`, the logger's references and the
  cached ones before it stay, and `deinitialize()` returns at once because
  `_init_ok` was never set. `NothingLeft` covers the failures before.
* An element of a configuration whose key cannot be converted, or that cannot be
  added, is not freed, nor is a container whose `hasNext()` threw; the first
  failure is reported all the same. `ResourcesReturned` bounds what is lost to
  one element.
* The string made of a `CharSequence` (`waf_jni.c` 1657), and the class and name
  of an unknown object (1714), stay local references until the call returns.
* A `DD_APPSEC_WAF_TIMEOUT` that the log calls invalid is used all the same (a
  text without digits as 0), and a negative one as a huge `size_t`.
* A `CharBuffer` with an array is read from its position without its
  `arrayOffset()` (`waf_jni.c` 1619).
* JSON has no case for floats and nulls: they write nothing, and an element of a
  container then leaves its comma or colon behind.
* Elements that a container loses because the element limit has shrunk its size are
  not counted in `truncatedListMapTooLargeCount`; only elements that got a slot and
  were dropped later are. `MetricsExact` states this count.

## Proofs

All are for any values of the constants that satisfy the named assumptions, for
any number of threads, contexts, arenas and handles, for values, strings and
objects of any size and depth.

* `SequenceProofs` has the lemmas about data the others need: sums of sequences
  (`Total` of a concatenation, of an update, of a tail), `FlattenSeq` of a
  concatenation and of a prefix, what its elements are, and the parts and joins
  of sequences. The provers cannot instantiate an induction theorem with an
  operator, so induction is stated over *sets*: a set of naturals with 0 that is
  closed under successor is `Nat`, and a recursive function is shown to exist by
  applying it to the set of lengths up to which it does.
* `WafContextProofs`, first part: `ExclusiveArena` and `PooledBlank` for
  `ArenaPool`, from `PoolInv`. Alone they are not inductive: that a pooled arena is
  blank needs that a lease in the middle of `close()` has already reset its
  arena, and that leases and pool name only allocated arenas, or `new Arena()`
  could return one that is in use. From it, `PoolIsExclusive`: the pool
  implements `ExclusivePool`. The mapping names the owner of an arena (`OwnerOf`);
  exclusive ownership makes that choice unique, so each action of the pool is
  shown to be one action, or a stutter, of the abstract specification.
* `WafContextProofs`, second part: every safety property of the run
  `waf_context`, and `KeepsPoolContract` (WafContext implements ArenaPool, and
  through it ExclusivePool), from `CtxInv /\ PoolInv`. That `close()`
  tests and sets `closeCalled` in two steps does no harm because of the monitor:
  between the two nobody else closes that lease (`CloseTestInductive`, and the state of
  the lease in `ThreadInv`). `CtxInv` ties the place of a
  thread to what it holds (`ThreadInv`: monitor, state of its context, of the
  context's lease and of the ephemeral lease), and the life of a context to its
  lease and its native half (`ContextInv`). The monitor conjunct makes the two
  threads of any pair work on different contexts, and exclusive ownership in the
  pool then on different arenas. There is one lemma per action; a step of the
  pool layer is first shown to be a step of `PoolNext`, so that `PoolInv` carries
  over.
* `SerializerProofs`, first part: `LiveSeparate` and `ViewsStable` for `Arena`,
  from `ArenaInv`: what was handed out lies below the position of its segment,
  and its view below `nextView`.
* `SerializerProofs`, second part: `UsesArena` (the serializer implements
  `ArenaSpec`, which carries the first part over to everything `doSerialize` lays
  out) and `SlotsBounded`, from `SerInv /\ ArenaInv`. The slot bound is not
  inductive. `LevelsOK` says that the loop at level j of the stack works at depth
  `maxDepth` minus its distance from the root, so that there are never more than
  `maxDepth + 1` of them, and that each is over at most `maxElements - 1` elements.
  `SlotsCounted` says that the slots taken are those of the elements counted so
  far and those the open loops have yet to fill: an equation between the sum of
  the positions of all segments, the element counter and a sum over the stack,
  which every allocation and every round of a loop moves on both sides. What is
  unfilled is then bounded level by level. Assumptions: `SizesAssumption`
  (positive minimum sizes), `ValuesAssumption` (values are scalars, texts of
  characters of at most `BytesPerChar` bytes, or containers of values, whatever
  their `size()` claims), `LimitsAssumption` (limits are Java integers, not
  negative).
* `SerializerProofs`, third part: `MetricsExact`, from `WalkInv`, which relates the
  stack of loops to the recursive walk of the reference. An open loop is a visit:
  a container of the value and how far the walk was when it was reached
  (`OpenLoop`, `OpenLoops`). `SoFar` says that the element counter and the metrics
  are where the definition's walk is after the elements the loops have behind
  them, and `Turned` that walking an element to its end takes the loop around it
  one element on. The walk of the definition is by levels, so the depth of a loop
  (`LevelsOK`) says which of its functions applies.
* `SerializerProofs`, fourth part: `RootsIntact`, from `HeldInv`. A claim (`Claim`)
  says that a slot can be read back as a visit of which the limits leave so many
  levels. A set of claims, each true of its own slot and with one for every
  element left, is true of all that follows the pointers (`ClaimsHold`, an
  induction over levels), so nothing has to be said of whole trees. Claims concern
  slots and texts below the positions of their segments (`ClaimsOK`, `Stays`), and
  a step writes at most the slot of its call and the bytes behind a position
  (`Wrote`): what is claimed stays true. That the slot of the call is not claimed
  is the invariant on the loops still open (`TreeOK`): each has an array of its
  own (`Apart`), its finished elements are claimed (`Filled`), its remaining slots
  free of claims (`FreeFrom`), and each loop stands at the element whose array the
  next one fills (`Nest`). The call writes where its loop stands only because no
  open loop's view is handed out again (`ViewsStable`). Leaving a loop turns it into
  the claim of its container (`TreeClosed`); a call that ends with an exception
  leaves claims behind that nothing refers to.
* `WafHandleProofs`: `KnownOnLiveHandle` and `DestroyedOnce`, from `HandleInv`:
  the place of a thread says which half of the lock it holds, and outside of
  `close()` a handle is online exactly as long as its `ddwaf_handle` is there.
* `WafBuilderProofs`: `AsciiAsAsked`, for any set of paths, those that share a key
  among them, from `BuilderInv`. That is about the paths no other has the key of
  (`Unshared`): a call on one path leaves what is in force under those alone. That an
  ASCII path is one of them is about bytes (`AsciiUnshared`): as long as the units
  are those of the ASCII path, each starts at its own index, and a unit with the byte
  of an ASCII character is that character; so a path with the same key is the same
  path, unit by unit, whatever characters it has. Assumption `PathsAssumption`: units
  are as in modified UTF-8. The run `waf_builder_paths` shows why the claim is not
  made for all paths.
* `UtfProofs`: `BuffersRespected` for strings of any length and any window of at
  least six bytes, from `UtfInv`. The bound on the output is not inductive: what
  is written must fit together with all that may still come, so `UtfInv` relates
  the output, the rest of the window and the rest of the input (`Outstanding`),
  and the decoder is shown to take four bytes for what becomes two units. That
  the window moves without overlapping itself needs that a window which is not
  the last one is full. Assumption `UtfAssumption`: inputs are
  units or bytes, and segments come in order and end with the input.
* `UtfProofs`, second part: `EncodesExactly` and `KeepsCharacters`, from
  `UtfInv /\ TextInv`. A text is the concatenation of what starts at each of its
  places, so "converted up to the cursor" is a statement about a prefix of the
  places (`EncodedUpTo`, `Kept`), and a step of the loop adds the pieces of the
  places it passes. `TextInv` adds that the window shows the part of the input
  that ends at `fed`, that the segments already read lie before it and the last
  one ends with the input. The step that matters is a character at the end of a
  window: the decoder agrees with the whole text only if it sees four bytes or
  the end of the input (`WindowReads`), which is what `NeedsMore` refills for. That
  an ill-formed sequence swallows no character is the other half: none of the
  bytes the decoder skips starts one.
* `StringsProofs`: the whole of `Strings` (`StrSpec`), from `StrInv`, which is
  `UtfInv` with one invariant for each of the others. `JsonInv`: what is still to
  be written consists of byte strings and objects, and a segment never holds more
  than its size; the size `_json_str_encoded_size` computes is shown to be the
  number of bytes `_json_encode_str` writes, byte by byte and then as a sum, which
  gives `SegmentsRespected`. `ZipInv`: output is pending in zlib only while the
  segment is not done, which gives `GzipComplete`. `Base64Inv`: the text so far is
  exactly the encoding of the bytes before `pos` (`Encoded`), the carry the bits of
  the last one that are not yet written, and blocks begin at multiples of three;
  six bits of a block are related to the 48-bit load by arithmetic on two
  neighbouring bytes. It gives `Base64InBounds` and `Base64Exact`. `BuffersRespected`
  then holds for what the stages hand on: the JSON segments are an input
  `UtfInv` admits, since the sums of their lengths grow to the length of their
  bytes. So do `EncodesExactly` and `KeepsCharacters`: there is a segment whenever
  there is JSON, and the last one ends it (`SegmentEnds`). Assumptions: `NodesAssumption`, `ObjectsAssumption` (objects are well typed
  `ddwaf_object`s), `SchemaAssumption`, and that `Data` are bytes.
* `StringsProofs`, last part: `JsonExact`, from `ExactInv`. What the encoder has
  still to do is a list of bytes and objects, and the text it stands for is fixed
  once every piece is replaced by its reference text (`PieceTexts`): what is
  written, followed by that, is the JSON of the object at every step (`JsonBytes`
  grows by what the head of the list loses). Emitting a container replaces one
  piece by its brackets, names, commas and elements, whose texts together are the
  text of the container. That the reference is defined at all, and that n levels
  are enough for what has only n levels, is an induction over levels
  (`JsonTextsDef`, `PiecesFit`).
* `NativeInitProofs`: all safety properties of `native_init`, for any number of
  threads and any list of steps of the shape of `InitAssumption`, from `NativeInv`.
  Groups are ranked by their place in `Disposal`; a thread in `_deinitialize` has
  released exactly the groups before its step (`Releasing`), it is alone there,
  and while the library loads exactly the steps before `at` are cached
  (`Loading`).

Only model-checked:

* all liveness properties (`Terminates`, `StringsTerminate`, `CloseReturnsArena`,
  `ClosedArenaReturns`, `DeinitReleases`), which need ENABLED;
* the properties of `NativeCalls`: the operators of `JniEnv` and of the modules
  that extend it are RECURSIVE as the code is.

## What is left

The model covers the parts of the repository that keep state or convert data.
Worth adding, in this order: the budget of a run split from `NativeCalls` and proved; a model
of `LeakDetection` (registration, `notifyClose`, its queue and the collector); and a composition of `NativeInit`
with `WafContext`, so that `deinitialize()` meets a run in the middle.

## Not modelled

* A log callback that a thread of libddwaf is executing while `java_log_shutdown`
  deletes the references it uses: in `NativeInit` the callback is installed or not.
  A call that `deinitialize()` overlaps, or that begins while it is at work, is
  exempt from `CallsSafe`; `Waf.java` (72-75) warns that it may crash.
* `_create_result_checked` down to single characters: `JsonExact` compares the
  structure of the JSON with a definition of its own, but takes `Escape` and
  `Decimal` from the model.
* Leak detection: a debugging aid that only tests switch on
  (`DD_APPSEC_DDWAF_EXIT_ON_LEAK`); nothing else reads its state.
* Unpacking and loading the native library from a jar (`NativeLibLoader`): file
  I/O. `Initialize` in `NativeInit` starts at the load.
* `debug_helpers.c`, `byte_buffer.c`, `compat.c`: printing for tests and
  platform shims.
* The wording of log messages and exceptions, levels of logging, attaching
  threads of libddwaf to the JVM, and the Java loggers, which forward.
* The reuse of `CharBuffer` wrappers (`CharSequenceWrapper`, `resetState` of
  `cs_wrapper.c`) and of `WrittenString` objects is confined to one thread and one
  call.
* Alignment and the byte layout of a slot; the overflow of
  `SIZEOF_PWARGS * capacity`, out of reach with real limits.
* The fields `keep`, `duration` and `events` of a result: copied as they are.
