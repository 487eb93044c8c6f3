# Verification of csvm-poc-c

`csvm` is a proof of concept of a virtual machine for CeleryScript, FarmBot's
JSON sequence language. An Elixir application starts a C program as a port and
exchanges binary packets with it over the program's standard input and output.
This directory holds TLA+ models of both sides and of the protocol between them,
the TLC runs that check the models on small instances, and TLAPS proofs of the
results that should hold for every instance. Line numbers refer to `src/`.

## The system

```
 callers          Csvm (GenServer)        port / pipes        csvm (C program)
 Csvm.command --> mailbox -> handle_call --> stdin --> populate_buffer --> ipc_buffer[0]
      ^                                                                      | semaphore
      '--------- GenServer.reply <- handle_info <-- stdout <-- (no writer)  act_on_buffer
                       |
              Csvm.Supervisor                JSON -> celery_script -> slice -> heap -> out.json
```

| Component | State | Operations | Talks to |
|---|---|---|---|
| GenServer `lib/csvm.ex` | `port`, `context` (`:idle`/`:sent`), `from` | `command`, `handle_call`, three `handle_info` clauses | callers by call and reply, the port by `Port.command` and messages |
| Supervisor `lib/csvm/application.ex` | restart count (OTP default 3 in 5 s) | start, restart, give up | the GenServer |
| Request reader `main.c` `populate_buffer` | byte buffer, bytes read and needed, reader state, decoded header | read a byte, got header, got payload | stdin, the slot |
| Slot and threads `main.c` | `ipc_buffer[0]`, `ipc_buffer_ptr`, mutex, semaphore | store + copy payload + post; wait + copy + act | each other, by shared memory |
| Codec `celery_ipc.c`, `request_packet.ex`, `response_packet.ex` | none; a C struct of two char arrays | encode and decode requests and responses | each other, by bytes |
| CeleryScript reader `celery_script.c` | a tree | JSON to tree | cJSON, corpus tables |
| Corpus tables `corpus.c/.h` and their generator | none | name to number and back | reader, encoder |
| Slicer `celery_slicer.c` | the C stack | `slice`, `slicer_allocate`, body and argument loops | the heap |
| Heap `celery_heap.c` | entries with key-value lists, `here`, `heap_size` | `heap_init`, `heap_alot`, `heap_put`, `heap_set_kind` | slicer, encoder |
| Heap encoder `celery_heap_encoder.c` | none | heap to `out.json` | cJSON, corpus tables |
| cJSON `cJSON/cJSON.c` (kept in the tree) | items linked by `next`, `prev` and `child`; a parse buffer, a print buffer | make, link, rename, replace, copy and delete items; parse, print, minify, compare | reader and encoder |

At this commit the parts are not all connected. Nothing calls the slicer, the
heap encoder, `get_request`, or the encoders of requests and responses in C, and
`act_on_buffer` copies a request without answering it. The models state what
each part does when it is used the way its interface and the other side of the
protocol imply; what a missing part would do (answer a request, send a
hypercall) is marked external in the map.

### What is hard here

* **Two threads, one slot, half a lock.** `populate_buffer` holds the mutex while
  it writes; in `act_on_buffer` the lock and unlock are commented out
  (main.c:131, 135). All 256 places of `ipc_buffer` are declared, one is used:
  requests are overwritten, or read twice, and a pointer is published before the
  payload behind it is filled in.
* **Framing by a counter.** `number_of_bytes_needed` is set from each header and
  never set back (main.c:91), the `memset` clears as many bytes as the counter's
  type has (main.c:121), and end of file is a byte like any other (main.c:84).
* **Matching answers to questions.** The GenServer remembers one caller and does
  not look at request numbers, callers time out, the port cuts the byte stream
  where it likes, the VM exits, and the state left after that is not one the
  other callbacks can handle (csvm.ex:40).
* **Predicted addresses.** The slicer stores the address of a first child before
  it is allocated, and links and arguments share one numbering of keys.
* **Pointers and offsets by hand.** cJSON keeps three pointers per item and two
  flags for what an item owns, reads text by an offset that is checked here and
  there, measures every printed piece before it writes it, and can run out of
  memory in the middle of each of these.
* **Borrowed strings.** A script points to the strings of the JSON tree it was
  read from, and the tree is given back by freeing its root alone.

The properties each component needs are listed with its module below; the
hazards they are for are in `PROJECT.json`.

## Modules

| Module | What it is |
|---|---|
| `LatestMailbox` | abstract: a lossy one-place mailbox |
| `IpcBuffer` | the two threads, the slot, the mutex and the semaphore; implements `LatestMailbox` |
| `IpcBuffer_proofs` | proofs about `IpcBuffer` |
| `IpcCodec` | the packets byte by byte, as operators |
| `RequestStream` | abstract: requests come out as they went in |
| `IpcReader` | `populate_buffer` as a reader of bytes; implements `RequestStream` only in part |
| `IpcExchange` | one request and its response through the codec, in either direction |
| `IpcCodec_proofs`, `IpcReader_proofs`, `IpcExchange_proofs` | proofs about these three |
| `CeleryHeap` | the heap, as operators on a value |
| `CelerySlicer` | the slicer as a stack machine on that heap |
| `CelerySlicer_proofs` | proofs about `CelerySlicer` |
| `JsonTree` | abstract: a forest of items with sequences of children |
| `CJson` | the pointers of cJSON items under every operation of a client; implements `JsonTree` |
| `CJson_proofs`, `CJsonContents_proofs` | proofs about `CJson`: its pointers; its string blocks, its lists, and that it implements `JsonTree` |
| `JsonText` | texts as bytes; the grammar of JSON with the value of each text |
| `CJsonParser` | `cJSON_ParseWithOpts`, with offset, depth and memory |
| `CJsonPrinter` | `cJSON_Print` and its two variants with the growing buffer; `cJSON_Minify` |
| `CJsonCompare` | `cJSON_Compare` and the look-up by name |
| `CJsonText` | a client that parses, prints, minifies and compares |
| `Corpus` | the two tables of names and the four look-ups |
| `CeleryScript` | `json_to_celery_script` over a parsed tree |
| `HeapEncoder` | the heap as a JSON tree |
| `CeleryLoad` | text to script to heap to `out.json`: composes parser, reader, slicer, encoder and printer |
| `LateReplies` | abstract: which caller can get which response |
| `CsvmServer` | GenServer, callers, supervisor, port and VM; implements `LateReplies` |
| `CsvmServer_proofs` | proofs about `CsvmServer` |
| `MC*` | instances for TLC: small sets of inputs and bounds |

Definitions whose names extend that of the definition after them
(`PostRequestTwice` and the like, marked "Mutant") are deliberately wrong
variants. They are in no specification: `PROJECT.json` pairs each with a property
that must fail when it is put in place of the right one.

### IpcBuffer

One action per statement that touches shared memory. Requests are the numbers of
their headers, 0 is the NULL pointer of the zeroed static slot.

| Code | Action |
|---|---|
| main.c:71-80, pointer set, buffer allocated | `PointToSlot` |
| 89-94 header decoded, request allocated | `DecodeHeader` |
| 95-105 payload complete, `pthread_mutex_lock` | `LockBuffer` |
| 106 `memcpy` of the union with the pointer | `StoreRequest` |
| 107 `memcpy` of the payload through the slot | `CopyPayload` |
| 108, 109 unlock, `sem_post` | `UnlockBuffer`, `PostRequest` |
| 128, 132, 133 `sem_wait`, unlocked `memcpy`, use | `WaitRequest`, `CopyRequest`, `ActOnRequest` |

Properties: `NoNullRead`, `HandlesForward` (the reader never goes back and never
lags the semaphore), `PayloadRace` (the exact
window in which uninitialised payload can be seen), `LosslessWithoutOverrun`,
`ImplementsMailbox`, and `ActedOrSuperseded` (liveness). Memory is sequentially
consistent and the 8-byte pointer of the slot is copied whole, as on the 64-bit
targets the program is built for; the type word is 0 before and after every
store, so a mix of an old and a new union is one of the two. On a machine that
reorders stores the unlocked reader could see more than the model shows.

### IpcCodec, IpcReader and IpcExchange

`IpcCodec` has both ends of the protocol as operators on sequences of bytes:
Elixir's binary patterns, and the C functions together with the layout of
`celery_ipc_request_t`, because the terminators are stored out of place.

`IpcReader` reads the packets of a whole session one `getchar` at a time;
storing the complete request in the slot is one step here. `ClosePort` ends the
input, after which `getchar` yields 255 for ever. A byte stored past the 15-byte
buffer sets `overran` and the model stops, since what follows is undefined.
The contents of the buffer before the first header do not matter (all of it is
overwritten), nor do those of a decoded struct, whose text is read only where it
was written. `FramedWhileAligned` says what is right: a request comes out as it
was sent as long as every payload before it was exactly 15 bytes long. That is
also when it implements `RequestStream`, accounts for every byte
(`NothingSkipped`) and delivers the session (`AlignedDelivered`).
`OverrunExplained` says what it takes to write past the buffer.

`IpcExchange` follows one request and its response through encoder and decoder.
The VM's side of receiving is `get_request` (main.c:35-55), the reader that
frames as the protocol says. `RequestArrives` and `AnswerArrives` relate what arrives to what was given to the encoder:
identical, but for numbers and lengths beyond 16 bits, which `encode` lets
through; and each end's pattern or buffer takes whatever the other end encodes.
Old memory contents are an input there, which is what makes
`RequestArrives` depend on the order of the copies in the decoder.

### CeleryHeap and CelerySlicer

The heap is a record of `here`, `heap_size` and a function from addresses to
entries; `heap_put` searches from the front and replaces or appends
(`Updated`). The three enumerations that number keys are kept as numbers because
they overlap: the arguments `else`, `then` and `locals` are 0, 1 and 2 like
`HEAP_BODY`, `HEAP_NEXT` and `HEAP_PARENT`.

`CelerySlicer` replaces the C recursion by a stack of frames. A frame has the
node, the parent address, its own address, the loop index and where it is:
`enter`, in the body loop (`body`, `bodyReturn`) or the argument loop (`args`,
`argReturn`). `Allocate` is celery_slicer.c:16-21, `BodyFirst`, `BodyOther` and
`BodyReturned` are 34-43, `ArgNode`, `ArgReturned`, `ArgLeaf` and `ArgSkipped`
are 50-77, `Return` is 24. A script is the tree `json_to_celery_script` builds
(`WellFormed`, `IsTree`: no node is in two places, and every one is below the
root). It sets no type for an argument that is null or an array; the leftover is "unset" if it is none of the four enumerators; one that is
`CS_CELERYSCRIPT`, with a leftover for its node, is left out.

Properties: `KeysUnique`, `NoDangling` and `BodyLink` at every step, and for a
finished heap `LinksLead` (`NextLink`, `ParentLink`, `ArgLink`), which says what
each pair holds unless an argument of the same number displaced it,
`LayoutIsPreorder`, and `ReachableFromRoot`: of a body with three or more items the middle ones can be
reached by no address, because `HEAP_NEXT` is put on the parent each time.
This is stated as what the code does. Nothing in the repository says what the
links are meant to be, so it is not listed as a finding.

### CJson and JsonTree

`CJson` has the memory of the items: which are allocated, their three pointers,
and for each item its name and the flags `cJSON_IsReference` and
`cJSON_StringIsConst` and whether it has a `valuestring`. String blocks are
counted. A loop over `next` is the least set closed under it (`From`), deletion
the least set closed under what `cJSON_Delete` follows (`Freed`). One action per
group of functions that do the same to memory:

| Code | Action |
|---|---|
| the Create functions, with references | `Create`, `CreateArray` |
| `cJSON_AddItemToArray`, `...ToObject`, `...ToObjectCS` | `AddItemToArray`, `AddItemToObject`, `AddLost` |
| `cJSON_AddNullToObject` and its like | `AddNewToObject` |
| `cJSON_AddItemReferenceTo...` | `AddReference`, `AddReferenceLost` |
| `cJSON_DetachItem...`, `cJSON_DeleteItem...` | `Detach`, `DeleteItem` |
| `cJSON_InsertItemInArray`, `cJSON_ReplaceItem...` | `Insert`, `Replace`, `ReplaceInObject`, `ReplaceInObjectMissed` |
| `cJSON_Delete`, `cJSON_Duplicate` | `Delete`, `Duplicate` |

`AddLost`, `AddReferenceLost` and `ReplaceInObjectMissed` are what these `void`
functions do when a key cannot be copied or found: the item is in no list and the
caller is not told, so nobody deletes it. The client keeps to what `cJSON.h` asks:
it adds what it holds, makes no cycles, does not change a reference's children, and
duplicates what is a tree (`Whole`), no item of it met on two ways.
`Linked` and `OneOwner` say that the lists stay lists and that deleting what the
client holds frees everything but the lost, and nothing twice; `InsertShifts` and
`ReplacedIsFound` what two operations mean; `ImplementsTree` maps the pointers to
sequences of children and every call to one of `JsonTree`.

### JsonText, CJsonParser, CJsonPrinter, CJsonCompare and CJsonText

Texts are sequences of bytes, since offsets, escapes and lengths are what can go
wrong. `CJsonParser` is the recursive descent as operators from a parse buffer to
a result: each returns the buffer with its offset and depth, the allocations
still possible (`left`) and the blocks still allocated (`live`). Every `goto fail`
is a `Fail`, with what it frees. `CJsonPrinter` does the same for a print buffer:
`Ensure` is `ensure()`, and `over` is set if a byte outside the buffer is touched.
A number is the double it stands for, as sign, mantissa and exponent; `valueint`
is left out (the program reads it for booleans only, see `ArgOf`). `strtod`,
`sprintf` with `%1.15g` and the NUL that ends a C string are external.

`JsonText` says beside this what a text means: `Values` is a grammar over whole
texts, cut at commas and colons, with no offset and no state. `Accepted` compares the
parser with it on every text; where cJSON departs from RFC 8259 the grammar has
what cJSON takes: any byte up to a space is white space, control characters in
strings, numbers with leading zeros, numbers of at most 63 characters, and a
string ends at a `\u0000`.

`CJsonText` is a client with one text and one item. `NothingLeft` counts blocks
when memory runs out at any allocation. It names two exceptions the code has:
`print()` loses its buffer when only its last `realloc` fails (`buffer->buffer`
is set to NULL before the result is looked at, cJSON.c:1116), and `ensure()`
without `realloc` copies one byte out of a buffer of no bytes
(`cJSON_PrintBuffered` with a `prebuffer` of 0, cJSON.c:450). `RoundTrip` says a
printed text is the same text from every print function and means the item again
(an infinite number becomes `null`), and minifying keeps the meaning.
`ComparesValues` compares `cJSON_Compare` with equality of values without the
order of members; it holds but for objects where one name has two values, which
equal nothing.

### Corpus, CeleryScript, HeapEncoder and CeleryLoad

A script is read from a tree in place: nodes and strings are named by their places
in the trees read so far, as the C structures point into the tree. `Readable` is
what `json_to_celery_script` takes for granted: it hands `strcmp` the name of an
argument and the string of a `kind` without looking whether they are there.
Unknown names share the key `BADKEY`, -1 stored in an unsigned type.
`buffer_to_celery_script` gives the tree to `cJSON_free`, not `cJSON_Delete`:
only the root item goes, and the strings the script points to stay, never to be
freed (`StringsFreed`; its mutant frees them).

`CeleryLoad` adds to `CelerySlicer` the steps before and after it: `Read` parses a
text and reads the script, `SliceRead` slices it, `Encode` writes the heap. The
variable `undefined` ends a behaviour in which the code would do anything: a name
that is NULL, a freed string, or a text with a percent sign, which `fprintf` takes
for a format (celery_heap_encoder.c:100). `LoadsAsWritten` says what `out.json`
must say, from the text alone: an entry per node with its kind, the last argument
of each name, and the links. It also says which scripts lose something: a node
argument called `else`, `then` or `locals` is labelled as a link, and all unknown
names share one pair without a label. Opening and writing the file is taken for
granted, as the code does.

### CsvmServer

The GenServer handles one message per step; callers, port, VM and supervisor
interleave with it.

| Code | Action |
|---|---|
| csvm.ex:9-11 and GenServer.call's 5 s limit | `Command`, `CommandNoProc`, `Timeout` |
| 22-25 `handle_call` | `HandleCommand`; with the state an exit left behind `HandleCommandDegraded`; with a closed port `HandleCommandClosedPort` |
| 27-31 `handle_info` data, waiting | `HandleData`, or `HandleDataMalformed` if `decode` has no clause |
| 33-36 `handle_info` data, otherwise | `HandleDataUnexpected` |
| 38-41 `handle_info` exit_status | `HandleExitStatus` |
| application.ex:16-19 | `Restart`, `GiveUp`, `RestartExpires` |
| the port and the program behind it (external) | `VmAnswer`, `VmSkip`, `VmExit`, `PortData`, `PortExit` |

A response is two halves, enough for a piece of the stream to be less than, just
or more than one response. The VM answers in order, and may skip a request, as
`IpcBuffer` shows. Properties: `WrongOnlyAfterLost` (what it takes to be given
the answer to another command), `ForgottenExplained` (which callers can only
time out), `ClosedPortHasNotice`, `ImplementsLateReplies`, and `DegradedHeals`
(liveness). The name of the port in a message is ignored by `handle_info`, but a
port's messages precede its `exit_status` and go with the process's mailbox, so
messages of an old port never follow those of a new one. Not modelled: the
exit of the server by its link when a write to a dead VM fails before the port
has noticed the exit; the packet is lost instead.

## Runs

| Run | Bounds | What it shows |
|---|---|---|
| `ipc_buffer` | 5 requests | safety, refinement and progress for every interleaving |
| `ipc_reader` | up to 3 requests of 0, 1, 15 or 16 bytes, up to 4 of 15; 6 published | what comes out right, what overruns, delivery of aligned sessions |
| `ipc_reader_framing` | up to 2 requests of 3 or 15 bytes | **violated**: framing by the payload size |
| `ipc_exchange` | ids -1, 0, 258, 65535; payloads of 0, 3, 65535, 65536 bytes; clean and dirty memory | what arrives is what was sent, modulo 16 bits |
| `ipc_exchange_terminated` | one request | **violated**: terminated strings |
| `celery_slicer` | every script of up to 4 items, keys 0 to 3; two scripts of up to 4 items between them | links, layout and reachability |
| `cjson` | 5 items, 2 references at a time, arrays of up to 3, no names | pointers, ownership, the refinement of `JsonTree` |
| `cjson_names` | 3 items, keys `k`, `K`, `j`, 1 reference | string blocks and replacement by name |
| `cjson_text` | all texts of up to 4 of 9 tokens; 7 texts and all texts one byte from them; strings of up to two of 18 units; 26 numbers; 12 buffer sizes; up to 10 allocations | parser, printer, minify and compare |
| `celery_load` | 84 scripts from 14 lists of arguments and 6 bodies, 15 other texts, a second script after each | `out.json` says what the text did |
| `csvm_server` | 4 calls, 2 at a time, 2 exits, 3 restarts | which caller can get which response; a degraded server does not stay so |
| `csvm_server_own` | 2 calls, one at a time, no exits | **violated**: one's own answer |

Why these bounds are enough for the interesting cases: with five requests the
reader can fall three behind, read one request several times and catch up.
Payload lengths 1 and 16 are on either side of nothing and of the header, and
0 takes the path that skips the loop. With four items a script has a body of
three, nested bodies, bodies beside arguments, and arguments that collide with
each other and (keys 0, 1 and 2) with the three links. With four
calls one caller can be displaced, get a late answer and pass its own on, and
two exits make the server degrade again after a restart; three restarts are
OTP's default and are all used up. Five items are enough for a reference to a
list, an insertion in the middle and a copy of a pair; names are left to a
second run, where letters and constant keys matter and long lists do not. The
limits of cJSON are scaled down in `cjson_text` so that texts of a few bytes meet
them: nesting of 2, numbers of 20 characters, a first buffer of 4 bytes and
`INT_MAX` of 24 (so that doubling, the cap and the refusal are all reached);
`celery_load` has the real ones. `Tight` limits the texts for which memory runs
out to seven with every construct. Deadlock checking is off in every other run
because those models end: inputs are bounded, the slicer finishes, and a
stopped supervisor stays stopped (`cjson_text` is checked for deadlock: its client
can always go on). What "must go on" is a liveness property.

**Fairness.** `IpcBuffer`: weak fairness for each thread, since the operating
system schedules both; none for steps that need bytes of a peer (`header`,
`payload`). The mutex needs none, nobody contends for it. `IpcReader`: weak
fairness for the reading thread, none for closing the port. `CsvmServer`: weak
fairness for handling a message and for the supervisor, which the BEAM gives
every runnable process; none for callers, the VM or the port.

## Findings

1. **The reader loses framing** (`ipc_reader_framing`). After a payload the next
   header is read with the length of that payload (main.c:91), where
   specifications.md:14-18 has every header followed by a payload of the
   announced size. A session is read rightly only if all payloads before the
   last are 15 bytes long.
2. **A caller can be given another command's answer** (`csvm_server_own`).
   csvm.ex:28 replies to whoever called last; specifications.md:25 has the
   response carry the originating channel number. One caller and one timeout
   suffice.
3. **Decoded strings are not terminated** (`ipc_exchange_terminated`).
   celery_ipc.c:51 and 54 store each NUL one past the char celery_ipc.h:16-17
   adds for it.

Smaller disagreements met on the way, without a run: specifications.md:21 calls
a response 6 bytes where its own table and both encoders have 8;
specifications.md:18 refers to segment 3 for the payload size, which is numbered 4;
`corpus.json` names `_if`, `_then` and `_else` are `if`, `then` and `else` in the
generated tables; `test/csvm_test.exs` calls `Csvm.hello`, which does not exist.

## Proofs

Seven of the eight proof modules follow one pattern (`IpcCodec_proofs` has lemmas
only): an inductive invariant (`IInv`, in
`CJson_proofs` `Inductive`, in `CJsonContents_proofs` `Counted`), a lemma `Init => IInv`, lemmas `IInv /\ [Next]_vars
=> IInv'` by cases on the action, and theorems that draw the properties from it. They hold for every value of the constants that
satisfies the assumptions named in the modules.

`IpcBuffer_proofs` (assumes `MaxRequests \in Nat`): `TypeCorrect`, `ReadSafety`,
`Progressive`, `PayloadRaceBound`, `Lossless` and `Refinement`. No invariant of
`IpcBuffer` is inductive, because nothing in the state ties the reader's place to
the writer's except the semaphore. `IInv` adds what the program counters say:
`ProducerInv` (the slot holds the last request but while the new one is between
header and store, and every payload up to it is filled in but the one being
copied), `SemaphoreInv` (posted = in the semaphore + in the reader's hands +
acted on; this is what replaces the missing lock), `HistoryInv` (the reader's
copy is at least its turn and at most the slot) and `PaceInv` (without an overrun
the slot is one ahead at most). The refinement maps `StoreRequest` to `Send`,
`ActOnRequest` to `Handle` and every other step to a stutter.

`IpcReader_proofs` (assumes sessions of what `encode` takes, with payload lengths
of 16 bits): `TypeCorrect`, `Framed`, `Overruns` and `Accounted`, for sessions of
any number of requests. `FramedWhileAligned` says nothing of a request that is
half read. `IInv` adds `PipeInv` (stdin is the end of the wire), `CursorInv` (the
cursor is in the buffer until something was stored past it) and `Progress`: behind
`k` requests of 30 bytes, `Reading(k)` says which bytes of request `k + 1` are in
the buffer and what the header decoded last says of it, and behind the last,
`Ended` says that the pipe is empty, that what is read are 255s and that the header
they make announces more than 15 bytes, so that no request comes of it. `Wire` is a
concatenation by a function over places; that there is one, what a
prefix of it is and how long it is are shown by the least place that fails.

`IpcCodec_proofs` has the lemmas for this and the next module: a packet is cut
along its fields (`HeaderLayout`, `PacketLayout`), two bytes are a number modulo
65536 (`TwoBytes`), and the copies of the decoder leave the operation and the
namespace whole in any memory (`HeaderDecoded`).

`IpcExchange_proofs` (assumes requests that `encode` takes, structs whose size field
is the length of their payload, 16-bit responses): `TypeCorrect`, `RequestRoundTrip`
and `AnswerRoundTrip`. `IInv` says at every point of an exchange what the wire
holds, as the value of the encoder that wrote it.

`CelerySlicer_proofs` (assumes the scripts are well formed, for sets of scripts
and nodes of any size): `TypeCorrect`, `UniqueKeys`, `NoDanglingAddress`,
`BodyPrediction`, and, for scripts that are trees (`TreesAssumption`, which the run of
`CeleryLoad` evaluates on what the reader makes), `Tracking`, `LinksRight`,
`PreorderLayout` and `ReachedFromRoot`.
`BodyPrediction` has to look ahead: `slicer_iterate_over_body`
stores `prev_addr + 1` before anything is allocated there. `IInv` is `TypeOK` with
`History` (the scripts sliced are among those given), `Frames` (`FrameOK`: the
entry at the address of a frame past `enter` was made for its node, and is the
newest entry while the frame is at index 0 of its body loop; loop indices are in
range; frames below the top wait in `bodyReturn` or `argReturn`), `KeysUnique`, `NoDangling`, `Predicted` (a
stored `HEAP_BODY` is the next address, and that entry is or is about to be made
for the first child) and `Present` (every node past its first body item has the
pair). `KeysUnique` is needed even for the others: only with unique keys does a
`heap_put` leave one pair under its key, and every other pair as it was.

`LinksLead` speaks of sliced scripts only, so `LinksRight` needs an invariant for the
walk (`Tracks`). `LinksSoFar` says how far the entry of every call is linked, by its
place: `HEAP_NEXT` after `BodyCount` items of the body, the arguments up to
`ArgCount`; entries without a call are linked to the end. That the address stored is
the right one is `Answer`: the call that just returned was for the `Pending` child of
the one below, because the calls are a `Path` down the script. That no entry is
linked twice over is `Once` (no node has two entries, no child one before its
parent) with what `Path` says of the children still `Ahead` of a call: they have none
yet. This is where the script must be a tree: a node in two places would be
ahead of one call and sliced by another.

`PreorderLayout` needs to know what lies in the heap while scripts are still being
sliced (`Layout`): the finished scripts one behind the other, and then, for every call
in progress, its node with as much of its body and its arguments as the call has
come to (`Held`), from the entry of the call up to where the next one begins (`Until`).
Each turn of a loop leaves this as it is or moves one subtree from the call that
returns to the one below it. That the recursive function `Orders` exists at all is
shown from `IsTree`: the nodes are finitely many and all below the root, so every set of
nodes but the empty one has one with no child in the set (`Grounded`), and the largest set of nodes
whose orders are known is that of all (`OrdersIs`). `FlattenSeq` of the library is
recursive too; `FlattenIs` and `FlatSame` say what it gives.

`ReachedFromRoot` says what a reader can get to. `Contents` says that an entry has no
pairs but links and arguments, that the NOTHING entry leads nowhere on, and
that the root of a finished script has an entry. With `LinksSoFar` this makes the
links out of an entry those to the children that stay linked, each way
(`LinksLeadOn`, `LinkedAreLed`), provided the arguments have numbers of their own,
and two walks that agree in every step agree in what they reach (`SpreadsMatch`).

`CsvmServer_proofs` (assumes the four bounds are natural numbers): `TypeCorrect`,
`PortNotice`, `Forgotten`, `WrongAfterLost` and `Refinement`. The properties say
nothing of what is still on its way, so none is inductive but
`WrongOnlyAfterLost`, and that one only with the others. `IInv` is `Typed` (the types, with natural
numbers for those of calls), `Down` (a server that is not up has no messages and
nobody waits for it), `Told` (a closed port has its notice in the mailbox),
`Queue` (commands are sent in the order of their numbers, those in the mailbox
are later than all that were sent, and the one to reply to was sent last and has
no reply), `NobodyForgotten`, and `Streamed`: the responses already given, the
data in the mailbox, what the port has yet to read and the packets the VM has yet
to take are one increasing stream of halves of responses, cut anywhere, every one
to a command that was sent. With `Streamed` a decoded response is later than any
used before, which is what `LateReplies` promises, and a response given to a
command it is not for leaves an earlier command without one for good: if its own
command had a reply, that reply was a wrong one too, and so on down. The
refinement maps `HandleCommand` and `HandleCommandDegraded` to `Command`,
`HandleData` to `Reply`, and every other step to a stutter.

`CJson_proofs` (assumes `NULL` is no item or name, and the bounds are natural
numbers): `Forested`, `PointersLinked` and `ItemsOwned`, the part of `OneOwner`
about items. `Linked` is not inductive: a list that is a ring is linked both ways,
and nothing in it says that what is deleted is not still pointed to. `Inductive`
says that the pointers are a *forest* of the live items with those held or lost as
roots: no pointer leads to a root (`AreRoots`), one leads to every other item
(`Rooted`), and any set of items has one that no item of the set leads to
(`Grounded`, there are no cycles). Five lemmas are about forests as values: a root is put
into a list (`Attach`), an item is taken out (`TakeOut`), a root is freed with all
below it (`FreeRoot`), two forests are united (`Unite`), a forest is copied
(`Copied`). Each operation is one or a few of these: `Replace`, with its up to
six pointers, is `TakeOut`, `Attach`, `FreeRoot`. What is below an item is a
`Subtree`: closed under the pointers, and each of its items but the first has its
predecessor in it, which follows from `Freed` being the *least* closed set.

`CJsonContents_proofs` (the same assumptions; the set of items need not be finite,
that of live ones is at any time): `BlocksCounted`, `TypeCorrect`, `BlocksOwned`,
`ReplacementFound`, `ListsEnd`, `InsertionShifts` and `TreeImplemented`.
The number of blocks is a sum over a set, in the library a fold, in a proof a function
on the subsets of a finite set that takes one element off at a time. That there is
one, and that the sum is the same in whatever order, over disjoint unions and under a
renaming, is shown once (`Total`), by taking a smallest counterexample: no theorem of
the library that takes a predicate is needed. Then each operation keeps
`Counted`: `blocks` is the total over the live items, because it adds to both sides
what it allocates and takes from both what it frees.

`ReplacementFound` needs no sequences: what comes first in a list is a matter of
what is reached from what, and a list in which one item is substituted for another is
reached in the same order (`SubstitutedList`).

A list with a cycle is no sequence, and one through infinitely many items is none
either. The forest rules out the one, `Counted` the other, because it says that the
live items are finitely many. So a list has a last item, and from there back a sequence
is built (`WalkExists`); there is only one (`WalkUnique`), so the recursive function
`Sequence` is known: that is `ListsEnd`. The `Walk...` lemmas say what a changed pointer or two does to it
in terms of `InsertAt`, `RemoveAt` and `ReplaceAt`, and `ChildWalk`
what the sequence of the children of an item has to do with `next`, `prev` and `child`.
`InsertionShifts` is one of these applied to `cJSON_InsertItemInArray`.

`TreeImplemented` maps the live items to those of `JsonTree`, each with its `Kids`,
which are none for a reference. `JsonTree` defines what is below an item by its sequences, the code
by its pointers; `BelowIs` shows the two equal. Every action of `CJson`
then has one lemma, `...Is`, that names its step of `JsonTree`: additions and
`cJSON_InsertItemInArray` are `Put`; creating and copying items is `New`, because
the items made are all below the root the client is given; an item that a
failing call leaks is `Lose`. These need `Walks` before and after the step, which
`ListsEnd` gives.

Only model-checked:

* liveness (`ActedOrSuperseded`, `AlignedDelivered`, `DegradedHeals`) and
  everything about fairness, which the prover does not treat;
* the round trips of `CJsonText` and `CeleryLoad`, which are induction over texts and
  values given by `RECURSIVE` operators: TLC evaluates these, the prover does not
  take them.

## Not modelled

* The NIF test: an experiment without state. Makefile, `mix.exs` and `lua.patch`:
  build files. The corpus generator: a build-time task that only formats; what it
  makes, `corpus.c`, is modelled.
* Of cJSON: `valueint`, the version string, `cJSON_SetNumberHelper` and the type
  predicates.
* Failing allocation outside cJSON: `exit(1)` in the heap, unchecked elsewhere.
  Debug output: goes to stderr,
  not to the port.
* Terminal settings and `PR_SET_PDEATHSIG`.

## Plan

Done: the request path of the VM (buffer, reader, codec), the GenServer with its
surroundings, the slicer and its heap, the way of a script from its text to
`out.json`, cJSON in full but for what is listed above, and the proofs, for cJSON
items down to the refinement of `JsonTree`, for the slicer down to the order of the
heap and what is reached in it. Left:

1. `CsvmSystem`: the GenServer, the byte reader and the slot composed, with one
   abstract specification for the whole path, and the crash of the server under a
   VM that keeps running on an ended input.
