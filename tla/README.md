# A specification of fastwebsockets

TLA+ modules for the protocol logic of this crate, model-checked with TLC on
small instances, and theorems about them checked with TLAPS. The crate is an
implementation of RFC 6455 over any async byte stream: `src/lib.rs` (the
connection), `src/frame.rs`, `src/mask.rs`, `src/close.rs`, `src/fragment.rs`,
and, around the HTTP handshake, `src/upgrade.rs` and `src/handshake.rs`. Paths
in this file are relative to the crate; `PROJECT.json` maps every definition to
its lines and lists runs, mutants, findings, hazards and theorems.

## The system

| Component | State | Operations | What makes it correct |
| --- | --- | --- | --- |
| `WebSocket<S>` (lib.rs) | the stream, a `ReadHalf` and a `WriteHalf` | `read_frame`, `write_frame`, `flush`, setters, `is_closed`, `split`, `into_inner` | one Close at most, nothing behind it; a peer's Close is answered; pings are answered in order; no data behind one's own Close |
| `ReadHalf` (lib.rs) | role, `auto_close`, `auto_pong`, `auto_apply_mask`, limit, read-ahead buffer | `parse_frame_header`, `read_frame_inner` | each frame yields a result and at most one obligated reply, which the caller sends unless closed |
| `WriteHalf` (lib.rs) | role, `closed`, `auto_apply_mask`, `vectored`, threshold, write buffer | `write_frame` | `closed` is set exactly by a Close, before its first byte |
| `Frame` (frame.rs, mask.rs) | fin, opcode, mask, payload | constructors, `mask`, `unmask`, `fmt_head`, `write`, `writev` | masking is undone by unmasking; what is written parses back |
| `CloseCode` (close.rs) | - | two conversions, `is_allowed` | the tables are inverse; only codes that may be sent are allowed |
| `Fragments` (fragment.rs) | the message in progress | `accumulate` | whole messages, valid text, bounded memory |
| `FragmentCollector`, `FragmentCollectorRead` (fragment.rs) | a connection, or its read half, and a `Fragments` | `read_frame`, `write_frame` | the message in progress survives whatever happens between its fragments |
| `WebSocketRead`, `WebSocketWrite` (lib.rs) | the two halves on two streams | `read_frame(send_fn)`, `write_frame`, `flush` | obligated replies go through the writer the application shares |
| `upgrade`, `handshake` | how far each end is, the request and the response between them | `is_upgrade_request`, `upgrade`, `UpgradeFut`, `client`, `verify` | every attempt ends with two connections or with none |

A `WebSocket` is driven by one task at a time, because every method takes
`&mut self`. Concurrency comes from outside: two ends that talk at the same
time, a stream that fails or is full at any await, futures that a `select!` or a
timeout drops at an await, and settings that change between calls. The loop of
`read_frame` writes replies itself, so that reading may block on writing, fail
because of it, or leave a reply half written. Only the two halves of a split
connection are used by several tasks, which share the writer behind a lock of
their own.

The hard parts, each listed with its line under `hazards` in `PROJECT.json`:
the closing handshake with both ends closing at once and with failed or dropped
writes; replies between the frames of the application; masking decided by role
and setting, not by the mask bit; buffered streams and flushing; both ends
waiting for room; characters cut by fragment boundaries; control frames, failed
replies and dropped calls between the fragments of a message; errors after which
the application may go on; a handshake that one end takes for done and the other
does not.

## Modules

| Module | What it is |
| --- | --- |
| `CloseCode`, `MCCloseCode` | close.rs, for every u16 |
| `Frames` | frames, constructors, masking |
| `Halves` | what `read_frame_inner` makes of a frame, what `write_frame` does before it writes; pure operators shared by all front ends |
| `WebSocket` | one or more ends: the state of the halves, of the running call and of the stream's out-direction; an action per method, reply, failure and dropped future |
| `AnyPeer`, `MCAnyPeer` | `WebSocket` with an arbitrary peer and application |
| `Transcript` | abstract: a log that grows, ended by a Close |
| `Handshake` | upgrade.rs and handshake.rs: request, checks, response, checks, and the futures behind it |
| `Session`, `MCSession` | a client and a server from the handshake on, connected by a stream, each with the application loop of the examples |
| `Utf8` | the `utf8` crate's `decode` and `try_complete` over classes of bytes |
| `Fragments` | `Fragments::accumulate` |
| `Collector`, `MCCollector` | `FragmentCollector` and `FragmentCollectorRead`: `Halves` and `Fragments` in their two loops |
| `Messages` | abstract: keep all bytes of the message and judge them anew each time |
| `Split`, `MCSplit` | `WebSocketRead` and `WebSocketWrite`: one reading task, several writing ones, and the lock between them |
| `MCCodec` | `Masking`, `MCFrameHeader` and `MCCloseCode` in one run, each walked through on its own |
| `FrameHeader`, `MCFrameHeader` | the bytes of a head: `fmt_head`, and how the parser takes them apart |
| `FrameParser`, `MCFrameParser` | `parse_frame_header`: an action per await and per return, over bytes |
| `FrameWriter`, `MCFrameWriter` | `Frame::write`, `Frame::writev`, `write_all` against a stream that takes any part |
| `FrameQueue` | abstract: frames written are read, once, in order, unchanged |
| `FrameLink`, `MCFrameLink` | `FrameWriter` and `FrameParser` joined by a stream of bytes |
| `Masking` | mask.rs: prefix, words, suffix, in both byte orders |
| `DataProofs`, `HalvesProofs` | lemmas on numbers, sequences, bytes and heads, and on what the two halves return |
| `WebSocketProofs` | theorems on `AnyPeer` and on `Session` |
| `SplitProofs`, `CollectorProofs`, `CodecProofs` | theorems on `Split`, `Collector` and `MCCodec` |
| `ParserProofs`, `FrameProofs` | theorems on `FrameParser`, and on `FrameWriter` and `FrameLink` |

How `WebSocket` stands for the code:

- `closed` is `WriteHalf::closed`; `cfg` the role and settings. `auto_apply_mask`
  lives in both halves and is set in both by the one setter, so one field
  stands for the two.
- `pc[e]` is the await at which the running call of end `e` stands: `"read"` in
  `parse_frame_header`, `"write"` in the application's `write_frame`, `"reply"` in
  the one that `read_frame` makes for an obligated reply. `out[e]` holds the
  frame being written, `after[e]` the result that `read_frame` holds meanwhile
  (a local variable of the code), `last[e]` the last result given.
- `HearFrame` is all that happens between the end of parsing and the next await:
  `read_frame_inner`, the sampling of `is_closed`, the refusal to reply when
  closed, masking of the reply, setting `closed`; or, with no reply, the end of
  the iteration (`Settle`): loop, return, or `ConnectionClosed`. `WriteDone` is a
  successful write and what follows it.
- `WriteFails`, `DropWrite` leave nothing or part of the frame on the wire
  (`whole = FALSE`). `closed` stays as the code has set it.
- A write to an unbuffered stream is passed on at once. The stream of an end in
  `Buffered` may pass on as much as it likes and has to at a successful `Flush`.
- `heard`, `owed`, `lost` are history variables that only properties read.

Data are abstracted to what the code tells apart. A payload is a content and
the set of keys it is XORed with; of a content only its size, its first two
bytes, and whether it, or its part from the third byte on, is UTF-8 are known. Where the
code inspects bytes that are still masked, both answers are possible. The vectored
and the plain way of writing differ in bytes only and are one action; to parse
is one event, a frame or one of the errors. Both are taken apart in the modules
of the bytes.

How the modules of the bytes stand for the code:

- `FrameParser`: `stage` is the await at which the call stands, `"start"`,
  `"length"` or `"payload"`; what the code has taken out of the buffer by then is
  in `local`, which is gone when the call fails or is dropped, while `buffer`
  stays. `ReadBuf` takes any number of the bytes that have arrived. Between two
  awaits the code runs alone, and is one action.
- `FrameWriter`: `how` says whether the write stands in `write_all`, in the
  first call of `write_vectored` or in its loop; `n`, `head` and `rest` are the
  locals. The stream takes any part that is not empty, until it is full for ever.
- `FrameLink` sets the writer's `accepted` for the parser's `wire`. Its stream
  does not fail and its reads are dropped only where that loses nothing.
- A payload here is a sequence of bytes, masked or not; opcodes are numbers.
- `Masking`: a byte is a set of bits, a word its four bytes. Every call may find
  any alignment, and any number of words that fits, as `align_to_mut` may
  return; the fault of a wrong rotation shows at once.

How `Split` stands for the code: the reader's `send_fn` and each writer are
`w.lock().await.write_frame(frame).await`, as in tests/split.rs. `asked[t]` is the
frame of a task from its call on, `holder` the task that has the lock. `Acquire` is
everything from the lock to the first await of the stream, or, when `closed` is
set, to the return. `held` is `res` of `read_frame`, which an error of `send_fn`
replaces. Each half has its own `auto_apply_mask` here (`cfg` and `masks`). A
connection that was used before it was split adds nothing: what it may have
written and set are states that `Split` gets to when writers and setters act
before the reader does.

How `Collector` stands for the code: `pc` is the await of the loop, `held` the `res` of
`read_frame_inner`, and `front` says which of the two collectors it is, with the
settings of the connection it was made of. `Hear` is what happens between the
end of parsing and the next await, as in `WebSocket`, `Settle` the call of `accumulate`
and the return, or the next turn of the loop. A reply is written through
`write_frame` or `send_fn`; here it succeeds, fails, or is dropped, and what it
puts on the wire is the subject of `WebSocket` and `Split`. `closed` stays unset in the
split form, which does not look at it. `due` is a history variable: the frame heard that
`accumulate` has to be given. Frames come masked as they should and are
unmasked (`auto_apply_mask` is set).

How `Handshake` stands for the code: a header is the sequence of its values, each a list of
tokens, because the server looks into the lists of all values
(`header_contains_value`) and the client at the first value as a whole. `SendRequest`, `Verify`
and `Open` are the stretches of `client` between its awaits; `Serve` is the service function,
which calls `upgrade` behind `is_upgrade_request` or without it, and answers 400 or gives
up when it fails. hyper is external: of a request without an Upgrade header it upgrades
nothing, also behind a 101, and the `UpgradeFut` fails (`Strand`). In `Session` the
handshake comes first; an end does nothing with its connection until it is open, and then
has the settings of `after_handshake`.

In `Fragments`, a byte is one of five classes (ASCII, lead of two, lead of
three, continuation, never valid), so that overlong forms, surrogates and
four-byte characters are not distinguished; the logic of cutting, waiting and
completing does not depend on them.

## Runs

| Run | Instance | What it shows |
| --- | --- | --- |
| `any_peer` | one end in either role; a peer that masks by its role or does not; texts, pings and five kinds of Close; an application that writes, echoes and switches all three settings; two keys; stream failures, dropped calls; 2 frames heard | the closing handshake, pongs, the form of replies, refinement of `Transcript` |
| `session` | 5 requests, two of them good, then client and echoing server, each may text, ping, close while its log is shorter than 3 | the end of a session seen from both sides, and liveness |
| `tight` | 6 requests, one of which only hyper refuses; then room for one frame, one end buffered, a client that may leave at any time | writes end, except when both ends wait for each other; handshakes end alike at both ends |
| `fragments` | both collectors; 12 payloads that cut and break characters, limit 5; pings, pongs and four kinds of Close between them, replies that fail, calls that are dropped | refinement of `Messages`, UTF-8 of results, bounded memory |
| `split` | a reader, two writers (symmetric) that say data or Close, failures, dropped calls, all settings of both halves switched; 2 frames heard, 1 on the wire when a writer begins | the promises of the closing handshake when several tasks write, and which frames a `SendError` may hide |
| `frame_parser` | pairs of good and bad frames, heads in all three forms, limit 4, every cut, every chunk, drops and errors at every await | results are earned, waits are limited, frames that are there are read |
| `frame_writer` | 3 frames, empty to longer than the threshold, with and without key | the bytes of the frames and nothing else; writes end or spin |
| `frame_link` | 2 frames of four kinds, every chunk at both ends | refinement of `FrameQueue`, its liveness included |
| `codec` | 0 to 9 bytes masked at all alignments in both byte orders; heads on both sides of every edge of the length, with all opcodes; all 65536 close codes | masking by the rule, and undone by itself; heads read back; the tables of close.rs |
| `read_text`, `echo`, `full_messages` | small instances | one finding each, below |

Bounds. In a handshake nothing is counted; the requests are the ones of the examples and of a
browser and one for each check that can fail. `MaxHeard` = 2 lets a Close or a ping be followed by another frame of
any kind, with the application's writes and settings before, between and
behind the two. `MaxWire`
bounds only the application's writes; replies come on top. The invariants of an
end relate what is written to at most one pending frame and one flag, and the
ones the proofs cover hold without any bound. In `session`, three writes per side are enough
for data, a ping and a Close of both to cross. `Capacity` = 10 never
binds there; in `tight` it always does. Characters have at most three bytes and
a message at most four, so that a character can be cut twice and be followed by
another one. In `split` the bound on `wire` lets both writers and a reply wait
for the lock at once, before anything is out. In the runs of bytes a payload has
at most four bytes, some of which look like heads, and the limit is 4: the
parser's branches depend on which of the lengths is met, not on their size;
the sizes at which a form changes are the subject of `codec`. Nine bytes
of payload are two words and a byte, at any offset.

Fairness (`Session!Fairness`): the tasks of the handshake go on, and hyper passes request and
response; each application that is between calls goes on to
read and leaves when its loop is over, as the `loop { read_frame }` of the
examples does; a buffered stream's application flushes before it waits, which
the comment of `flush` demands; the stream delivers what it holds and takes what
it has room for, which is what the executor and the transport owe to a task that
is polled. Nobody owes a write, a Close or an interruption, so these are not
fair, and no strong fairness is used there.

In `FrameParser` and `FrameLink` the application calls again, what is there is
parsed, and a read that is polled again and again takes the bytes that have
arrived, even if it is dropped now and then in between: that is strong fairness
of `ReadBuf`, since a dropped read does not wait. In `FrameWriter` the stream
answers every call, which need not be progress. Neither needs the peer to say anything. `AnyPeer` and
`Split` are checked for safety only.

Deadlock is checked where an end can
always do something (`any_peer`, `fragments`, `split`, `frame_parser`,
`frame_link`); two idle listeners of a session rightly wait for ever, the walk of
`codec` ends, and a writer that spins or has written its last frame stops.

## What the runs found

Each of the following is a run that TLC must find violated.

- `echo`: `Frame::unmask` leaves `mask` set. A server that writes back the frame
  it has read, as the example of `read_frame` does, sends the mask bit and the
  client's key in front of a plain payload. (The collector builds new frames and
  is not affected.)
- `read_text`: `WebSocket::read_frame` promises valid UTF-8 in Text frames and does not look.
- `full_messages`: a fragmented text that ends inside a character is returned
  without these bytes, where an unfragmented one is refused.

Noticed in the same reading, and without a run of their own:

- `set_max_message_size` says that the connection is closed when a larger message
  arrives; the code returns `FrameTooLarge`, also for a message of exactly that size,
  and leaves the connection open (lib.rs:725).
- Automatic pongs are written without a flush while `read_frame` goes on: on a
  buffered stream they stay there until something else is written or flushed.
  `session` therefore has unbuffered streams, and the buffered end of `tight` flushes
  before it reads.
- A first fragment in the middle of a message discards what was collected, where
  a complete message in its place is refused (fragment.rs:249).
- `fmt_head` returns the size of the whole head, up to 14 bytes with a key; its
  comment speaks of the length field, at most 10.
- `writev` takes `Ok(0)` for progress and goes on for ever, where `write_all` fails
  with `WriteZero`: the exception of `WriteEndsOrSpins` (frame.rs:322).

`frame_parser` shows what its `~lost` excuses: a `read_frame` that is dropped, or fails,
behind the first two bytes of a head leaves the next one in the middle of a frame. The crate does not
promise otherwise; an application that selects over `read_frame` has to know.

`tight` shows, besides what it checks, why its exception is needed: with both
ends in a write at once nobody reads, and the two calls wait for each other.
The state `Wedged` is reachable; an application that must not get there has to
split the connection.

## What is proved

Every invariant and every action property that a passing run checks is also a theorem,
for every value of the constants that the assumptions allow: any number of
ends, any payloads and keys, any peer, any sequence of calls and failures, and
with no bound but the ones named in the guards, which may be any numbers.

**`CodecProofs`.** `RoundTripTheorem`, `AllowedTheorem`: the range of the
number is the invariant; the tables are compared by cases on the ranges.
`MaskingTheorem`, for a byte of any bits and payloads of any
length: `MaskWordTurns` says that the turned word is the key begun at the
first aligned byte, in either byte order; `FallbackIsRule` follows by the three
ranges of the index, and `RuleTwice` that a second call undoes the first.
`HeadTheorem`, for every length below 2^31: that the digits of a length, in two bytes or
eight, are put together again to the same number (`BeBytesReadBack`), and that flag, opcode
and length code do not spill into each other (`FmtHeadReadsAs`).

**`WebSocketProofs`, one end.** `TypeCorrect`: lemmas give what masking, the constructors and
the two halves return (`ReadFrameInnerMeaning` says when a reply is owed);
then one lemma per action. `EndStep` is the union of the steps of an end over
all frames and errors, and `NextIsEndStep` says `AnyPeer!Next` is part of it.
`RepliesInFormTheorem`: only hearing a frame leads to a reply (`RepliesAreHeard`), its
payload is plain when the frame was in form (`ReplyIsPlain`), and what
`write_frame` makes of it is in the form of the role (`ReplyInForm`).

`FlagTheorem`, `CloseTheorem`, `AnswerTheorem`, `NoDataTheorem`, and
`TranscriptTheorem`, the refinement of `Transcript`: the invariants are not inductive one
by one. That nothing follows a Close
needs to know that while a frame is pending no Close is out, and that an unset
flag means the same (`FlagMatchesWire`). That a Close is reported only when
answered needs a fact about the middle of a call: what is held in `after` behind a reply
is a Close, or the refusal of one, and the reply is a Close too (`HeldBehind`).
`Safe` is the conjunction of all of these per end, and `Inv == TypeOK /\ Safe` is
preserved: the end that steps by one lemma per kind of step, any other end because
nothing of it changes (`Elsewhere`).

`PongsTheorem`: the invariant `Mirrors` counts the reply that is being written as if it were
on the wire (`Answers`), since `owed` is set when a ping is heard.

**`WebSocketProofs`, two ends.** `CloseIsFinalTheorem`, `PayloadsTheorem` and
`LeavesAnsweredTheorem` have one invariant, `Connected`: to the facts about each end it adds
what relates the two. What an end has heard is a prefix of what the other has written
(`Heard`), each frame in a form that the other role unmasks (`Says`), a Close that is
delivered or held is the last frame heard (`Delivers`), and reads and writes fail only
when the other end is gone (`Unharmed`). A Close is the last frame of a log
(`ClosePlace`, from `Safe`), so that the two prefixes are equal once it is heard.
`NobodySeesEOFTheorem` needs more, and names when it holds (`Courteous`): nobody quits,
nothing waits in a buffer, each Close of an application has a code and a reason that
`read_frame` accepts, and no request is one that only hyper refuses. Its invariant is
`Parting`, `Connected` with `Polite`: a Close that is heard is being answered, or was handed
over by the call that has returned, and whoever is gone is done. The constants of the run
`session` are of this kind; those of `tight` are not.

`HandshakeTheorem` is the safety behind `HandshakeEndsAlike`, for any requests: no end is open
while the other one has failed, but for the stranded server. `Agreed` relates the stages
of the two to the response on its way: a client that waits for a server that has gone
on is about to read a 101, and any other answer passes no check of `verify`.

**`SplitProofs`.** `SplitTyped`, `SplitFlag`, `SplitClose`, `SplitAnswer`, `SplitRefusal`,
`SplitTranscript` and `SplitPongs`, for any number of tasks behind the lock. The facts are cut
differently here, since a frame that waits for the lock is
not yet marked: `Shape` says who holds the lock and what is pending (with `TypeOK`), `Wired`
what `closed` says of `wire` and of the pending frame, `HeldBehind` that a Close, or its
refusal, held by the reader waits behind a Close of its own, asked for or written, and
`Answered` what a reported Close means. `Inv` is their conjunction. For the pongs, `Mirrors`
says that what is owed is replied, or is the one frame that the reader has asked for,
until a Close of whichever task comes before it.

**`CollectorProofs`.** First, what `decode` and `try_complete` return for any bytes.
`DecodeIsUnique`: a text is whole characters, then at most one that is cut, in one way only; so
a chunk decoded behind what was cut before gives what the whole gives (`TryCompleteSplits`).
Then `CollectorTyped`, `CollectorText`, `CollectorLimit`, and `CollectorCollects`, the
refinement of `Messages` by both collectors. The invariant is `Held`, that the buffer of a
text is whole characters and `incomplete` the beginning of one (`HeldIsText`), with the limit
and the types; for the refinement also `Counted`, that `message_len` is
exactly what is held as long as the message is sound, and `HeldWasSaid`, that the loop
gives `accumulate` the very frame it heard. `AbsorbSplits` says that judging the
message with a chunk appended is judging it with what is held and the chunk.

**`FrameProofs`.** `WriterTyped`, `WriterTheorem`: until a write is torn, what the stream has
taken and what the running write still has to write are the bytes of the frames begun
(`WriterInv`, with `Left`, which is cut out of `rest`, or of `head` and `rest`, by the stage of the
write). `AlignedTheorem` and `LinkImplementsQueue`, the safety part of the refinement of
`FrameQueue`, rest on `LinkInv`: the buffer shows the bytes of the stream up to `got`
(`Window`), the frames returned begin the frames written, and at each await the
parser stands at a known place of the next frame, with that frame's fields in its locals
(`StageInv`). That the bytes there are that frame's is `WindowShows`, and that
the parser takes its fields out of them `LaidReadsAs`.

**`ParserProofs`.** The peer may send what is no frame of RFC 6455, and calls may be given up
anywhere. `WaitTheorem` needs only what holds at any place of the stream (`Anywhere`):
behind a length there is a checked one. `RefusedTheorem` needs that the refused head is still
in the buffer (`StillThere`): the errors for the first two bytes come before they are taken.
`EarnedTheorem` needs the place, and has it until a call is given up in the middle of a frame
(`~lost => InPlace`).

**`DataProofs`.** Least members and induction over a set of numbers, `FlattenSeq` of one more
part and of a prefix, the window that a buffer is on a stream, the digits of a number, the
bytes of a head and what is read out of them.

Assumptions: the named ones of `Frames` (types; a refused Close keeps its
size), `WebSocket`, `AnyPeer`, `Split`, `Fragments`, `Masking`, `MCFrameHeader`, `FrameWriter`
(types of the parameters; a payload is no longer than the largest length), and:

- `CollectorAssumption`: no payload reaches the limit, which `parse_frame_header` sees to.
- `SessionAssumption`: the two ends, room for at least one frame, and frames of the
  applications that nobody has masked, as the constructors make them.
- `FrameParserAssumption`: a head that is accepted announces the length of the payload behind
  it. Nothing else could be meant: with another length the bytes of the next frame are this one's payload.
- `FrameLinkAssumption`: the writer's frames are ones that the reader at the other end accepts.

TLC evaluates all of them in the runs. The lemmas on UTF-8 are about `IsUtf8` as
the module defines it, over classes of bytes.

Only model-checked is what needs fairness, of which TLAPS has no reasoning here:
`CloseCompletes`, `PingIsAnswered`, `WriteEndsOrWedged`, `HandshakeEndsAlike`,
`EveryFrameIsRead`, `WriteEndsOrSpins`, and of `LinkIsQueue` that every frame is read in the end.
The findings are runs too; a theorem cannot state what is violated.

## Not modelled

- `into_inner`, which gives up what was read ahead; `flush` of `WebSocketWrite`, a call of
  the stream under the same lock; `set_writev` and its threshold in `WebSocket`, where both
  ways of writing are one action (`FrameWriter` has both).
- In `Collector`, `auto_apply_mask` unset: text is then checked while it is still
  masked, and what comes of it depends on the keys.
- The key of the handshake and the digest of it (`generate_key`, `sec_websocket_protocol`): the
  client does not compare the digest it gets, so that nothing in the crate depends on its value.
- HTTP itself: parsing, the other methods and versions, the executor of
  `client`. The stream of the handshake loses nothing.
- The capacity of the read buffer (`reserve`), and the check of the length on
  machines of 32 bits. Lengths are TLC's integers, below 2^31.
- The SIMD forms of the UTF-8 check: it is the standard one either way.
- Error texts, `Debug`, `From` and `Deref` implementations, examples, tests,
  fuzzing targets and benches.

## Plan

Of the plan this development began with there is left:

1. Two ends of which one is split, with a buffered stream: `flush` of `WebSocketWrite` by a
   task that does not write, and what becomes of pongs in the buffer.
2. The collector inside a `Session`: messages instead of frames, with the limits
   of the two ends at odds.
3. Proofs: that every end of an open `Session` implements `Transcript`; what `NobodySeesEOF`
   becomes when written frames wait in a buffer; that a wedged pair of ends is the only one
   of which nobody can go on.
