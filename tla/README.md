# HostService in TLA+

HostService is a small request/response protocol between a *client* (a PC, say)
and a *server* (a device) on a serial line: the client reads and writes named
properties of the device, protected ones under AES-CCM. The library is C++
(`src/src`, `src/include`); the applications supply the two byte functions
`rx`/`tx`, the timeouts, and `update_nonce()`.

This directory models it in TLA+, checks the models with TLC and proves
the main results with TLAPS.

## 1. The system

| Component | Code | State | Operations |
|---|---|---|---|
| FixedQueue | `include/FixedQueue.hpp` | `_buf`, `_empty`, `_data` | `push`, `pop`, `reset`, `operator[]`, `full`, `empty`, `size`; two kinds, `NoPop` and `PopOnPush` |
| Sync window | `include/HostBase.hpp:5-41` | a `PopOnPush` queue as long as a header | `verify`, `get` |
| HostBase | `src/HostBase.cpp` | the window `_buf_head`; where in a frame `recv()` is | `sync`, `recv`, `send` |
| Extra | `include/Extra.hpp` | buffer, tail `_size`, cursor `_data`, capacity, `_encrypted` | `add`, `get`, `reset`, `truncate`, `readall`, `encrypt`, `decrypt` |
| Permissions | `include/Types.hpp`, `include/PropertyBase.hpp` | – | `check_read`, `check_write` |
| Properties | `include/Property.hpp`, `Memory.hpp`, `Range.hpp`, `HostServer.hpp` | the value each one refers to | `get`, `set`, `get_size`, `get_access` |
| HostServer | `src/HostServer.cpp` | the properties, `secret` | `poll`, `_acquire_and_verify`, `log` |
| HostClient | `src/HostClient.cpp` | its `extra`, its window | `recv_response` |
| Client properties | `include/CProperty.hpp`, `CRange.hpp`, `CMemory.hpp` | – (use the client's `extra`) | `get`, `set`, `get_block`, `set_block` |
| CPropertyHolder | `include/CPropertyHolder.hpp` | the map from names to ids | `refresh`, `get_name`, `get_size`, `get_id_by_name` |
| frozen | `libs/frozen/include/frozen/map.h`, `string.h`, `bits/algorithms.h` | a sorted array | sort, search |
| libcrc | `libs/libcrc/src`, `precalc` | a register; tables filled when they are first used | `crc_*`, `update_crc_*` |
| uAES | `libs/uAES/src/uaes.c`, `include/uaes.h` | the S-box, filled when it is first used; the context of a mode | `Cipher`, `InvCipher`, the key schedule, the modes and their tags |

How they interact. A call of a client property fills `client.extra`, `send()`s
it as a frame and waits in `recv_response()`. On the server `poll()` calls
`recv()`, which finds the frame in the byte stream, then looks the property up,
calls its method on the same buffer, `send()`s the buffer back as the answer,
and renews the nonce if the request was encrypted. Client and server are
separate threads (in the tests) or machines; they share nothing but the bytes
on the line, and in the tests those pass through two `FixedQueue`s that
are used from both threads without a lock.

What is hard about it, and what makes each part correct:

* **FixedQueue between threads.** Nothing is locked and both indices are read by
  both sides; what `full()`/`empty()` saw may be out of date when it is acted on.
  Correct: a bounded FIFO; no slot is read while it is written; a full queue
  gets room again.
* **Framing.** The line loses, damages and inserts bytes and goes silent in the
  middle of a frame. Correct: nothing is returned that was not sent, nothing
  twice or out of order; a fault costs a bounded number of frames; `recv()` never
  gets stuck inside a payload that does not arrive.
* **One buffer for request and answer.** Every error path leaves the buffer with
  its cursor at a different place; `truncate()` decides what leaves the device.
  Correct: no answer tells a plain client anything that depends on what it may
  not read, none exceeds the buffer, and an encrypted answer is under the key
  and nonce of its request, even when the request has just changed the key.
* **Offsets and limits from the client.** Correct: no write ends behind its
  property, ranges stay within their absolute limits, a written block reads back.
* **Permissions.** Correct: what is written and read is what the table in
  `Types.hpp:51-58` grants.
* **Client and timeouts.** A late answer is taken for the answer to a later
  request with the same command; logs keep `recv_response()` waiting; the nonce
  and the key change around the answer. Correct: without timeouts S_OK is
  the truth; each answer is handed out once and in order; every call returns.
* **Calls of several requests.** `CMemory` splits a range into blocks whose
  offsets are 16 bits wide; `refresh()` asks for one name after the other, and
  twice for a name that is refused. Correct: what is left after a failure is a
  prefix, S_OK means all of it, and a name is bound to its own id.
* **A server whose address is a property.** The answer to the request that changes
  it comes from the new address. Correct: a client that turns to the new address and sets
  it again is told the truth.
* **Tables filled without a guard.** The S-box and the table of the checksum belong
  to the process, and each thread that finds one empty fills it. Correct: no
  thread reads an entry that is not there.
* **Loops over data.** The key schedule is undone in place, messages are
  passed in calls of any length and in one buffer, counters carry, and the sort and search
  of the map are recursive and unrolled. Correct: what comes out is what the
  standards say, wherever a message is cut.

`PROJECT.json` lists every such hazard at its line with the properties that
cover it, or the reason why none does.

## 2. The modules

```
BoundedFifo      what a queue promises              abstract
SlidingWindow    what the window of sync() promises abstract
FrameChannel     what recv() promises               abstract
Aes              FIPS 197                           abstract

FixedQueue       the ring and its operations, as operators on a record
 └ SpscQueue     push() and pop() on two threads    implements BoundedFifo
    └ QueueUses   the PopOnPush ring under sync()    implements SlidingWindow, and both uses side by side
HostBase         sync(), recv(), send(), the line   implements FrameChannel
Types            commands, error codes, access checks
 └ Extra and Types are extended by
   Property      the methods of every kind of property, as operators
    ├ HostServer poll()
    └ HostCS     a client and a HostServer (INSTANCE) on a line
       ├ CProperty        get() and set() of CProperty and CRange
       ├ CMemory          get() and set() of CMemory, block after block
       └ CPropertyHolder  refresh()
AddressChange    a server whose address is a property
Client           CProperty, CMemory, CPropertyHolder and AddressChange together

FrozenMap        sort and search of frozen::map
LazyTable        a table filled at its first use, by any thread
Bits             words and polynomials as sets of bits
 ├ Crc           libcrc
 ├ Gf28          the field and the S-box of AES
 │  ├ SboxTable  EnsureSboxInitialized()
 │  └ Aes8, Aes32  the two builds of the cipher     implement Aes
 └ Ghash         the product of GCM
KeySchedule      both ways to come by the round keys, as operators
RoundKeys        the buffer of round keys that is moved forth and back
Blocks           a cipher and an xor of which nothing is known
 ├ Modes         ECB, CBC, CFB, OFB, CTR
 ├ Ccm           CCM
 └ Gcm           GCM
Cfb1             CFB with segments of one bit
```

The `*Proofs` modules hold the theorems: `QueueProofs` those of `SpscQueue` and `QueueUses`,
`LibraryProofs` those of `RoundKeys`, `LazyTable`, `FrozenMap`, `Ccm` and `Aes8`, `ClientProofs` those of `CProperty`,
`AddressChange` and `Client`, the others those of the module they are named after. `MC*`
modules give constants their values. Three modules put others together:

* `Client` is the client's objects over one `HostCS`, that is one line and one
  server. `user` says which of `CProperty`, `CMemory`,
  `CPropertyHolder` and `AddressChange` the application uses in a behaviour.
  (`AddressChange` has a line of its own, with several servers on it.) `CMemory` and
  `CPropertyHolder` are instantiated by way of their `*Proofs` modules, which extend them, so that
  `ClientProofs` can use what is proved there. `MCClient` gives it a server with eight properties.
* `QueueUses` adds the window of `sync()` to `SpscQueue`; `use` says which of the two a behaviour is about.
* `MCLibraries` is a bench for the modules of the libraries, which share nothing:
  `part` says which of them runs. It extends `RoundKeys`, `LazyTable`, `FrozenMap` and `Ccm`, about which
  there are theorems, so that the run checks the very formulas that are proved; their variables and specifications
  have names of their own for that (`MapSpec`, `TableSpec`, `CcmSpec`). The variables of the others are `s1` to `s9`.

### FixedQueue, SpscQueue
A ring is the record `[buf, empty, data]` of the class's three fields, indices
modulo `Capacity + 1` as in the code. `SpscQueue` splits `push()` and `pop()` at
their accesses to shared fields (test, copy, index update) and interleaves them,
in program order: the CMake build of the tests sets no optimisation, x86 keeps
stores in order, and the indices are `volatile`. (The fields are not atomics, so
the C++ standard promises less; on a machine that reorders stores the order
of copy and index update would need a barrier.) A refused `push()` returns false;
`tx()` of the harness ignores it, which is a lost byte to `HostBase`.

### QueueUses
The same ring, here `buf_head`, as `PopOnPush` under one thread: `See` is `push()`, `Get` is what
`Sync::get` does once `verify()` succeeds on a full window.

### HostBase
The peer's `send()`, the line and this station's `sync()`/`recv()`. A byte is
known by its frame and its place there; `Noise` belongs to no frame. Each byte
is a step: `SyncByte` is a turn of the loop of `sync()` with `get()`,
`BodyByte` one `rx()` of the tag, payload or checksum, and the last byte decides
(return, drop as not addressed here, or `goto Start`). `TimeoutSilent` and
`TimeoutEarly` are the `return false`s. A header may announce more than the
buffer holds; `recv()` then reads what fits, and the rest stays on the line
(`ExtraSize`, `ReadLen`). The line's faults are external.

Abstracted: the checksum is right exactly when the bytes are in place, so a CRC
collision, or the image of a valid header inside a payload, is not modelled; which
damage the checksum finds is a question for `Crc`.
`enc` is the mark `send()` puts into the size field.

### Types, Extra, Property
A buffer is `[cells, data, seal]`: what is up to the tail, the cursor, and the
key and nonce it is encrypted under. A *cell* is an id, an offset, a length, an access
level, a number, or a byte of a memory property: the code's sizes are scaled to
cells, with the field order kept. Cells behind the tail are never read and are
left out. AES-CCM is ideal here: `decrypt` succeeds exactly under the key and nonce
of `encrypt`, otherwise it resets the buffer as the code does (`Ccm` is about the mode
itself). Every method
returns `[err, extra, value]`; the error paths return the buffer exactly as the
code leaves it. `Below` is C++ `<`: false when a side is `NaN`.

### HostServer
`Poll(q)` is a whole turn of `poll()`: decryption, `_acquire_and_verify()`, the
method, `send()`, `update_nonce()`. One step is right since `poll()` runs in one
thread and nobody sees its state before the answer. `Return` is the start of the
next turn, where `recv()` resets the buffer. `update_nonce()` is the
application's: it picks any of `Nonces`, the same one included (the tests'
does nothing). The values of properties change through requests only; an
application that changes them itself is not modelled.

### HostCS, CProperty
`HostCS` instantiates `HostServer` and adds the line and the client's side of a
call: `Send` (`send()`), `PassOver` and `Take` (a turn of the loop of
`recv_response()`), `TimeoutSilent`/`TimeoutEarly` (`recv()` returned false), and
`log()` of the server. The line is `FrameChannel`: in order, once, or not at
all; a frame is lost as the oldest on the line, which is no restriction because
nobody sees it earlier. Frames carry the number of the request they belong to,
which no action reads but the ghost `took`. The address is the same on both ends
and does not change.

`CProperty` is the application calling `get()` and `set()` one after the other:
`Call` up to the request, `Answered` from the answer to the return,
`CallRefused` for the errors that need no server. Client and server each have
their `SecretHolder`, as two machines do (in the tests they share one). `Kept`
is the application: a nonce it has read and a key it has set are put into
`client.secret`. Cells that are still encrypted read as `Ciphertext`.

### CMemory
`Begin` is `get()` or `set()` up to the loop, `SendBlock` is `get_block()` or
`set_block()` up to the request, `BlockDone` and `BlockFailed` are the turn of the loop behind
it. The whole blocks and the remainder are one series, which `MoreBlocks`
ends: `moved` stays behind a remainder, as `_offset` does. Offsets wrap at
`MaxCell` as `Size` does at 65535. `before` is a history variable: what the
server held when the call began. A protected transfer of several blocks goes on
under one nonce; with an `update_nonce()` that changes it, it ends with the second block,
and `PrefixWritten` holds of that end too. Of an empty range nothing is sent and nothing is asked
of its offset (`n = 0` in `PrefixWritten`): a set of no bytes behind the end of a property is S_OK.
`BlockMax` is a number a `Size` can hold, and not 0: it is the length of the first request.

### CPropertyHolder
`refresh()` as its requests: `AskPlain` and `AskSealed` are the two calls of
`get_name()`, `NextName` the end of a turn of the loop. `SealedAnswered` decrypts,
with the client's secret, which `refresh()` does not renew.

### AddressChange
Several servers see each request; `Serve` drops it or sets the address *and then*
answers, with the header made behind the property's `set()` (`HostBase.cpp:142`).
`Take` is `recv()` of the client, which drops frames from other addresses.

### FrozenMap
`quicksort()` with its stack, `partition()` turn by turn, and the search:
`SearchFirst` is `doitfirst()`, `SearchFast` is `doit_fast()`, with the lengths at
which the template stops looking. Strings are sequences compared as
`basic_string::operator<` does. The length of the part that is left, the source's `n`, is `rest`.

### Crc
Registers are sets of bits. A `Fed` byte goes through the table and the shifts
of the function; `RemainderOf` is what a check is by definition, a remainder
of polynomials over GF(2). The tables are the functions that fill them; those of crc32
and crc64, which the build makes with `precalc`, are modelled by `precalc`.

### LazyTable, SboxTable
`LazyTable` is the unguarded initialization on several threads, with a store
seen by its own thread at once and by the others later, in order (`Drain`). The entries are 0 to `LastEntry`.
All threads write the same values, so that an entry is empty or right;
that these are right, and that the loop gets round to 1, is `SboxTable`.

### KeySchedule, Aes8, Aes32, RoundKeys
A byte or word is the set of its bits that are 1. `Aes8` and `Aes32` are
`Cipher()` and `InvCipher()` of the two builds, a round a step, for each
length of the key and both ways to come by the round keys. Both implement `Aes` under
the refinement `Matrix`: `Aes8` keeps the block as 16 bytes, `Aes32` the rows of the
matrix as words. For `Aes8` this is proved, of every key and every block (section 4); TLC checks
it for both, and that the answers are the published ones. HostService builds uAES with `UAES_ENABLE_256`, stored keys,
the S-box as a table, 32 bits and CCM alone (`libs/uAES/CMakeLists.txt:21-22`), and
calls it in `Extra.hpp:92` and `:124`; the others are options of the same source.
`RoundKeys` looks closer at the buffer that is moved (`UAES_KEY_CONFIG` 0):
word by word, with words and their step left open.

### Blocks, Modes, Cfb1, Ccm, Ghash, Gcm
Nothing is known of the cipher: a block is encrypted to a *term* named for it, and a
byte is the set of terms it is the exclusive or of, so that two results are equal
only if the mode makes them so for every cipher. Counters are digits, and `Shifted` is the loop of
`uaes.c:715` that puts a length into bytes.
Each call of a mode (`Call`, `AddAad`, `Xcrypt`) is one step over any number of bytes; what the
mode promises is written down from NIST SP 800-38A, C and D, and not from the code. `Modes` has
the message in a memory with room to overlap. In `Gcm` the other end is one that counts blocks in the last `C`
digits of the counter, as SP 800-38D does, or in all `B`, as the code does (`width`). `Ghash` is the product, bit by bit.

## 3. The runs

| Run | States | Question |
|---|---|---|
| `queue` | 6,944 | Is the unlocked ring a bounded FIFO, whatever the interleaving, and the PopOnPush ring the window of the last bytes? |
| `framing` | 423,462 | Does `recv()` return only what was sent, resynchronise, and never get stuck? |
| `server` | 137,424 | Are access, answers, offsets and limits right over sequences of requests? |
| `client` | 694,884 | Is what a call tells the application true, with losses, late answers and logs? |
| `client_returns` | 4,380 | Does every call return? |
| `libraries` | 93,747 | Do frozen, libcrc and uAES compute what they should? |
| `server_nonce` | – | *violated*: an encrypted request is answered without `update_nonce()` |
| `server_nan` | – | *violated*: a range takes NaN for a limit |
| `cfb1_long` | – | *violated*: a long call of CFB1 encrypts the begin of its data twice |
| `client_late` | – | *violated*: S_OK from `set()` does not mean that it was executed |
| `client_protected` | – | *violated*: `get()` of a protected property returns ciphertext |
| `holder_nonce` | – | *violated*: `refresh()` does not find the second protected name |

**`queue`.** `NoSlotRace`: the slot being written is not the
one being read. `TestsStayTrue`: what a thread found by its test still holds
when it acts on it. `ImplementsFifo`: refinement of `BoundedFifo`, refusals
included. `FullDrains`: a full queue gets room again.
Bounds: capacity 3 (four slots), two items. The ring is then full, empty and
wrapped in every combination; a third item would tell nothing apart that
position does not.

`ImplementsWindow`: refinement of `SlidingWindow`, whatever
the positions of the indices, which after `reset()` start at 0 again.
Fairness: `WF` of the thread that pops, which calls `pop()` in a loop until it delivers.

**`framing`.** `ImplementsChannel`: refinement of `FrameChannel`, no frame
returned twice, out of order, misrouted or cut. `LossBounded`: with a silent line
and `recv()` in `sync()`, at most one frame is gone per fault, and one more per
dropped byte (whose place the first byte of the next frame takes).
`ReturnsToSync`: the line is read empty and `recv()` is back in `sync()`.
Bounds: three frames of four shapes (no payload, encrypted, longer than the
buffer, for another station) and two faults (byte lost, damaged, inserted, early
timeout) anywhere. Headers of two bytes, tag and checksum of one: the code
distinguishes only the first byte, a proper part and the whole. Three frames are
needed for a fault in the first, its consequence in the second and the recovery
in the third. Deadlock is not checked because the peer may stop sending.
Fairness: `WF_vars(Receive)`, since `poll()` is called in a loop and `rx()` ends
with a byte or a timeout, and `WF_vars(TimeoutSilent)` for the latter. The line
and the peer have none.

**`server`.** `AccessRespected`: a value changes only by an acknowledged
SET_PROPERTY that names it and that the documented table grants, or by
`update_nonce()`. `PlainAnswersIndependent`: replace everything a plain client
may not read by anything else, and its answer is the same – leftovers in error answers
included. `ReplyOpens`: an encrypted answer is under the key and nonce of its request.
`WriteReadsBack`: an acknowledged write reads back through GET_PROPERTY and
leaves the other bytes alone. `RangesWithinAbsolute`: the stored range is
proper and within its limits. `TypeOK`: no property changes its length and no
answer exceeds the buffer.
Bounds: six properties, one of each kind and each access level at least once, a
memory property longer than the buffer, requests of every command that are
empty, too short, too long, right at and one beyond every limit, plain and under
each of two keys and two nonces, right ones and wrong ones.

**`client`.** Of any call: `SkewBounded`, the answer a call returns is never older than there
have been timeouts; without one it is its own; `AnswersOnce`, each answer is
handed out once, in the order of the requests. Of `CProperty`: `SuccessTruthful`, as long as no
call has timed out, S_OK of `get()` means that the value is the server's, S_OK of
`set()` that it is there; `KeysAgree`, likewise, both ends hold the same key
between calls. Of `CMemory`: `PrefixWritten` and `PrefixRead`, without a
timeout a transfer leaves the blocks acknowledged, in order and whole, and perhaps the one
that is awaited; S_OK means all of it, at offsets and lengths that wrap too. Of
`CPropertyHolder`: `BindsRight`, without a timeout a name is bound to the id the
server has for it; `FindsPlainNames`, a `refresh()` that nothing
disturbs finds every name a plain client may read, and S_OK means that it has found all. Of an
address: `OwnAnswerUnseen`, S_OK for a call that changes the address is
never its own answer; `ConfirmedStays`, S_OK for setting the address that is used
means that a server is there, whatever is still on its way. `TypesOK`: no get
delivers less than a whole value, no block reaches beyond the caller's buffer, no id
beyond the server's.
Bounds of `CProperty`: three calls, two early timeouts, one lost frame, one log: call 1 may time
out, call 2 take its answer, call 3 that of call 2. The calls are gets and sets
of every access level but gets of protected properties (see the finding), and
each error that needs no server. Of `CMemory`: blocks of two cells and `MaxCell` 8; transfers of
0, whole and partial blocks, up to 10 cells, more than a `Size` counts, at offsets 0 to 8; six
requests, one early timeout, one loss. Of `CPropertyHolder`: eight properties with
two plain and two protected names in the map, two refreshes, one timeout, one loss, one log. Of the
address: two servers, three addresses, three calls. The bounds stop the client, hence no deadlock
check.

**`client_returns`.** `CallReturns` for one request, `CallsEnd` for a transfer or a
`refresh()`. Fairness: `WF(ServerTurn)`, since `poll()` is called in a loop;
`WF(ClientTurn)`, since
`rx()` ends with a byte or, on a silent line, a timeout, and the client's loops run on. There
are finitely many
logs: `recv_response()` starts over with each log, so a server that logs faster
than the client times out keeps it there for ever. The holder's map has here
one name the server knows and one it does not.

**`libraries`.** What each property says of each part:

* `NamesFound` (`Sorted`, `SearchInside`, `FoundRight`), `NamesKept` – the map is sorted when it is used, the search reads
  inside the array, finds what is there and nothing else; no swap loses or doubles a name.
  All arrays of up to four of five names (the empty one, and one that begins another),
  which has each length at which the search is cut differently.
* `TableRight` (`ReadsRight`, `FilledOnce`) – no thread behind `EnsureSboxInitialized()` reads an empty entry and none
  fills the table twice (three threads, four entries).
* `ChecksRight` – after every byte the register is the remainder; each of the twelve
  functions has the check of "123456789" it is known for; a frame followed by its
  checksum gives 0 and with any other byte in either place not; no damage up to the
  register's length and none to two bits stays unnoticed (for the twelve but
  `crc_sick`, which feeds a byte twice). Bounds: three bytes of two values: the first
  byte, the one that meets it in a 16-bit register, and one behind.
* `IsAes`, `CipherRight` – both builds go through the states of FIPS 197 round by
  round, there and back, arrive at the published answers (its appendix C, for the three lengths
  of the key), and end with the block that was encrypted; in the midst of its steps the buffer of
  round keys holds two iterations that join; CFB1 decrypts what it has encrypted.
  Each entry of the S-box and its reverse is that of FIPS 197, computed or looked up, and so are the
  products, a byte or a word at a time (all 256 values).
  Four vectors: the data does not branch but in the fields, which are covered so; of `Aes8` the
  theorems say the same for all.
* `AnswerRight` – in whatever order words of the schedule are asked for (`Nk` 4, five
  iterations), each is right.
* `ModesRight` – however a message is cut into calls, the output of each mode but CCM is the
  standard's, in one buffer or two, and nothing else is written. Two blocks of three bytes, each segment (and a
  `segment_size` that is none, on either side) and nonce length, counters that are about to carry.
  - *Overlap.* At the end the message is right *just if* the output does not begin in the midst of the input: the bench puts
    it at every place, in front of, over and behind the input. That is what the examples in `uaes.h` say (lines 462-464,
    684-686, 788-790: to `buf` from `buf + 16u` is legal, to `buf + 16u` from `buf` is illegal); the sentences above them
    (242-244, 338, 456, 570, 678, 783, 939) say "the output should not be before the input", which is the other way round
    and contradicts the reason they give, "the input will be overwritten before it is read".
  - *GCM.* A byte is that of SP 800-38D *just if* its block has the same counter in the code and in the standard, and the tag
    likewise; nothing is assumed of the IV. For an IV of 12 bytes the counters are always the same, for messages as long as the
    standard allows. For any other IV the hash may stand near the overflow of the last 32 bits; then the standard
    wraps and the code carries into the next byte (`uaes.c:2082`), and **uAES departs from SP 800-38D**:
    its ciphertext is another, and a message of a station that keeps to the standard is decrypted wrongly although its tag is accepted.
    Two stations with uAES understand each other (`EndsAgree`). No line of the repository promises SP 800-38D
    for such an IV ("There is no requirement on the length of the IV", `uaes.h`), so this is no violation of one. HostService
    does not use GCM.
    Bounds: counters of three digits below 3, all 27 of them, of which the standard counts two; up to three blocks. Each carry, into
    the second digit, the first and around, is among them. At any time the subtraction recovers the first counter but for
    its first byte, at which it stops.
  - *CFB1.* Calls of up to `P` bytes, 256 in the code, here 2, which is where `byte_pos` is at its last value;
    what a longer call does is `cfb1_long`.
  - *The product of GCM.* Each turn of `Ghash` is a step of Horner's rule.
* `MessageRight` (`OutputRight`, `TagRight`, `ChangesFound`) – the same of CCM, which HostService uses: its output and its tag
  are the standard's, however additional data and message are cut into calls, and the tag is accepted if
  nothing was changed and refused if the first byte of the data, of the additional data or of the tag was.
  Blocks of six bytes; additional data and messages that are empty, a whole block (with the two bytes of the
  length in front) and one byte more.
* `LoopsEnd` – the sort, the search, the fillings and the moves of the buffer come to an end.
  Fairness: weak, of the loops themselves, each of which is a function that has been called.

**The violations** are findings, see `PROJECT.json`:
* `HostBase.hpp:73` says that `update_nonce()` is called once an encrypted packet
  has been answered. `poll()` answers an encrypted request that is refused
  (`HostServer.cpp:27`, `:45`) and returns before line 86.
* `Range::set` refuses what is outside `Absolute` by `<` and `>` alone, so
  for `Range<float>`, as in `test/src/TCRange.cpp:7`, NaN passes every test and
  is stored. Here a cell within range stands for NaN (`NaN = 3`); in the `server` run the
  numbers are comparable (`NaN = 7`, outside `Cells`).
* `uaes.h:588` gives the length of a call of CFB1 in bits, as a `size_t` and without a limit. The code
  counts the bytes in a `uint8_t` (`uaes.c:522`): a call of more than 256 bytes goes back to the first one,
  encrypts it again, and leaves the last ones as they were (`Cfb1Right`; with bytes of two bits, of which
  `byte_pos` counts two, the shortest such call has five bits).
* `S_OK` is documented as *executed successfully* (`Types.hpp:12`).
  `recv_response()` compares the command only, so after a timeout `set()` may be
  acknowledged by the answer to an earlier one.
* `CProperty::get` of a protected property encrypts the request; the answer comes
  back encrypted and nothing decrypts it before the value is copied out
  (`CProperty.hpp:42`).
* `CPropertyHolder.hpp:71` says that a refused name is got once more, encrypted. The server
  renews the nonce after each encrypted answer, `refresh()` does not ask for the new one,
  and so the second protected name is not found when `update_nonce()` changes it.

Seen while modelling, and not made a run:
* A late answer in `refresh()` binds a name to the wrong id: the answers to GET_PROPERTY do not say
  which id they are for. `BindsRight` is therefore stated for no timeouts.
* When the nonce does not change, `refresh()` finds protected names too.
* The sentences of `uaes.h` on overlapping buffers contradict its examples; the code agrees with the
  examples (`ModesRight`, above).
* GCM counts in 16 bytes where SP 800-38D counts in 4 (`ModesRight`, above). The first counter is recovered by a
  subtraction that stops short of byte 0 (`uaes.c:964`): a counter that has carried into it gives another tag than the standard's.

Every property of a passing run has a mutant in `PROJECT.json`, and those that are about
several modules one for each: a plausible bug
in a mapped definition that makes TLC find the property violated.

## 4. The theorems

All for every value of the constants that satisfies the modules' assumptions.

| Module | Theorem | Says |
|---|---|---|
| `QueueProofs` | `TestsStayTrueAlways` | `TestsStayTrue`: what a thread's test saw holds until it has acted |
| | `QueueTypeCorrect` | `TypeOK` |
| | `SlotsApart` | `NoSlotRace` |
| | `RingImplementsFifo` | `Spec => Fifo!Spec` |
| | `RingImplementsWindow` | `ImplementsWindow`: `WindowSpec` implements `SlidingWindow` |
| | `WindowTypeCorrect` | `WindowTypeOK` |
| | `QueueServesBoth` | `TestsStayTrue`, `NoSlotRace`, `ImplementsFifo` and `ImplementsWindow`, of `UsesSpec` |
| `HostBaseProofs` | `FramesSurvive` | `ImplementsChannel` |
| | `LossesAlwaysBounded` | `LossBounded` |
| | `LineTypeCorrect` | `TypeOK` |
| `HostServerProofs` | `TypeCorrect` | `TypeOK` |
| | `RepliesOpen` | `ReplyOpens` |
| | `AccessAlwaysRespected` | `AccessRespected` |
| | `RangesAlwaysWithin` | `RangesWithinAbsolute`, if `NaN` is no cell and the initial ranges are within |
| | `PlainAnswersAlwaysIndependent` | `PlainAnswersIndependent` |
| | `WritesAlwaysReadBack` | `WriteReadsBack` |
| `HostCSProofs` | `LineTypeCorrect` | `CSTypeOK` |
| | `SkewAlwaysBounded` | `SkewBounded` |
| | `AnswersAlwaysOnce` | `AnswersOnce` |
| | `ServerAlwaysImplemented` | `CSSpec => Server!Spec`: what is proved of `HostServer` holds in `HostCS` |
| `CMemoryProofs` | `MemoryTypeCorrect` | `TypeOK` of `CMemory` |
| | `PrefixAlwaysWritten` | `PrefixWritten` |
| | `PrefixAlwaysRead` | `PrefixRead`, if no protected memory is got |
| `CPropertyHolderProofs` | `HolderTypeCorrect` | `TypeOK` of `CPropertyHolder` |
| | `BindsAlwaysRight` | `BindsRight` |
| | `PlainNamesAlwaysFound` | `FindsPlainNames` |
| `ClientProofs` | `CallsTypeCorrect` | `TypeOK` of `CProperty` |
| | `SuccessAlwaysTruthful`, `KeysAlwaysAgree` | `SuccessTruthful`, if no protected property is got, and `KeysAgree`, both of `CProperty` alone |
| | `TypesAlwaysOK` | `TypesOK` of `Client`, and so are those below |
| | `ClientSuccessTruthful`, `ClientKeysAgree` | the two, whatever the application uses |
| | `PrefixesWritten`, `PrefixesRead` | `PrefixWritten`; `PrefixRead`, if no protected memory is got |
| | `NamesBoundRight`, `PlainNamesFound` | `BindsRight`, `FindsPlainNames` |
| | `OwnAnswersUnseen`, `ConfirmedAlwaysStays` | `OwnAnswerUnseen`, `ConfirmedStays` |
| | `AnswersNeverLate`, `AnswersHandedOutOnce` | `SkewBounded`, `AnswersOnce`, whatever the application uses |
| `LibraryProofs` | `ScheduleRecovered` | `AnswerRight`, `BufferJoins`, `Approaches` |
| | `RoundKeysTypeCorrect` | `TypeOK` of `RoundKeys` |
| | `TableAlwaysRight` | `TableRight`, from `NoEmptyEntryRead` and `TableFilledOnce` |
| | `MapKeepsNames` | `NamesKept` |
| | `NamesAlwaysFound` | `NamesFound`, from `MapSorted`, `SearchStaysInside` and `MapFindsRight` |
| | `CcmMessageRight` | `MessageRight`, from `CcmOutputRight`, `CcmTagRight` and `CcmChangesFound` |
| | `CipherImplementsStandard` | `Spec` of `Aes8` implies that of `Aes` under `Matrix`: `IsAes` for this build |
| | `CipherInverts` | `DecryptInverts` of `Aes8`, a part of `CipherRight` |

Each inductive invariant was an invariant of a TLC run before it was proved.

*Queue.* The first part of `QueueProofs` has the arithmetic: what `%` does to an index at the
wrap, that `push` on a ring that is not full appends to `Contents` and
`pop` takes the head. The invariant is `TypeOK /\ TestsStayTrue`; it is inductive
because each thread moves only the index that widens what the other one saw:
`pop()` makes room and `push()` makes data. `NoSlotRace` and the refinement
follow from it: a store goes to the free slot outside `Contents`, and only the
index updates change `Contents`.

*Window.* The invariant is the typing of the ring; a full ring that drops its
oldest and appends is `Tail` and `Append` on `Contents`.

*Both uses.* `UsesSpec` implies `Spec` and `WindowSpec`, since a step of one use is a stutter of the other (`UsesAreBoth`).

*Framing.* Assumed: a header has at least one byte, the buffer has room for one, a
frame marked encrypted has a payload. The invariant, `IInv`, is `TypeOK /\ InOrder /\ Fresh`: the
bytes on the line are noise or in the order they were sent, and all of frames younger than
the last one returned, as is the frame whose payload is being read. The faults keep it, for
what is left of a line is a part of it, in its order. A frame is returned at its last byte,
behind which only bytes of younger frames can follow (`Behind`); that is where the invariant
is needed, since `recv()` keeps no number of what it has returned. A frame is
read as a whole only when the buffer holds it (`WholeRead`), which is why none is cut.
The window needs no invariant: the byte that completes a header is its last.

*What a fault costs.* `LossBounded` counts, and nothing in the state says what a frame was lost
for. The invariant, `LossInv`, therefore says that there *is* an account that explains the losses:
sets of frames `hit` and `eaten`, a function `open`, a number `debt`, and `ghost`, the line as it would be
had no byte on it been damaged. Each frame that is due is returned, or still whole ahead of
`recv()`, or being read, or hit, or eaten. `hit` has a fault for each of its frames. A frame is *eaten*
when `recv()` took bytes of it for the payload of an older one that had lost some; it then takes as many bytes
as that one lacks, so that the eaten frames, the bytes still missing from payloads on the line
(`open`) and from the payload being read (`debt`) are together at most the dropped bytes. The proof gives the
account of the next state for each action: a fault adds to `hit` and `open`; the header of a frame moves its
`open` to `debt`; a byte of a younger frame, read as payload, pays a unit of `debt` for that frame's place in
`eaten`. With the line silent and `recv()` in `sync()` nothing is ahead, and the sum is `LossBounded`.

*Server.* The first part of `HostServerProofs` shows per method that it is *well done*: the buffer is
still a buffer, not sealed, and fits, and the value keeps its length.
The rest lifts this over the switch of `poll()`, one case per branch
(`Lawful` outcomes), then shows the invariants from `Init` and from `Poll` and
`Return`. Setting the key is the interesting case of `RepliesOpen`: the key in
force when the answer is encrypted is no longer the request's, and the theorem
holds because `PropertyKey::set` leaves an empty buffer, which `encrypt` leaves
plain; of every other request the key and nonce are as they were. For
`PlainAnswersAlwaysIndependent` the methods are shown to depend on the value of the one
property `check_read`/`check_write` let through. `WriteReadsBack` needs `TypeOK` alone but takes each method twice:
what `set` accepted is `Overwritten`, which at the block's own cells is the block (`OverwrittenReads`), or the
first cells of the payload; what `get` then gives is that block (`BlockOf`). In between, the answer must open: the read is
encrypted and made under the secret in force *after* the write (`SecretServed`), and a read that reaches
`get` is answered (`AnswerGiven`): what it gives is no longer than the payload of the write, which did fit a buffer.
The key, which has no `get`, is left out; the nonce, which each encrypted request renews, cannot be set (`NonceNotSet`).

*Client and server.* The invariant, `CSInv`, orders the line by request number:
`took` < what goes to the client < what goes to the server <= `calls`, each channel
rising, logs apart (they belong to no request, and nobody waits for one). Each
answer taken is then younger than the last, so that a call that was not timed out
advances `took` by at least one, which is `SkewBounded`. The step lemma is
for any client that asks for no logs, so it holds for the modules on top too. `LineSound` adds the
invariant of the server, from an instance of `HostServerProofs`, and the types of the line; it is kept by every
step of a client whose requests are in `Requests`.

*What a call is told.* Without a timeout the frames that belong to the current call are at most
one: its request on the way to the server, or the answer to it. Each client module has an invariant that says
what the server holds in each of the three situations, on top of `LineSound`: the request is on its way
(or lost) and the server is as it was; the answer is on its way (or lost) and the server has done
what was asked; the call has returned. So for a property (`CallInv`): when the answer is there it is the
one `HostServer` gives to this request, and the value is the value set. The key is the hard case: the
answer to a set of the key comes when the server has the new key and the client the old one, and agreement is only
stated, and only true, when the client is not waiting.

*Memory.* `MemInv` is `LineSound`, the types of a block, and `Truth`: *Copied*, the property holds `before` with the
acknowledged blocks written over it and the caller's buffer what they have brought; *Going*, while the request
is on its way; *Coming*, when the next block is written too and the answer is not there yet. The server
wraps nothing and the client's offsets wrap, so that the lemmas on wrapped numbers come first: a block that
the server accepts lies within the property, so its offset had not wrapped, and so neither had those before it.

*Holder.* `HolderInv`: while the size is asked for, the request on its way is for the size, and the answer, if there is
one, is `N`; then as long as no call has timed out, the name on its way is that of id `i`, every name bound is right,
every readable name below `i` is bound, and `found` is at most the number of names bound below `i`, so that
S_OK, which counts to `Cardinality(Names)`, means all of them. Names are distinct, which is
assumed of the server's table and needed.

*Address.* `LineInv`: the answers on the line come from the addresses their calls have set; the requests of a
server are in the order of the calls; and when the answer to the last call is on the line or taken, some server has the
address and nothing is on its way to it any more, because what it had not read was older than
the call it has answered.

*Together.* `ClientInv` is the invariant of the object that is used and the initial state of the others. A step
of `Client` is a step of the object in use and a stutter of all others (`StepOfUser`), and the assumptions of the
instances are those of `Client`. That a memory and the holder leave the key alone is `KeySpared`: no request on its
way sets it, and the server holds the one it began with. It holds however many calls time out: a late request is
one that was sent, and `Lawful` says that serving it changes the property it names, or the nonce.

*Round keys.* Assumed are a key of two words or more, an xor that undoes itself, a `T` that
yields words, and a schedule that is one. A step of the expansion, made or undone, needs the
word before it to be of the iteration it was made from (`ExpandedWord`); the invariant,
`TypeOK /\ BufferJoins /\ Approaches /\ AnswerRight`, says that it is: in the midst of
its steps the first `Ahead` words of the buffer are an iteration further than the rest. Only
the reverse order of steps keeps that on the way back.

*Tables.* Assumed: `LastEntry` is a number. The model has each thread's stores seen in order, so the
compiler must not move the store to the mark in front of the others and the processor must keep
stores in order; C promises neither. The invariant adds that what others see of a thread
it has written, and that a thread behind the check has seen entry 0; entry 0 is written last
(`ZeroIsLast`), and what is seen stays seen (`SeenStays`).

*Map.* Names are any sequences of numbers and the map is of any length. `LessMeans` says what `operator<` is
by the first place where two strings differ, with the end of a string less than any character; from it, it is a strict
total order (`NamesAreOrdered`). The invariant of the sort, `SortInv`: the calls of `quicksort()` on the stack
have parts of the array of their own, from the front to the back, and two entries that are in no part together are in order.
What a call does in its own part keeps that (`SwapKeepsOrder`); the two calls `partition()` leaves have
no pair of entries that is out of order across the pivot; a call of at most one entry has no pair. With the stack empty the array is
sorted. That the search is right needs `SearchInv`: in front of `first` all are less than the key, behind the
next `rest` none is, and in `doit_fast()` `rest + 1` is a power of two, which is what lets it halve the length without looking at it.
`NextPower` is an induction over a recursive function; the prover cannot instantiate the theorems on
induction, and so it takes the least number for which it fails (`Smallest`). That the sort ends, and the search, is `LoopsEnd`.

*CCM.* Assumed are what `uaes.h` asks of the lengths (the nonce leaves room for the length of the message, the tag is even and
from 4 bytes to a block), and additional data of less than FF00h bytes. Blocks have any length and bytes any number of values.
The invariant, `CcmInv`, says that context and memory depend on how much has been passed and on nothing
else: `ctx` is `Context(aad_done, done)`, `mem` is `Memory(done)`. A call of any length keeps it because each turn of its loop
goes from the context of d bytes to that of d + 1 (`AadByteRight`, `DataByteRight`); the code encrypts a full block only when the next byte
comes, so the context holds `LastInput`, the last block of the CBC-MAC before it goes into the cipher. Three facts carry that:
a byte more begins a block or is the exclusive or of one byte of the last (`BlocksLonger`, `ByteFed`); `IterateKeyStream()` with all its
carries adds 1 to the number behind the nonce (`ShiftedNext`, `CounterNext`), which the length of the message keeps from running
over; and the loop that writes the length gives `Block0`. `OutputRight` and `TagRight` are then the
invariant at the end. For `ChangesFound`, two sequences of blocks that differ in one block have CBC-MACs that
differ from there on (`MacsDiffer`), since the cipher of `Blocks` gives different bytes for different blocks: of a real cipher
this holds but for a collision. The recursive functions, `Shifted`, `CbcMac` and the two loops, are shown to exist and to be what
they are by the least number for which it fails, as above.

*Cipher.* Assumed is what the names say (`VectorsAssumption`, which TLC evaluates for the vectors of the run): a key has 16, 24
or 32 bytes and a block 16. `Aes8` and `Aes` are written from different texts: the code from `uaes.c`, with `Times2`, the offsets
into a buffer and a key that may be moved; the reference from FIPS 197, with products of polynomials. The proof makes them meet:

* the field: cutting a polynomial down to a byte adds (`ReducedAdds`), so a product by 2 is the code's shift with its
  exclusive or of 1Bh (`ProductDoubles`, `TwiceType`), and those by 9, 11, 13 and 14 are sums of doublings (`TimesIs`); with that both
  write `MixColumns()` as the same sums (`MixSame`, `UnmixSame`), and `ShiftRows()` moves the same places (`ShiftsSame`);
* the key: both build a sequence of words that each depend on earlier ones; there is one such sequence (`Growing`,
  `OneSchedule`), so the key that is stored is that of the standard (`SchedulesSame`);
* the key on the way: `Scheduled`, part of the invariant `CipherInv`, says that between two rounds the buffer is an
  iteration of the schedule, the one its counter says, which a move forth or back keeps (`Whither`, `MoveIs`, `ForthBackAre`); a round key
  may lie across two iterations, and then half of it is read after the move (`RoundWords`).

With these a round of the code is a round of the standard. For `CipherInverts` the invariant is that some function gives the state before each round of the
encryption, and that the block is now one of its states, going up and then down: a round of `InvCipher()` undoes the one of `Cipher()`
(`RoundUndone`), since the tables are inverse (`TablesInvert`, by their 256 entries), `MixColumns()` is undone by the sums of
products (`MixesUndone`), and the same key is added twice (`AddedTwice`).

**What is assumed of the application.** The theorems about clients hold under conditions that are named in the modules and that
TLC evaluates for the constants of every run (`ClientAssumption` in `Client`):

* `RequestsKnown` and `BlocksKnown`: the requests the calls make are in `Requests`, the set the theorems about
  the server are for. `Requests` is free otherwise.
* `Matched` and `Memories`: a property that a request is sent for is declared on the client with the kind and
  length it has on the server. The code has nothing that checks it; with other types S_OK means nothing.
* `CMemoryAssumption`, `CPropertyHolderAssumption`, `AddressChangeAssumption`: types; a block fits the client's buffer;
  property 0 is the symbols and no two names of the server are equal.
* For `SuccessTruthful` and `PrefixRead`, that no get is of a protected property: its answer is ciphertext
  in the code as it is (the run `client_protected`), and the run `client` makes no such get of a `CProperty` or `CMemory` either.

**Only model-checked:**

* liveness (`FullDrains`, `ReturnsToSync`, `CallReturns`, `CallsEnd`, `LoopsEnd`), which needs fairness and
  `ENABLED`, which the prover cannot do;
* the checks (`ChecksRight`), about polynomials over damage of any place and length;
* of `CipherRight` and `IsAes` the published answers, that the tables are those of the standard (the proofs need only that code and standard
  share one, and that the reverse table is its inverse), the loop that fills them, and `Aes32`, which packs a row into a word: the argument for
  `Aes8` would hold, with the places of bits in a word in addition;
* the modes HostService does not use (`ModesRight`): an argument like that of CCM would do,
  except for `Cfb1`, which has a RECURSIVE operator.

## 5. Not modelled

* frozen: `set`, the unordered containers with their perfect hash (`pmh.h`), and the random numbers:
  HostService uses `map` and `string` alone.
* libcrc: the checksum of NMEA sentences, the files `precalc` writes and their text
  (`gentab*.inc`).
* uAES: lengths of keys that are none (`uaes.c` then sets the context to zeros), additional data of
  FF00h bytes and more in CCM, the widths of lengths (the shifts of a `size_t` at
  `uaes.c:954`).
* A table of more than 65535 names, whose size PropertySymbols refuses to tell (`HostServer.hpp:56`): `N` is in `Cells`.
* A `CRange` whose request does not fit the buffer, which it does not test (`CRange.hpp:73`): the buffer
  is larger than any (`RangesFit`).
* The narrowing of a log's length to 16 bits (`HostServer.cpp:102`).
* The image of a header inside a payload (`HostBase.hpp:23`).
* Compile-time checks (`concept`s, `static_assert`), byte order and packing of
  structs: the two ends are taken to be the same build.
* The tests, of which `HostCS.hpp` is read for how the queues are used.

## 6. Plan

1. `Aes32` against `Aes`, with the lemmas about the field and the schedule that are there for `Aes8`.
2. Composition: `HostCS` over two `HostBase` lines instead of `FrameChannel`, for a
   small instance.
3. The table of the checksum, which the header's checksum and `recv()` share, within `HostCS` on
   two threads of one process.
4. Proofs about the other modes and about `Crc` (`ModesRight`, `RegisterRight`), with the lemmas and inductions
   that carry those about CCM.
