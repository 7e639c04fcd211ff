# TLA+ models of Sniffles

This directory holds TLA+ models of the packet-decoding core in `src/Sniffles`, together with the TLC configurations that check them. The core is the bit reader (`packetbitbuf.cpp`), the envelope decoder and frame dispatcher (`ReadPacket` in `sniffles.cpp`), and the payload unwrap step of the capture callback (`packet_loop_handler`). Every module is translated from the source. `PROJECT.json` lists each definition and the source lines it models (`map`), the runs, the mutants that show each property can fail, the findings and the hazards.

## The system

```
capture (libtins, external) -> packet_loop_handler -> ReadPacket -> protobuf parsers (external)
                                 | malloc, ICE decrypt,     | CBitRead over a stack buffer,
                                 | delta offset, final size | envelope, frame loop
```

All of this runs on the single capture thread. `sniff_loop` calls `packet_loop_handler` once per captured frame, and each call runs to completion. So there is no concurrency inside the core. What is hard is the sequence of calls:
- seeks and reads on a bit cursor that is split into a byte "head" and a dword "body";
- an overflow latch;
- lengths that come from the packet;
- heap blocks that must be freed on every path.

## Inventory

| Part | State | Operations | Modelled in |
|---|---|---|---|
| Bit reader `CBitRead` | `m_pData`, `m_nDataBytes`, `m_nDataBits`, `m_pDataIn`, `m_pBufferEnd`, `m_nInBufWord`, `m_nBitsAvail`, `m_bOverflow` | `StartReading`, `Seek`, `GrabNextDWord`, `FetchNext`, `ReadOneBit`, `ReadUBitLong`, `ReadSBitLong`, `GetNumBitsRead`, `GetNumBytesRead` | `CBitRead` (record `rd`) |
| Abstract bit reader (spec.md 4.1) | `nbits`, `pos`, `overflow` | start, read n bits, seek | `BitBuf` |
| Abstract unwrap contract (spec.md 4.2) | datagrams handled, slices delivered | drop, unwrap | `PayloadContract` |
| Varint decoder | (on the reader) | `ReadVarInt32` | `ReadPacket!VarInt32Loop` |
| Envelope and dispatcher `ReadPacket` | stack `data[]`, reader, loop position, callbacks made | size check, copy, envelope reads, flags test, frame loop | `ReadPacket` |
| Payload unwrap `packet_loop_handler` | `pDataOut`, `bytesLeft`, heap blocks | filter, malloc, decrypt loop, tail copy, header check, copy, `ReadPacket`, frees | `PayloadUnwrap` |
| Value decoders | (on the reader) | `ReadVarUBit`, `ReadUBitVar`, `ReadString`, `ReadVarInt64`, `ReadBits`, `ReadBytes` | `BitValues` |
| Coordinate decoders | (on the reader) | `ReadBitCoord`, `ReadBitCoordMP`, `ReadBitCellCoord`, `ReadBitVec3Coord`, `ReadBitAngles`, `ReadBitNormal`, `ReadBitVec3Normal`, `ReadBitAngle`, `ReadBitFloat`, `ReadChar`/`Byte`/`Short`/`Word` | `BitValues` |
| Configuration store `cfg.h`, `mem.h` | the `cfg` file, `g_config`, `g_config_size` | `check_config_file`, `get_config_value`, `set_config_value`, `save_config` | `ConfigStore` |
| Entry point `_tmain` | the answers, `devList`, `cfg_device`, `cfg_port`, the filter | prompts, device selection, port scan, filter, `sniff_loop` | `ConfigStore`, `PayloadUnwrap` |
| `memory_t` (`mem.h`), `String` (`str.h`), `err.h`, device lists `net.h` | heap blocks, lists | `memory_t` constructors, `value`, `free`; `String(const char*)`, `~String`, `CStr`, `operator+`, `NumToStr`; `shout_error_and_die`; `CreateDevList`, `ListAllDevs` | `ConfigStore` (heap blocks; lists as counts) |
| Output `err.h`, `outf`; `packet.h` | console | logging; an unused class | not modelled |

## Modules

**`BitLabels`** gives the shared vocabulary for words of bits. The reader only masks, shifts and ORs, so its behaviour does not depend on the byte values. Each bit of a word is therefore represented by a *label*:
- the index of the buffer bit it came from;
- `ZERO` for a bit the code cleared;
- `JUNK` for a bit loaded from outside the buffer, or a collision in an OR.

A read that returns the labels `p .. p+n-1` has returned exactly the next n bits, whatever the buffer holds. Keeping labels rather than values is what makes one check cover every buffer content.

**`BitBuf`** is the abstract reader, matching spec.md 4.1 and the way the code treats a seek:
- `StartReading`, `ReadUBitLong` and `ReadSBitLong` return the next n bits, or latch overflow, return 0 and move to the end.
- `Seek` moves to any position and latches overflow on an out-of-range target.

**`CBitRead`** holds the class's fields in a record `rd`, plus a ghost `oob` that is set when any load touches memory outside the buffer.
- Every method is an operator from a reader to a reader (and a value). `ReadPacket` composes these operators, and the `Do*` actions apply them.
- `m_pDataIn` is a byte offset.
- `Seek` is split into its head path (`SeekHead`, lines 278-297) and its body path (`SeekBody`, lines 298-314).
- `Refinement` states that `CBitRead` implements `BitBuf` under the mapping `pos <- GetNumBitsRead(rd)`. `GetNumBitsRead` is the code's own cursor formula.

**`ReadPacket`** models the whole of `ReadPacket`:
- `data[NET_MAX_PAYLOAD]` is the packet followed by `Slack` stale bytes.
- The reader is `INSTANCE CBitRead`. The bytes behind its labels give varint values (`ByteValue`, `VarGroup`, with the 32-bit truncation of the fifth group).
- The frame loop is one action per iteration (`DispatchFrame`), plus `LoopExit` and `Returned`.
- Each parser callback is recorded as `<<Cmd, offset, Size>>`.

**`MC_ReadPacket`** builds payloads from frame lists with a reference varint encoder. The frame lists include non-canonical encodings: 1 in two bytes, and 0 in five. It records where each frame's payload starts, so the decoder is checked against its encoder.

**`PayloadUnwrap`** models `packet_loop_handler`, one action per step. Byte values are chosen: ICE permutes each block, so any plaintext can arrive. Memory is tracked as:
- the bytes of `pDataOut` written so far;
- the live heap blocks of the current call;
- a ghost set of the byte indices read.

**`PayloadContract`** is what unwrapping promises (spec.md 4.2), with one atomic step per datagram: it is dropped, or the slice behind a valid header is delivered. A delivered slice starts at `delta_offset + 5` for some `delta_offset` with `0 < delta_offset` and `delta_offset + 5 < size`, and runs to the datagram's last byte. `PayloadUnwrap` instantiates it as `Contract`. The mapping counts a datagram as handled only once its handler call has returned (`handled - 1` while `pc # "idle"`). So `Receive`, `DecryptBlock` and `CopyTail` are stuttering steps, and `CheckHeader` is the abstract `Unwrap` or `Drop`. `Refinement == Contract!Spec` is checked in the `unwrap` run.

**`BitValues`** models the value decoders as operators over the `CBitRead` operators: `ReadVarUBit`, `ReadUBitVar`, `ReadVarInt64`, `ReadString` (its loop is `StringLoop`), `ReadBits` (its three while loops are `ReadLoop` with the loop's condition `LoopCond`, read width and store size) and `ReadBytes`.
- An unsigned value is the set of its set bit positions. So `x << k`, `x & m` and the truncation to 32 or 64 bits are set operations, and a 64-bit varint needs no 64-bit integers.
- A client decodes a message field by field, one `DoRead*` action per decoder. Each result is recorded with the cursor after it and `m_bOverflow`.
- The buffer is written by a reference encoder of the wire format (`EncField`, `Encode`), then possibly cut short by whole bytes.
- `sizeof(unsigned long)` is 4, as on the Windows build the program targets.

**`MC_BitValues`** chooses the fields:
- one value per selector of `ReadVarUBit` and `ReadUBitVar`;
- varints of 1, 2 and 10 bytes (bit 63 set);
- a string read whole, one cut to `maxLen - 1 = 1` characters, and a newline-terminated line;
- `ReadBits` and `ReadBytes` calls that use the tail alone, or the align, dword and tail loops together, from aligned and unaligned `pOut`.

- chars, bytes, shorts and words with and without the top bit, and a float;
- 1-, 8- and 16-bit angles;
- coordinates: zero, a fraction only, an integer only, the largest integer with a fraction;
- multiplayer coordinates in each of the three modes, in and out of bounds, with and without an integer part;
- cell coordinates in each mode, vectors with absent, zero and negative components, a normal, and unit vectors whose z is derived (including x = 1, where z is 0 although its sign bit is set).

Each field is decoded alone and behind a 3-bit field that shifts it off byte alignment.

The coordinate decoders return exact rationals `Q(num, den)`: every coordinate the wire can carry is a multiple of 1/32 or 1/8 and is exact in a float. The normal's `* NORMAL_RESOLUTION` and the z of a unit vector, `sqrt(1 - x*x - y*y)`, are kept exact (z as `sqrt(rad)/den`); the model abstracts their float rounding. `ReadBitFloat` returns the IEEE sign, exponent and mantissa fields of the 32 bits read.

The buffer is never empty: on a 0-byte reader `ReadOneBit` returns 0 without latching overflow (its `m_nBitsAvail` goes to -1), so `TruncationReported` fails there. The program's readers span `NET_MAX_PAYLOAD`, so this is recorded as a hazard, not a run.

**`ConfigStore`** models the `cfg` file across runs of the program. Each run goes through these steps:
- `check_config_file` (`Boot`, `Flush`);
- the Y/N prompt (`UseExisting`, `Prompt`);
- `devList[cfg_device - 1]` (`SelectDevice`);
- `save_config` (`Save`, `Close`);
- `sniff_loop(port)` with the filter `"port " + NumToStr(cfg_port)` (`Listen`).

The port prompt reads `scanf_s("%d")` into an `unsigned short`: `ScanPort` keeps the low 16 bits, and the loop asks again while that is 0. The typed ports include 92541, -1 and 65536, which truncate to 26005, 65535 and 0.

A run may end at any step (`Stop`). With `OpenFails`, `fopen_s` in `check_config_file` or `save_config` (or the `fread` after it) may fail, and `shout_error_and_die` ends the run before it writes anything.

The heap of a run is a sequence of blocks `[by, val, freedBy]`: the allocator (`malloc` for `memory_t`, `new[]` for a `String`'s buffer, `new` for the `String` object `operator+` creates), the contents, and what released it (`""` while live). Blocks are never reused, so a released block read later gives its old contents or anything (`JUNK`, `"?"`), the outcomes a freed read can have.
- `Boot` constructs `cfg_device` and `cfg_port` (`Locals`, two uninitialised `malloc` blocks); `UseExisting` and `Prompt` assign them new blocks member-wise (the old ones leak); `Save` copies them four times for `save_config`'s and `set_config_option`'s by-value parameters.
- `Listen` builds `strFilter` as the code does: `String("port ")`, the `String` `NumToStr` returns (its copy elided), and `operator+`'s new `String`, which `strFilter` copies member-wise because `String` has no copy constructor. The two temporaries are destroyed at the end of the expression, then `cfg_device.free()` and `cfg_port.free()` `delete[]` their blocks, and the sniffer gets `strFilter.CStr()`.

 Writes still buffered are lost, and the file keeps what was written. The file and `g_config` are token sequences:
- `DELIM` is a `'|'`;
- a natural number is a 4-byte field;
- `G` and `NUL` are the third field and the default's trailing zero;
- `PART` is a field cut by a failed write.

`MemoryOf` is the 4-byte copy that `memory_t(ptr, 4)` makes of a field, or `JUNK` when there is no whole value there. `FieldStart` and `SetField` find a field the way the `memchr` loops of `get_config_value` and `set_config_value` do. `realloc` of the static default ends the run, because the Windows heap manager terminates on a pointer it does not own. A heap block is reallocated in place, because its size never changes.

## Runs

| Run | Expect | Checks | Shows |
|---|---|---|---|
| `cbitread_refine` | pass | `InBounds`, `TypeOK`, `Refinement` | Buffers of 4-9 bytes, reads of widths 1, 3, 8, 13, 32, seeks to -1, 0, 3, 8, 31, 32, 33 and around the end: every interleaving stays in bounds, keeps `m_pDataIn` within one dword of the end, and refines `BitBuf`. |
| `cbitread_seekoverflow` | violation | `Refinement` | `Seek` does not clear overflow; a later merge read returns 0 and skips 32 bits (finding). |
| `readpacket_dispatch` | pass | `DispatchMatchesFrames`, `CursorAdvances` | See below. |
| `readpacket_negative` | violation | `CursorAdvances` | A Size varint of 0xFFFFFFFA makes the loop seek back forever (finding). |
| `readpacket_truncated` | violation | `PayloadInPacket` | A frame cut short by the end of the packet is read from stale stack bytes (finding). |
| `unwrap` | pass | `TypeOK`, `ReadsWritten`, `Refinement` | The header read and the copy touch only bytes that the decrypt loop and tail copy wrote. The handler refines `PayloadContract`: every `ReadPacket` call gets a non-empty slice from `deltaOffset + 5` to the end of the datagram. |
| `unwrap_leak` | violation | `NoLeak` | `pDataOut` leaks on every rejected datagram (finding). |
| `bitvalues` | pass | `DecodesEncoded`, `TruncationReported` | Every value decoder returns the encoded value and ends on its field's last bit. A field cut by the end of the buffer sets `m_bOverflow` and makes `ReadString`/`ReadBytes` return false, and a field past the end decodes as zero. |
| `config` | pass | `ListenAsLastSaved`, `FilterIsPort` | Over three runs that may stop at any step or fail to open `cfg`: a run that takes the saved configuration from a complete file starts the sniffer on the device and with the `port N` filter that file held when the run began; and every run hands the sniffer `port N` for its own port, read from live blocks through the shared `String` buffers. |
| `config_partial` | violation | `ExistingConfigParses` | A first run that dies before `fclose`, or a failed `fwrite`, leaves a field-less `cfg` that every later run trusts (finding). |
| `config_realloc` | violation | `HeapOpsMatchAllocator` | Every first run `realloc`s the static `g_default_config`, the counterexample TLC reports. `memory_t::free`'s `delete[]` of the `malloc`ed blocks of `cfg_device` and `cfg_port` (`mem.h:45`) breaks the same property later in a run (finding). |
| `config_index` | violation | `DeviceIndexValid` | The device index from `cfg` is used unchecked (`sniffles.cpp:240`): the default config's index 2 on a machine with one capture device (finding). |

Three more problems of `CBitRead` lie on paths the program never takes. They are recorded as hazards in `PROJECT.json`, with how to make TLC show each one:
- `ReadBit` (not modelled, as nothing calls it) loads through `m_pDataIn` after finding it past `m_pBufferEnd`.
- On a 1-3 byte buffer, `ReadOneBit` after a seek to the end returns bits while `m_nBitsAvail` goes negative: with `Lengths = {1, 2, 3}` in `MC_CBitRead_refine.cfg`, TLC reports `Refinement` violated.
- A 0-byte reader reads byte 0 in `Seek`: with `Lengths = {0}`, TLC reports `InBounds` violated in the initial state.

`ReadPacket` always builds its reader over `NET_MAX_PAYLOAD` bytes, and nothing calls `ReadBit`.

`readpacket_dispatch` covers, in each combination:
- flags 0, 0xE1, 16 and 511;
- one- and two-byte `unk1`;
- up to two frames with Cmd 4 or 200;
- lengths 0, 1 and 2, including non-canonical encodings;
- two stale bytes, each 0 or 0x80.

In every case the dispatcher makes exactly the callbacks the payload was built from, and each loop iteration moves the cursor forward.

### Bounds, and why they are enough

- **Reader.** Lengths 4-9 give every head size (0-3 bytes), both with and without a full body dword after it. The widths include 1 and 32, and the seek targets include every dword and byte boundary near the start and the end. So every merge offset at a head/body boundary and at the end sentinel is reached.
- **Dispatcher.** Two frames are enough to reach the cursor carried from one frame to the next. Payload bytes have the continuation bit set, so a cursor left inside a payload misreads the next header.
- **Unwrap.** Sizes 1, 5, 8, 9, 13 and 20 cover: no full block, exactly one block, one block plus a tail, and spec.md's example of 20. Delta offsets 0, 1, 3, 14 and 255 cover zero, small values, the `+5 < size` edge and an out-of-range value. The final-size field is tried at the matching value, one off on each side, and a huge value. No uint32 wrap is possible because `deltaOffset + 5 < size`. Two datagrams show that state carries from one call to the next.
- **Value decoders.** Each selector and each loop of `ReadBits` is taken at least once. Shifting by 3 bits moves every multi-part field across a byte and, in the longer messages, across a dword. Cuts of 1 and 4 bytes end the buffer inside the last field, and in the shorter messages before a field starts, so both halves of `TruncationReported` are reached.
- **Configuration.** Three runs are enough for a run to save, a later run to load what it saved, and a third run to see a file cut by a crash. The initial files are: none, the default, and a saved file with a different device and port. Device lists of 0-3 entries cover an index that is valid, one that is stale, and no devices at all. Two ports tell the saved value apart from the default. `OpenFails` is on in the passing run, so every failure path of `check_config_file` and `save_config` is taken; the violation runs leave it off so that their traces show only their own fault.

### Fairness and termination

No run assumes fairness. That `packet_loop_handler` returns is not checked in `PayloadUnwrap`. Its decrypt loop subtracts 8 per step and the rest is straight-line code, so it would hold by the shape of the model. The one way the callback can hang is inside `ReadPacket`, which `PayloadUnwrap` takes as a single step that returns. That case is `readpacket_negative`. `ReadPacket` is deterministic once its payload is chosen. Its termination is checked as a variant (`CursorAdvances`): each iteration strictly increases `GetNumBitsRead`, and that value is bounded by the reader's length. `PayloadUnwrap` ends in `Done` after `MaxPackets` datagrams, and `ConfigStore` after `MaxRuns` runs. Deadlock is checked everywhere, so a loop that stops while work remains is reported.

### Mutants

Each property of a passing run has a mutant in `PROJECT.json`: a plausible bug in the mapped code that TLC must catch.

| Mutant | Models this bug |
|---|---|
| `GetNumBitsReadNoHeadAdjust` | the head adjustment is dropped |
| `GrabNextDWordNoEndCheck` | the end-of-buffer sentinel is dropped |
| `GrabNextDWordAdvancePastEnd` | `m_pDataIn` advances even after overflow |
| `VarInt32LoopCap4` | the varint is capped at 4 bytes |
| `DispatchFrameSeekFromStart` | the seek is taken from the frame start, not the end of its header |
| `CopyTailFullBlock` | `memcpy` copies a whole block |
| `CheckHeaderNoLengthGuard` | the `+5 < size` guard is dropped |
| `SetFieldOffByOne` | the field loop of `set_config_value` runs once too often |
| `ReadVarUBitSwapped` | the 2-bit and 4-bit cases of `ReadVarUBit` are swapped |
| `ReadStringNoOverflowCheck` | `ReadString` returns `!bTooSmall` and ignores overflow |
| `ReadBitCoordMPSignWithInt` | `ReadBitCoordMP` reads the sign bit only for integral coordinates with an integer part |
| `DeliverFromSizeField` | the inner payload is copied from `&pDataOut[deltaOffset + 1]`, the final-size field, instead of `deltaOffset + 5` |
| `ListenFreeFirst` | `cfg_device.free()` and `cfg_port.free()` moved above the line that builds the filter from `cfg_port.value()` |

## Not modelled, and why

- **libtins, ICE and protobuf.** These are external libraries. They are modelled only by their effect: a payload, any plaintext, and a recorded callback.
- **The rest of `str.h`, `err.h`'s text, `platform.h`, and `_tmain`'s console text.** The other `String` operators (`operator+=`, `operator[]`, `find`, the other `operator+` overloads), `string_t`, `StrToNum` and `MsgPrintf` are never called. `platform.h` holds only typedefs. The rest is I/O and formatting, with no state a property is about. `scanf_s("%d", &port)` writes an `int` into an `unsigned short`: the truncation is modelled (`ScanPort`), the two stack bytes it overwrites are undefined behaviour and are not.
- **A failed `malloc(dataFinalSize)` in `packet_loop_handler`.** `PayloadUnwrap` takes it to succeed: on failure the `memcpy` at line 143 writes through NULL before the `if (packetData)` test, which is undefined behaviour, not an outcome to enumerate.
- **`packet.h` (`CPacket`).** Nothing in the program constructs or calls it.
- **`CBitRead::ReadBit`.** Nothing calls it. Read by hand, it latches overflow one read early and then loads past the end (hazard at `packetbitbuf.cpp:147`).
- **Float rounding** in `ReadBitNormal` and `ReadBitVec3Normal` (see `BitValues`), and `ReadBitAngle` for 31 and 32 bits, which no message uses.
- **`memory_t(void*)` and the comparison operators.** Nothing instantiates them (the constructor is missing a `;` and would not compile if it were).
- **Further violation runs.** The project keeps twelve runs. The edges found since (the empty and the 1-3 byte reader, `ReadBit`) are recorded as hazards, with the cfg change that makes TLC show them.
- **Values of the decoded fields.** The envelope sequence numbers and `unk` fields are consumed but not valued, because the code never uses them.

## Composition

`PayloadUnwrap` and `ReadPacket` interact through one fact: the payload handed over has exactly `dataFinalSize` bytes. The two are checked separately, because composing them multiplies byte choices that neither property depends on.

`ReadUBitVar`'s `assert`s are not modelled: release builds compile them out, and the checked encodings are the canonical ones.
