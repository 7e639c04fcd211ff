----------------------------- MODULE ConfigStore -----------------------------
(***************************************************************************)
(* The configuration store of cfg.h as _tmain uses it, across runs of the  *)
(* program.  The file "cfg" holds '|'-terminated fields: the device index, *)
(* the port, and a third field nothing reads.  A run:                      *)
(*   check_config_file: fopen "ab+" (creating an empty file), then either  *)
(*     write the static default g_default_config, or read the file into a  *)
(*     malloc'd g_config; fclose;                                          *)
(*   the Y/N prompt: with an existing file and Y, read DEVICE and PORT     *)
(*     from g_config; otherwise prompt for a device and a port;            *)
(*   devList[cfg_device - 1];                                              *)
(*   save_config: set PORT and DEVICE in g_config (realloc and copy),      *)
(*     fopen "rb+", fwrite g_config over the file, fclose;                 *)
(*   the capture filter "port " + NumToStr(port), and sniff_loop.          *)
(* A run may stop at any point (killed, crashed); what was not yet written *)
(* to the file is lost.  fwrite's result is never checked, so a write may  *)
(* persist only a prefix of its bytes.                                     *)
(*                                                                         *)
(* cfg_device and cfg_port are memory_t<int>, 4-byte malloc'd blocks, and *)
(* the filter a String, whose buffers are new[]'d; the heap records each   *)
(* block, what allocated it and what released it.                          *)
(*                                                                         *)
(* The file and g_config are sequences of tokens: DELIM is a '|', a       *)
(* natural number a 4-byte field, G the 7-byte third field, NUL the        *)
(* default's trailing zero byte, PART a field cut short by a partial write. *)
(***************************************************************************)
EXTENDS Integers, Sequences, SequencesExt

CONSTANTS
  InitialFiles, \* contents of "cfg" before the first run ({ABSENT} or files)
  DevCounts,    \* sizes of the device list pcap_findalldevs may return
  Ports,        \* numbers a user may type at the port prompt
  MaxRuns,      \* bound on the runs of the program
  PartialWrites, \* whether an fwrite may persist only a prefix
  OpenFails     \* whether fopen_s (or check_config_file's fread) may fail

ASSUME DevCounts \subseteq Nat /\ Ports \subseteq Int /\ MaxRuns \in Nat
ASSUME PartialWrites \in BOOLEAN /\ OpenFails \in BOOLEAN

\* The file "cfg": whether it exists, and its tokens.
FileOf(t) == [exists |-> TRUE, toks |-> t]
ABSENT == [exists |-> FALSE, toks |-> << >>]
JUNK == -1     \* a value read from outside the field it should come from
DELIM == -2
G == -3
NUL == -4
PART == -5

IsValue(x) == x >= 0

\* enum ConfigOptions
DEVICE == 0
PORT == 1
OPTCOUNT == 3

\* g_default_config: "\x02\0\0\0|\x87\x69\0\0|gaypuss|" and its '\0'.
DefaultConfig == << 2, DELIM, 27015, DELIM, G, DELIM, NUL >>

\* create_dev_list and list_all_devs: the devices pcap_findalldevs lists,
\* none when it fails (both return the empty devList then).
CreateDevList == DevCounts
ListAllDevs == DevCounts

\* scanf_s("%d", &port) into an unsigned short: the low 16 bits of the int
\* typed (the other two bytes land beside port on the stack).
ScanPort(x) == x % 65536

\* _itoa_s(num, buffer, 10): the decimal digits of num, '-' first if negative.
Digit == << "0", "1", "2", "3", "4", "5", "6", "7", "8", "9" >>
RECURSIVE Itoa(_)
Itoa(n) == IF n < 10 THEN Digit[n + 1] ELSE Itoa(n \div 10) \o Digit[(n % 10) + 1]
ItoaS(num) == IF num < 0 THEN "-" \o Itoa(-num) ELSE Itoa(num)

\* The filter a run should capture with: "port " and the port in decimal.
FilterOf(port) == "port " \o ItoaS(port)

(***************************************************************************)
(* The heap of a run: block i is [by, val, freedBy], by the allocator that *)
(* made it ("malloc", "new[]" or "new"), freedBy "" while it is live, or   *)
(* what released it ("free", "delete[]", "delete"), or "twice".  Blocks    *)
(* are never reused, so a handle to a released block stays dangling.      *)
(***************************************************************************)
UNSET == -6    \* the contents of a block malloc returned uninitialised
JUNKSTR == "?" \* what a String read from a released buffer holds

Releaser == ("malloc" :> "free") @@ ("new" :> "delete") @@ ("new[]" :> "delete[]")

Alloc(h, by, v) == Append(h, [by |-> by, val |-> v, freedBy |-> ""])

Release(h, b, how) ==
  [h EXCEPT ![b].freedBy = IF h[b].freedBy = "" THEN how ELSE "twice"]

\* A read of block b: its contents while live; anything once released.
Read(h, b) ==
  IF h[b].freedBy = "" THEN {h[b].val}
  ELSE {h[b].val, IF h[b].by = "malloc" THEN JUNK ELSE JUNKSTR}

\* memory_t::init(size): m_nSize = size, m_pValue = malloc(size).
Malloc(h, v) == Alloc(h, "malloc", v)

\* memory_t(): init(4) and nothing copied in.
NewMemory(h) == Malloc(h, UNSET)

\* memory_t(const memory_t&): init(mem.size()) and a copy of mem's bytes.
CopyMemory(h, b) == Malloc(h, h[b].val)

\* memory_t(T val): init(4) and a copy of val.
MemoryOfVal(h, v) == Malloc(h, v)

\* memory_t::free(): delete[] m_pValue when it is not NULL; the handle then
\* becomes NULL (0).
FreeMemory(h, m) == IF m = 0 THEN h ELSE Release(h, m, "delete[]")

\* memory_t::value(): *m_pValue, or NULL (0) for a NULL handle.
Value(h, m) == IF m = 0 THEN {0} ELSE Read(h, m)

\* String(const char*): _length = strlen(str), _string = new char[_size]
\* and strcpy; the block stands for the String's buffer.
NewString(h, str) == Alloc(h, "new[]", str)

\* ~String(): delete[] _string.
StringDtor(h, b) == Release(h, b, "delete[]")

\* String::CStr(): the characters of the buffer.
CStr(h, b) == Read(h, b)

\* StrUtils::NumToStr(num): _itoa_s into a stack buffer, returned as
\* String(buffer), constructed in the caller's object (copy elided).
NumToStr(h, num) == NewString(h, ItoaS(num))

\* String::operator+(const char*): new String() (never deleted) whose
\* buffer new char[] holds lhs then rhs.
StrCat(h, lhs, rhs) == NewString(Alloc(h, "new", 0), lhs \o rhs)

\* memory_t<int> cfg_device, cfg_port: two default-constructed blocks.
Locals == NewMemory(NewMemory(<< >>))

\* No configuration saved yet.
NOSAVE == [valid |-> FALSE, device |-> 0, port |-> 0]

VARIABLES
  disk,       \* the file "cfg": ABSENT or FileOf(its tokens)
  pc,         \* where the current run is
  existed,    \* bFileExisted of this run
  gConfig,    \* g_config: [heap: is it a malloc'd block, toks: its tokens]
  pending,    \* tokens written with fwrite but not yet reached the file
  devs,       \* devList.size() of this run
  heap,       \* the blocks allocated by this run (see Alloc)
  devMem,     \* cfg_device.m_pValue: a block of heap, or 0 for NULL
  portMem,    \* cfg_port.m_pValue
  runs,       \* runs started
  fromFile,   \* this run took DEVICE and PORT from the file (answered Y)
  filter,     \* the capture filter of this run ("" until it is built)
  saved,      \* ghost: device and port the last completed save_config wrote
  savedAtBoot, \* ghost: saved when this run started
  ghost       \* faults met: "realloc" of a static block, "index" out of range,
              \* "read" of a field that is not there

vars == <<disk, pc, existed, gConfig, pending, devs, heap, devMem, portMem, runs, ghost,
          fromFile, filter, saved, savedAtBoot>>

\* shout_error_and_die(err): print the error (shout_error) and exit; the
\* run ends here, and nothing it buffered is written.
ShoutErrorAndDie == pc' = "down"

\* The values cfg_device and cfg_port hold (the program reads them only
\* while their blocks are live).
Held(m) == IF m = 0 THEN 0 ELSE heap[m].val
cfgDevice == Held(devMem)
cfgPort == Held(portMem)

(***************************************************************************)
(* Field access, as get_config_value and set_config_value find fields.     *)
(***************************************************************************)
Delims(t) == SetToSortSeq({i \in DOMAIN t : t[i] = DELIM}, <)

\* Index of the first token of field opt: opt times memchr(v, '|') + 1.
\* 0 when a memchr finds no delimiter (v = NULL + 1).
FieldStart(t, opt) ==
  IF opt = 0 THEN 1
  ELSE IF Len(Delims(t)) >= opt THEN Delims(t)[opt] + 1 ELSE 0

\* memory_t(ptr, 4): init mallocs 4 bytes and memcpy_s copies them from ptr;
\* JUNK when ptr is NULL + 1 or the bytes there are not a whole value.
MemoryOf(t, i) == IF i \in DOMAIN t /\ IsValue(t[i]) THEN t[i] ELSE JUNK

\* memory_t<int>(get_config_value(opt), 4): the 4 bytes at the field start.
FieldValue(t, opt) == MemoryOf(t, FieldStart(t, opt))

\* set_config_value(opt, &value, 4): the bytes between the field start and
\* the next delimiter are replaced by the new value.  FALSE when there is
\* no such field, where the code computes with a NULL pointer.
HasField(t, opt) ==
  LET i == FieldStart(t, opt)
  IN i > 0 /\ \E j \in i .. Len(t) : t[j] = DELIM

\* Fault used to validate ListenAsLastSaved: the loop of set_config_value
\* running once too often (i <= opt).
SetFieldOffByOne(t, opt, value) ==
  LET i == FieldStart(t, opt + 1)
      j == SelectInSubSeq(t, i, Len(t), LAMBDA x : x = DELIM)
  IN SubSeq(t, 1, i - 1) \o << value >> \o SubSeq(t, j, Len(t))

SetField(t, opt, value) ==
  LET i == FieldStart(t, opt)
      j == SelectInSubSeq(t, i, Len(t), LAMBDA x : x = DELIM)
  IN SubSeq(t, 1, i - 1) \o << value >> \o SubSeq(t, j, Len(t))

\* set_config_option(opt, value): an opt above OPTCOUNT is refused and
\* g_config left as it is; otherwise set_config_value(opt, value.ptr(), 4).
SetConfigOption(t, opt, value) == IF opt > OPTCOUNT THEN t ELSE SetField(t, opt, value)

\* What a write of toks leaves in the file: all of it, or (when writes may
\* fail part way) a prefix, the last field possibly cut.
Written(toks) ==
  IF ~PartialWrites THEN {toks}
  ELSE {SubSeq(toks, 1, k) : k \in 0 .. Len(toks)}
       \cup {SubSeq(toks, 1, k) \o << PART >> :
                k \in {k \in 0 .. Len(toks) - 1 : IsValue(toks[k + 1])}}

\* The file after fwrite of toks at offset 0 of old ("rb+" does not truncate).
Overwrite(old, toks) ==
  toks \o (IF Len(old) > Len(toks) THEN SubSeq(old, Len(toks) + 1, Len(old)) ELSE << >>)

(***************************************************************************)
(* Faults used to validate the properties (see PROJECT.json "mutants").    *)
(***************************************************************************)
(***************************************************************************)
(* The runs.                                                               *)
(***************************************************************************)
Init ==
  /\ disk \in InitialFiles
  /\ pc = "boot"
  /\ existed = FALSE
  /\ gConfig = [heap |-> FALSE, toks |-> << >>]
  /\ pending = << >>
  /\ devs = 0 /\ heap = << >> /\ devMem = 0 /\ portMem = 0
  /\ runs = 0
  /\ ghost = {}
  /\ fromFile = FALSE /\ filter = "" /\ saved = NOSAVE /\ savedAtBoot = NOSAVE

\* The process starts: _tmain's cfg_device and cfg_port are constructed
\* (two malloc'd blocks), then check_config_file up to the fclose (cfg.h
\* 126-159): fopen "ab+" creates an empty file; a new file gets the static
\* default, buffered; an existing one is read into a malloc'd g_config.
\* When fopen_s fails, or fread returns fewer bytes than ftell gave, the
\* run dies before anything is written.
Boot ==
  /\ pc = "boot"
  /\ runs < MaxRuns
  /\ runs' = runs + 1
  /\ existed' = disk.exists
  /\ \/ /\ OpenFails
        /\ ShoutErrorAndDie
        /\ UNCHANGED <<disk, gConfig, pending>>
     \/ IF ~disk.exists
          THEN /\ disk' = FileOf(<< >>)
               /\ gConfig' = [heap |-> FALSE, toks |-> DefaultConfig]
               /\ pending' = DefaultConfig
               /\ pc' = "flush"
          ELSE /\ gConfig' = [heap |-> TRUE, toks |-> disk.toks]
               /\ UNCHANGED <<disk, pending>>
               /\ pc' = "ask"
  /\ heap' = Locals /\ devMem' = 1 /\ portMem' = 2
  /\ fromFile' = FALSE /\ filter' = "" /\ savedAtBoot' = saved
  /\ UNCHANGED <<devs, ghost, saved>>

\* fclose of the new file (cfg.h 160): the default reaches the file.
Flush ==
  /\ pc = "flush"
  /\ \E w \in Written(pending) : disk' = FileOf(w)
  /\ pending' = << >>
  /\ pc' = "ask"
  /\ UNCHANGED <<existed, gConfig, devs, heap, devMem, portMem, runs, ghost, fromFile, filter, saved, savedAtBoot>>

\* Answer Y with an existing file (sniffles.cpp 190-196): DEVICE and PORT
\* are read from g_config, each into a new memory_t that the handle is
\* assigned member-wise (the old block leaks), and the device list is built.  Looking for the
\* PORT field in a file without a delimiter dereferences NULL + 1.
UseExisting ==
  /\ pc = "ask"
  /\ existed
  /\ LET t == gConfig.toks
     IN IF FieldStart(t, PORT) = 0
          THEN /\ pc' = "down"
               /\ ghost' = ghost \cup {"read"}
               /\ UNCHANGED <<devs, heap, devMem, portMem>>
          ELSE LET d == FieldValue(t, DEVICE)
                   p == FieldValue(t, PORT)
               IN /\ heap' = Malloc(Malloc(heap, d), p)
                  /\ devMem' = Len(heap) + 1 /\ portMem' = Len(heap) + 2
                  /\ ghost' = IF JUNK \in {d, p} THEN ghost \cup {"read"} ELSE ghost
               /\ devs' \in CreateDevList
               /\ pc' = "select"
  /\ fromFile' = TRUE
  /\ UNCHANGED <<disk, existed, gConfig, pending, runs, filter, saved, savedAtBoot>>

\* Answer N, or no file before (sniffles.cpp 197-234): the user picks a
\* device index the prompt accepts (1 .. size) and a number whose port is
\* > 0 (the prompts repeat on anything else).  With no devices no index is
\* accepted and the prompt repeats for ever.  The answers are stored with
\* memory_t(T val) and assigned member-wise.
Prompt ==
  /\ pc = "ask"
  /\ \E n \in ListAllDevs :
       /\ devs' = n
       /\ IF n = 0
            THEN pc' = "stuck" /\ UNCHANGED <<heap, devMem, portMem>>
            ELSE \E i \in 1 .. n, p \in {x \in Ports : ScanPort(x) > 0} :
                   /\ heap' = MemoryOfVal(MemoryOfVal(heap, i), ScanPort(p))
                   /\ devMem' = Len(heap) + 1 /\ portMem' = Len(heap) + 2
                   /\ pc' = "select"
  /\ UNCHANGED <<disk, existed, gConfig, pending, runs, ghost, fromFile, filter, saved, savedAtBoot>>

\* devList[cfg_device.value() - 1] and the NULL check (sniffles.cpp 240-
\* 245).  An index outside the list reads whatever lies beyond it.
SelectDevice ==
  /\ pc = "select"
  /\ IF cfgDevice \in 1 .. devs
       THEN pc' = "save" /\ UNCHANGED ghost
       ELSE /\ ghost' = ghost \cup {"index"}
            /\ pc' \in {"down", "save"}
  /\ UNCHANGED <<disk, existed, gConfig, pending, devs, heap, devMem, portMem, runs,
                 fromFile, filter, saved, savedAtBoot>>

\* save_config up to fwrite (cfg.h 170-182): its two memory_t parameters
\* and set_config_option's are copies (copy constructor, never freed); set
\* PORT, then DEVICE.  A run that dies here leaves a heap nothing reads.  Each
\* set_config_value reallocs g_config and then writes through v and
\* delimiter, pointers into the block it had before.  The new size equals
\* the old, so a malloc'd block is reallocated in place.  realloc of the
\* static default is undefined; the Windows heap manager this program is
\* built for terminates the process on a pointer it does not own.
SaveOpened ==
  LET t1 == SetConfigOption(gConfig.toks, PORT, cfgPort)
      t2 == SetConfigOption(t1, DEVICE, cfgDevice)
  IN IF ~HasField(gConfig.toks, PORT) \/ ~HasField(t1, DEVICE)
       THEN pc' = "down" /\ UNCHANGED <<gConfig, pending, ghost, heap>>
       ELSE IF gConfig.heap
         THEN /\ gConfig' = [gConfig EXCEPT !.toks = t2]
              /\ pending' = t2
              /\ LET h1 == CopyMemory(CopyMemory(heap, devMem), portMem)
                 IN heap' = CopyMemory(CopyMemory(h1, Len(h1)), Len(h1) - 1)
              /\ pc' = "close"
              /\ UNCHANGED ghost
         ELSE /\ ghost' = ghost \cup {"realloc"}
              /\ pc' = "down"
              /\ UNCHANGED <<gConfig, pending, heap>>

\* save_config (cfg.h 170-187): fopen_s "rb+" fails and the run dies
\* (shout_error_and_die), or the file is open and the fields are set.
Save ==
  /\ pc = "save"
  /\ \/ /\ OpenFails
        /\ ShoutErrorAndDie
        /\ UNCHANGED <<gConfig, pending, ghost, heap>>
     \/ SaveOpened
  /\ UNCHANGED <<disk, existed, devs, devMem, portMem, runs, fromFile, filter, saved, savedAtBoot>>

\* fclose (cfg.h 184): g_config is written over the start of the file.
Close ==
  /\ pc = "close"
  /\ \E w \in Written(pending) : disk' = FileOf(Overwrite(disk.toks, w))
  /\ pending' = << >>
  /\ pc' = "listen"
  /\ saved' = [valid |-> TRUE, device |-> cfgDevice, port |-> cfgPort]
  /\ UNCHANGED <<existed, gConfig, devs, heap, devMem, portMem, runs, ghost, fromFile, filter,
                 savedAtBoot>>

\* Fault used to validate FilterIsPort: cfg_device and cfg_port freed
\* before the filter is built from cfg_port.value().
ListenFreeFirst ==
  /\ pc = "listen"
  /\ LET h0 == FreeMemory(FreeMemory(heap, devMem), portMem)
     IN \E port \in Value(h0, portMem) :
          LET h2 == NumToStr(NewString(h0, "port "), port)
              a == Len(h2) - 1
              b == Len(h2)
          IN \E lhs \in CStr(h2, a), rhs \in CStr(h2, b) :
               LET h3 == StrCat(h2, lhs, rhs)
                   h4 == StringDtor(StringDtor(h3, b), a)
               IN /\ filter' \in CStr(h4, Len(h3))
                  /\ heap' = h4
  /\ devMem' = 0 /\ portMem' = 0
  /\ pc' = "sniffing"
  /\ UNCHANGED <<disk, existed, gConfig, pending, devs, runs, ghost,
                 fromFile, saved, savedAtBoot>>

\* sniffles.cpp 249-265: print the device; build strFilter = String("port ")
\* + NumToStr(cfg_port.value()).CStr(): the String "port " (a), the one
\* NumToStr returns (b) and operator+'s new String (c), which strFilter
\* copies member-wise and so shares c's buffer; a and b are destroyed at the
\* end of the expression; cfg_device.free() and cfg_port.free(); the sniffer
\* is given strFilter.CStr().
Listen ==
  /\ pc = "listen"
  /\ \E port \in Value(heap, portMem) :
       LET h2 == NumToStr(NewString(heap, "port "), port)
           a == Len(h2) - 1
           b == Len(h2)
       IN \E lhs \in CStr(h2, a), rhs \in CStr(h2, b) :
            LET h3 == StrCat(h2, lhs, rhs)
                h4 == StringDtor(StringDtor(h3, b), a)
                h5 == FreeMemory(FreeMemory(h4, devMem), portMem)
            IN /\ filter' \in CStr(h5, Len(h3))
               /\ heap' = h5
  /\ devMem' = 0 /\ portMem' = 0
  /\ pc' = "sniffing"
  /\ UNCHANGED <<disk, existed, gConfig, pending, devs, runs, ghost,
                 fromFile, saved, savedAtBoot>>

\* The run ends: crashed, killed, or (from "sniffing") stopped by the user.
\* Buffered writes are lost; the file is what was written.
Stop ==
  /\ pc # "boot"
  /\ pc' = "boot"
  /\ pending' = << >>
  /\ UNCHANGED <<disk, existed, gConfig, devs, heap, devMem, portMem, runs, ghost,
                 fromFile, filter, saved, savedAtBoot>>

Done == pc = "boot" /\ runs = MaxRuns /\ UNCHANGED vars

Next ==
  \/ Boot \/ Flush \/ UseExisting \/ Prompt \/ SelectDevice \/ Save \/ Close \/ Listen
  \/ Stop \/ Done

Spec == Init /\ [][Next]_vars

(***************************************************************************)
(* Properties.                                                             *)
(***************************************************************************)
\* A run that answers Y captures on the device, and with the filter, that
\* the last save_config completed before it wrote, whatever runs stopped in
\* between.  It needs set_config_value to find each field after the right
\* number of delimiters and keep the rest, fclose to write all of
\* g_config, check_config_file to read the file back whole, and
\* get_config_option to take each field from its own offset.
ListenAsLastSaved ==
  [][Listen /\ fromFile /\ savedAtBoot.valid
       => cfgDevice = savedAtBoot.device /\ filter' = FilterOf(savedAtBoot.port)]_vars

\* A run that finds an existing file finds a configuration in it: both
\* fields it reads are there (spec of check_config_file: the file is
\* either new and given the default, or a saved configuration).
ExistingConfigParses ==
  (pc = "ask" /\ existed) =>
    /\ FieldStart(gConfig.toks, PORT) # 0
    /\ FieldValue(gConfig.toks, DEVICE) # JUNK
    /\ FieldValue(gConfig.toks, PORT) # JUNK

\* Every block is released by the function that matches its allocator, and
\* once: set_config_value reallocs only a g_config that malloc returned,
\* and memory_t::free and ~String delete[] only what new[] allocated.
HeapOpsMatchAllocator ==
  /\ "realloc" \notin ghost
  /\ \A b \in DOMAIN heap : heap[b].freedBy \in {"", Releaser[heap[b].by]}

\* The sniffer is handed "port N" for the port the run saved, N read from
\* cfg_port while its block is live, and strFilter's buffer still live:
\* String has no copy constructor, so strFilter shares the buffer of
\* operator+'s String, and the temporaries destroyed at the end of the
\* expression must not be the ones it is built from.
FilterIsPort == [][Listen => filter' = FilterOf(cfgPort)]_vars

\* The device index a run uses is an index of its device list.
DeviceIndexValid == "index" \notin ghost
====
