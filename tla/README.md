# coragem in TLA+

coragem (`src/code`) is an HTTP server in C: one process and one thread, an
event loop over an edge-triggered epoll set, arenas for all of its memory, and
its own strings, string buffers, lists and logs. This directory holds TLA+
modules of it, the TLC runs that check them, and proofs for TLAPS.

## The parts of the system

| part | state | operations | needs |
|---|---|---|---|
| arena (`allocator.c`) | a chain of mapped blocks; per block an offset, a committed and a reserved size | alloc, push, contiguous push, position, pop, clear, release, scratch begin/end | mmap, mprotect, munmap |
| string (`str.h`) | none: a slice is a pointer and a size | substring, split, split into lines, trim, match, find | |
| string buffer (`str_buf.h`) | bytes, size, capacity, last character, arena, flags | allocate, append, formatted append, assign, clear, release | arena |
| string list (`str_list.h`) | a queue of texts, and buckets of chains over it | add if absent, contains, loop | arena |
| hash list (`lists.h`) | a queue of keys and values, and buckets of chains over it | add if absent, get, first, last, loop | arena |
| configuration (`coragem.c:387-520`) | port, address, throttle, three logs, two folders | read, split into lines, parse, open | string, list, file |
| start (`coragem.c:300-380`, `os_linux.c:140-273`, `530-629`) | arguments, pid file, listening socket | arguments, background process, pid file, bind, listen | configuration |
| event loop (`event.c`) | the batch of events, the scratch of the round | wait, accept, read, call back, close | sockets, arena |
| request handling (`coragem.c:104-298`) | two arenas, a print counter | split the headers, find the method, open the file, answer, log | all of the above |
| sockets (`os_linux.c`) | the epoll set, the descriptors | accept, register, read all, write all | kernel |
| files and folders (`os_linux.c:61-193`, `567-600`) | the open files | open, close, read whole | kernel |
| logger (`logger.h`) | a file | put, formatted put | string buffer, file |

The parts call each other; there are no threads, and the only callback is
`handle_client`, run by the loop. What happens at the same time happens outside:
clients connect, send, drain and leave between any two system calls, the kernel
refuses things, signals end the process, and other copies of the program start
and use the same pid file and port.

What makes each part correct, and what is hard about it:

- **arena**: no grant overlaps another, a header or memory that is not
  committed; ending a scratch undoes exactly what was done in it. Hard: the OS
  may refuse in the middle of a push, blocks have different sizes, a position is
  used long after it was saved, the loop uses one scratch for its whole life.
- **event loop**: an event is handled on the connection it was reported for; no
  client is forgotten, starved or served out of turn; nothing that clients do
  ends the loop. Hard: descriptors are closed and handed out again within one
  batch, edges are reported once, partial writes, data that come too late.
- **string buffer**: its text is what was put in, as long as it has room. Hard: it grows in an arena
  whose scratches end at other times, its capacity changes with every append, and
  neither it nor its callers know how much room there is.
- **configuration**: the list of lines is the file, a key has the value the file
  gives it, reading ends. Hard: four ways to end a line, state that is carried
  from one line to the next, slices that nothing terminates.
- **start**: one server for an address, a failed start has a cause and leaves
  nothing behind. Hard: other starts at the same time.
- **hash list, string list**: a map that keeps the first value and the order of
  insertion. Hard: two lists linked by hand through the same nodes, keys of one
  bucket or of one hash, memory that runs out in the middle.
- **request handling**: what is answered is what the request line asks for,
  wherever the network has cut the request. Hard: a line is split at a colon
  before it is known what line it is.
- **files, logs, background process**: whatever is opened is closed on every
  path; a client gets nothing but its answer; the log agrees with the answers.
  Hard: the kernel hands out the lowest free number, any open may fail, and a
  background process has closed the numbers that `log()` writes to.

## Plan

Done, in this order: the arena with its specification and proofs; the event loop
with its sockets and callback; string buffers with their specification and
proofs; configuration; start with its proofs; proofs for the event loop, for
every number of clients and descriptors (at least two); hash list and string list
with their specification and proofs; the descriptors of the process, the request
log and the bytes of a response, with proofs; the parsing of a request, with proofs;
the proofs about all lines of a text (`Config`, the headers of `Request`); the proof
that the loop serves one line of clients; measures that show that turns, calls,
starts and readings end.

Left, in this order:

1. The composition of `Arena`, `StrBuf` and `EventLoop` over one round of the
   loop: the response in the arena of the round, and the text of a request that
   grows in it.
2. The memory copies of `util.c` against a byte-wise definition.

## Modules

| module | models | with |
|---|---|---|
| `BumpStack` | what an arena promises: a cursor, spans below it, saved positions | |
| `Arena` | `allocator.c` on a growing arena | `BumpStack` (refined) |
| `ArenaProofs` | proofs, of the invariants and of the refinement | |
| `Str` | `str_substr` on sequences | |
| `FirstCome` | what the loop promises: one line of clients | |
| `EventLoop` | `event.c`, the socket calls of `os_linux.c`, `handle_client`, epoll and the clients | `Str`, `FirstCome` (refined) |
| `EventLoopProofs` | proofs | |
| `TextBuffer` | what a string buffer promises: a text, and a room for it | |
| `StrBuf` | `str_buf.h`, with the place of the bytes in the arena | `TextBuffer` (refined) |
| `StrBufProofs` | proofs | |
| `Lines` | `str_split_line`, what the lines of a text are, and the variables that all splitting has | |
| `Config` | reading the configuration and opening what it names | `Lines` |
| `Request` | what is asked for by the bytes that have come from a client | `Lines` |
| `LinesProofs` | proofs about `Lines`, `Config` and `Request` | |
| `FirstKept` | what a list promises: a map that keeps the first value | |
| `HashList` | `lists.h` and `str_list.h`, node by node | `FirstKept` (refined) |
| `HashListProofs` | proofs | |
| `Descriptors` | everything the process opens and closes, what it sends and logs | |
| `DescriptorsProofs` | proofs | |
| `Startup` | `init_server` of several processes, the pid file, bind and listen | |
| `StartupProofs` | proofs | |
| `LeastNumber` | a lemma on sets of numbers for the proofs | |
| `MC...` | values for TLC | |

A definition whose comment begins with `Fault:` is not a model of the code: it
is what a plausible mistake would make of the definition after it, and
`PROJECT.json` names the property that then fails.

How they fit together: `Config` is one `OpenConfig`, `OpenNext`, `CloseConfig` of
`Descriptors`, and its list of lines is a `HashList` with enough memory, as are the
headers of `Request`. `Request` computes what `EventLoop` takes as a constant
(`Meaning`) and `Descriptors` as the input of `Handle`. `EventLoop` proves that two
connections are open at most (`FewConnections`), which `Descriptors` has as the
guard of `Accept`; there the sockets of the clients are in one table with all other
files, while `EventLoop` has the batches and partial writes.

### Arena

`chain` is the list of `ArenaAllocator` blocks from the root to `current`; a
block has its offset (`curr`), its committed and reserved sizes and the granule
it extends by. Positions are global, as `arenaPosition` computes them. `marks` are
the open scratches. `live` is a history variable: the spans granted and not yet
given up by ending a scratch, clearing or releasing. `Push` is the whole of
`arenaPush__impl`: the decision to leave the block, the new block (or none, if
mmap refuses), the extension of the committed prefix (or not, if mprotect
refuses) and the strict comparison at the end. Callers are assumed to end scratches
innermost first, as all callers in the code do, and not to use what they gave up.

The event loop ends one scratch after every round and goes on using it
(`event.c:106`): `ScrachReuse`.

### Event loop

Variables of the kernel: `backlog`, `owner` (who has a descriptor), `interest`
and `armed` (the epoll set and its ready list), and per connection the pieces
sent and read and the send buffer `tx`. Variables of the loop: `pc`, `batch`,
`parts` (what is still to be written of the answer) and `offset` (of
`osFullWriteToSocket`). Each system call is a step of its own, so that clients
act between any two. The events of a batch carry the owner at the time of the
report in `who`, which the code does not have: `EventIsFresh` compares it with
the owner when the event is handled.

A request is a number of pieces; `Meaning` says what the server makes of the
first k of them (nothing, no method, no path, found, missing, denied). This
classification stands for the parsing in `handle_client` and
`handle_get_response`, which is `Request`. A first line without a line end is "nothing"; a directory
opens, and is answered by a header alone.

- epoll may report ready descriptors in any order; a batch holds as many as fit.
- A client leaves by closing. If the server closes with unread data, the kernel
  resets the connection, and what was not delivered is lost.
- `Idle` stands for timeouts, EINTR and the throttling sleep: nothing changes.
- `Faults` names what may go wrong: epoll_wait, accept and epoll_ctl failing,
  undefined behaviour ("ub": an uninitialized `line[PATH]` or scratch), SIGINT.
  A request or a file of more than the 4096 bytes of its buffer is undefined
  behaviour, too (see `StrBuf`), and may do whatever "ub" may; `File` stands for one that fits.
- The callback's result is ignored by the loop, and `osFullReadFromSocket` never
  returns an error, so neither is in the model.

### String buffer

`bytes` are what the buffer can write, `at` is where they lie in the arena and
`pos` the arena's position. `Put` is the end of `strbuf_concat_impl`. The
declaration of a second `ptr` at `str_buf.h:221` keeps the text where it is
whatever was pushed. A push that is refused ends the program, because
`MemoryZero` is called on the NULL it returned. `Cut` is the character that
`vsnprintf` loses in a text of a cache line or more, as the header of every page is.

No caller tests what it puts in, and none is assumed to: a call that asks for more
than the bytes that were allocated writes over the buffer's header, and the phase is
"wild" from then on. `TextBuffer` has the room as a variable: `Becomes` is any call
whose text has room, `Break` the others, after which nothing is promised, and of a format
of a cache line or more the last character is left open. So the refinement
says exactly which calls break a buffer, and that no other call ever does, although the
capacity in the code tells neither.

### Configuration

The text is a sequence of words and signs (LF, CR, `=`, `#`); slices are pairs of
positions in it, as in the code. One action per round of the two loops. Blanks
and case are abstracted. `k_v[VALUE]` is `Unset` until a line has a `=`; what
reads it before may crash or go on with an empty text. `CString` is what the
system sees that is given the start of a slice. `LineEnds`, `LineOf` and `FirstLine`
of `Lines` say what the lines of a text are without any splitting, and `ReadWith` with which
value a line is read: its own, that of the last line before it that has one, or an
empty text. `ReadAsWritten` compares what the keys have in the end with these, for all files.

### Request

The request is a sequence of words and signs, and the handler gets a beginning of
it of any length (`text`). One action per round of
`hash_list_build_http_header_from_lines`, one for `handle_client`. `Header` is the
splitting of a line at its first colon: without one, or with nothing behind it,
the line is stored under the key "Request". The last round stores a string
without an address under that key if it is free: that is how a request whose first
line has not come whole is closed without an answer, and why the list is never
empty. The first *value* in the list is the request line, whatever its key, and
"GET" may be anywhere in it.

### Hash list

`nodes` holds the `ElementNode`s in the order of allocation, with their links of the
chain and of the queue; `buckets`, `first` and `end` are the pointers of the list. A call is begun by `Call`, walks
over its chain one node per step (`FollowChain`), and ends with `Found`, `NotThere`,
`Insert`, or, if the arena refuses the node, `Refused`: `str_list_add_from_str` drops the text,
`hash_list_add` writes through the NULL it got (`OnRefusal`). `Hash` is any function of
the key. Loops over all nodes (`Visit`) and the two ends (`GetEnd`) are calls, too.

### Descriptors

`table` is the table of open files of the process, `Lowest` the number the kernel
hands out next. One action per call that opens, closes or writes something: from
`main` to the first wait, then accepting and answering. Every open may
fail, also because no number is free. `kept` are the logs and folders that could be
opened and stay open. `WriteText` is what `log()` and the handler of SIGINT write to
number 2, whatever file that is by then: `got` is what every client was sent, `log`
the request log, which outlives the process. `Interrupt` may come between any two
steps. `getaddrinfo` and `localtime` open and close files of their own, which
changes no number afterwards, and are left out. The text of a log line may be of
several writes; here it is one.

A file that fits into the buffer of `readFile` is sent whole. A "large" one runs over
it (`coragem.c:99`, `str_buf.h:245`): any number of bytes (`Garbage`) is sent for it, or the process
dies (`BodyDies`), as it may for every page, because `readFile` takes its arena from a
scratch that it never set.

### Start

Processes share a pid file and a list of addresses. One action per system call
that another process can see. The kernel refuses bind and listen where another
socket listens, and with SO_REUSEADDR nowhere else. `Die` stands for every end
of the process. `supported` and `writable` are unknown facts of the machine.

## Runs

| run | shows |
|---|---|
| `arena` | memory safety, accounting of mappings, `arenaPopTo`'s assertions, the inductive invariant, exact rewinding, why a push is refused, refinement of `BumpStack` |
| `event_loop` | three clients, three descriptors, all faults, send buffers that fill: fresh events, at most two connections, none forgotten, the loop ends only for a cause, whole answers when there is room, and until it ends every client is served, in the order of connecting |
| `strbuf` | the text is what was put in, but for the end of a long format, until a call asks for more room than there is, and lies where nothing else is pushed |
| `config` | lines, values and the end of reading |
| `request` | the headers are the text, and the answer does not depend on where the network cuts a request |
| `startup` | one server for an address, failures have a cause, every start settles |
| `hash_list` | every node linked once in both lists, the first value kept, every walk ends |
| `descriptors` | nothing leaks, nobody gets another's bytes but in one case, the log agrees with the answers, how many descriptors are enough |
| `slow_reader` | violation: a partial write goes on with the wrong bytes (`os_linux.c:480`) |
| `root_folder` | violation: configured folders are never opened (`os_linux.c:575`) |
| `pid_file` | violation: a failed start overwrites the pid file (`coragem.c:353`) |
| `content_length` | violation: a page comes two bytes longer than announced (`coragem.c:172`) |

### Bounds

- `MCArena`: a header of 1 byte, pages of 4, a commit of 2 (half a page, as 2 KB
  is of 4 KB in the code), a reservation of 8; pushes of 1, 3, 5 and 11 bytes, that
  is within a page, up to and over the committed prefix, and over the
  reservation; three mappings, two scratches, three spans. Blocks are symmetric.
- `MCEventLoop`: three clients are enough for one being answered, one accepted
  and one in the queue. Three descriptors are one more than `BoundedConnections`
  allows, so that it can fail. A batch holds 3 (10 in the code): never more are ready.
  One client has a request of two pieces that may be answered in every way, one is told
  that its page is missing, and one sends nothing that is a request; the file has three units
  and the send buffer three, so that the answer with the page always fits and that with the
  file only if the client drains meanwhile. That requests and answers of any length and any number of
  clients make no difference to the invariants is proved. `MCSlowReader` has two descriptors, a smaller
  buffer and a request for a file.
- `MCStrBuf`: capacities 1 to 3, texts of 0 to 2 characters, a cache line of 2, so that texts below, at and over
  the room and formats on both sides of a cache line occur, one buffer at a time
  (the code has several, in different arenas or below each other in one; a
  buffer never touches what lies below it), room for 9 bytes.
- `MCConfig`: up to three lines from ten contents and the line ends LF and CR LF,
  a last line without an end, and mixtures of CR and LF in front and behind.
- `MCRequest`: requests of two lines from nine first lines and seven headers, ended by LF or CR LF,
  with a third line or the beginning of one, and mixtures of CR and LF in front and
  in the middle; every beginning of each. A method, a path, a host and a blank are
  one sign each.
- `MCHashList`: four keys in two buckets, two of them with one hash, two values.
- `MCDescriptors`: two starts, two clients (symmetric), a file of three bytes, a large one of six of
  which none or two are sent, a page of four, the
  line about the CPU time with every second request (4096 in the code), and eleven
  descriptors: `Enough` for a background process, and for one in front only if some of
  its logs and folders could not be opened, so that numbers run out, too.
- `MCStartup`: three processes that each start once, two addresses, one pid
  shorter than the others. `MCPidFile`: two processes and one address.

Deadlock is checked for the arena and for the slow reader's loop, which has no faults. The
other systems may stop: the process ends, crashes or has read its file, or no
process is left to start. That the event loop itself is never stuck is proved (`NeverStuck`).

### Fairness

- `EventLoop`: `WF_vars(Loop)`. The process is alone in its loop and runs whenever
  the kernel gives it something to do. Clients owe nothing: they may never send,
  drain or leave. `FirstCome` asks for weak fairness of its one step.
- `Config`: `WF_configVars(ConfigNext)`, one thread that reads.
- `HashList`: `WF_vars(Proceed)`, a call that was begun goes on; nobody owes a call.
- `Startup`: a process that was started goes on (`WF_vars(Step(p))`); nothing makes
  anybody start or die. `Listen` is disabled while another listens, so that a start may wait
  for ever: `StartsSettle` allows it to while somebody serves at its address, and for nothing else.
- The others have no liveness properties.

## What is proved

With TLAPS, for all values of the constants that satisfy the assumptions:

- **`ArenaInvariant`**: `Spec => []ArenaInv`. `LiveIsUsable` alone is not
  inductive: that a pop gives back exactly what the innermost scratch was granted
  needs that every saved position parts the spans into older and younger ones
  (`Parts`), that positions, depths and counts of the scratches grow together
  (`Nested`), that blocks do not meet (`Layered`), and that the spans are in the
  order of the blocks (`Ordered`). `PlaceKeepsGood`, `GrowthKeepsGood` and
  `CutKeepsGood` show that granting, growing and popping keep all of it, and there
  is one lemma for each action. `TypeCorrect`, `MemorySafe`, `NothingLeaks`,
  `AssertsHold` and `RewindRestoresPosition` follow from it.
  Assumptions: `ArenaAssumption` (positive sizes, the header fits in a page).
- **`ArenaIsABumpStack`**: the refinement, action by action; the cursor is the
  global position, the spans are placed by their block's base.
- **`OnlyExactFitsAreRefused`**: if the OS refuses nothing, a push gets nothing
  only when it would end exactly at the committed prefix.
- **`StorageIsBacked`**, **`BufferTypeCorrect`**: by the invariant of `StrBufProofs`.
- **`TextIsWhole`**: a string buffer implements `TextBuffer`, whatever its callers put in and
  format, and whenever memory runs out. The invariant is `StorageBacked`: the next character goes behind the
  text, and text and bytes are where they were. `PutAppends` shows that an append which has room
  appends and any other breaks the buffer, and that the room is the same after it.
- **`OneServerEach`**, **`FailuresHaveCauses`**, **`StartupTypeCorrect`**: for any number of
  processes, addresses and starts. The invariant (`Sockets`, `Apart`) adds who
  has a socket in which state, that the refused addresses are exactly those
  behind a process, and that no two listen at one address; what makes it
  inductive is that `listen` is refused where another listens.
- **`EveryStartEnds`**, **`WaitsForServers`**: each step of a start brings down the number of
  steps that it can still take (`Togo`), and no other process raises it; a start that is
  refused by `listen` waits for a process that serves, never for another start.
- **`FreshEvents`**, **`FewConnections`**, **`NoneForgotten`**, **`StopsForAReason`** and the types
  of the loop: for any number of clients, any requests and send buffers, and all
  faults. The invariant says who is in the kernel's queue and that nobody is there twice (`Queue`), that connections
  and descriptors correspond and what epoll has to report of each (`Held`), that a batch has
  one event of the listener and one of a client at most (`Events`), and what
  is open at which point of the round (`Turn`): it is the last that keeps a second
  client from being accepted before the first is closed.
  Assumptions: `EventLoopAssumption`, with batches of two events or more (10 in the
  code), and `TwoDescriptors`.
- **`WholeAnswers`**: a client that stays and whose buffer never runs full gets the whole
  answer, whatever its length. A write that takes only a part of what is offered marks the
  client as slow, so that to a client that is not an answer goes out one whole part per write
  (`Halfway`); the invariant (`Answering`) adds that nothing was sent to a client
  before it is its turn.
- **`OneLineOfClients`**: the loop implements `FirstCome` but for its fairness: whoever
  connects joins the line last, and only its first leaves it. From `Turn` and `Events` at most
  one connection is open whose event is left in the batch, and one whose event is not, so
  that the line is these two places and the kernel's queue (`Places`); waiting and accepting
  move a client from one to the next (`PollKeepsLine`, `AcceptKeepsLine`), and a close empties the
  first (`CloseDealsWithFirst`).
- **`EveryTurnEnds`**, **`NeverStuck`**: what remains of `Served` without fairness. `Work` has the connections that
  can still be accepted, the phase of the turn, the parts and what is unwritten of the
  first. Every step of the loop either closes the connection of the first in the line or
  brings `Work` down lexicographically and leaves the line alone; what clients do leaves both. And
  while somebody is in the line the guard of some step of the loop holds (`CanGoOn`).
  Both need that no part is empty or written to its end, and that no send buffer holds more than
  it has room for (`Sending`).
- **`AllLinked`**, **`ListKeepsFirst`**, **`ListTypeCorrect`**: for all keys, hash functions, numbers of
  buckets and of nodes, every node is in the chain of its bucket and in the queue
  in the order of insertion, no key is there twice, and the list refines
  `FirstKept`. The invariant adds what a call in progress has seen of its chain: none of
  the nodes behind it has the key.
- **`CallsGetOn`**: every step of a call leaves fewer nodes for its cursor to come to
  (`Left`), in a chain because links lead to older nodes, in the queue because they lead to newer ones.
- **`NothingIsLeaked`**, **`OnlyOwnBytes`**, **`DescriptorTypes`**: for any limit, number of clients and of
  starts. The invariant says which files are open at each point, each once
  (`Present`), how far the start is (`Progress`), and where number 2 can be (`Second`): in a
  background process the configuration takes 0 and the first thing that is kept
  takes 1 before the configuration is closed, so that the listener gets 0, epoll 2,
  and no client a number below 3.
- **`NothingIsRefused`**: the table is an injection of the open descriptors into what is
  expected to be open, so that with no more than two clients (`Room`) one number is left
  when the server opens something (`OneIsFree`).
- **`LogIsTrue`**: the invariant `Told` adds that a client that is not yet handled has neither a
  status nor a line, and that what is to be logged is what the client being handled was sent.
- **`Cut`** and the types of `Request`: for any requests. The invariant says that what
  has come is a beginning of the request, that the first value in the list is that of
  the first line of what has come, or none if no line has come whole (`List`), and
  that the answer is made from it (`Answered`). The argument is
  that the first round of `str_split_line` finds the first line (`FirstRound`), and that a
  longer beginning has the same first line (`FirstLineStays`); `BrowserLine` follows
  a line as a browser sends it through trimming and the splitting at blanks.
- **`HeadersOfTheText`**: for any requests, of any length. What is in the list are the headers of
  those lines before `rest` that give a key its first value, each at its place (`Gathered`).
  Assumptions of both: `LinesAssumption` and `RequestAssumption` (GET is neither a blank nor
  a colon, and the page for "/" has a name).
- **`ListIsTheFile`**, **`ConfigTypes`**: for any file. `LineEnds` is defined by a recursive function (`Second`:
  which characters are the second half of a line end); that there is such a function is shown
  without induction, by the least position at which a function with one value more would be
  missing (`SecondExists`). `NextLineIs` shows that one round of `str_split_line` finds the next of these
  lines from wherever splitting may stand (`Placed`), and the invariant `Listed` that the list is at any time
  the lines before `rest`, each text once.
- **`FilesAreRead`**: for any file, with comments, lines without an `=`, repeated keys and
  repeated lines. The invariant `Parsed` says of every key what the lines up to `next` have given it
  (`HasYet`: the first value that is not empty for port and address, the last for the others), and that
  `value` is that of the last of them that has one (`LeftOver`). First and last are well defined because
  different lines are read with values at different places or with the same one (`ReadingsApart`).
- **`NamedFoldersClosed`**: no folder that a file names is ever opened, whatever it is called; a value
  is followed by a line end in the text (`Inside`), and no folder has one in its name.
- **`ReadingGetsOn`**: each step of reading comes to a later part of it, or leaves less of the text or
  of the list ahead.
  Assumptions of these: `LinesAssumption` and `ConfigAssumption` (the five signs differ
  from each other and from the keys, and no folder has a line end in its name).

Only model-checked: that what must happen does happen, that is the liveness of `Served`,
`FirstComeFirstServed` (its fairness), `ReadingEnds`, `CallsReturn` and `StartsSettle`. Fairness and ENABLED
are out of the prover's reach; the measures above are the part of the argument that
is not. No proof uses induction over data.

## What the code does that it should not

The violation runs each state what a comment, a declaration, a script or a header of
the repository says, and `PROJECT.json` quotes it ("findings"). Met on the way
and modelled:

- An append that is too long for a string buffer copies past its bytes: the
  second `ptr` of `str_buf.h:221` keeps the text where it is, whatever was pushed. It takes a file or a request of more
  than 4096 bytes ("wild" in `StrBuf`, "large" in `Descriptors`).
- A buffer that made an arena of its own leaves it mapped when it is released
  (`str_buf.h:321`): every opened path and every log line do.
- `strbuf_concatf` loses the last character of a text of a cache line or more (`Cut`), that of the
  header of every page among them.
- `readFile` takes its arena from a variable that it never sets (`BodyDies`). A folder is answered with its size as the
  length and no contents; 404 and 500 announce no length.
- `handle_client` means to keep a client of which nothing has come
  (`coragem.c:277-280`), but the list of headers is never empty, and the loop closes
  every client after its first event, which a new connection has at once.
- A GET whose path has a colon is refused as "Unplemented HTTP 1.1 method"
  (`coragem.c:272`): the line was split there. So is one behind an empty line.
- A background process without logs and folders writes its messages to a client
  (`OwnBytesOnly` has the exact case).
- A blank line before the first `=` of a configuration, as `misc/server_config` has
  it, reads uninitialized memory; `server_throttle` is not the number in the
  file; the built-in root folder counts only if a configuration was read.

Met and not modelled: `os_linux.c:110` joins folder and name without a `/`, although
`misc/server_config` says that a folder needs none at its end; `httpd.sh stop`
calls itself for ever.

## What is not modelled

The copies of `util.c`; the two logs that hold messages only, and all wording;
`httpd.sh`. `arenaJoin`, the event queues, the branches of `str_buf.h` for other flags
and several functions of `str.h` have no caller. `util_hash_sse` is arithmetic on vectors without state
(`HashList` takes any function for it), `timer.c` formats a time, `str_own.h` copies a string,
`test.c` measures; the build files and the pages in `misc/www` have no behaviour.
