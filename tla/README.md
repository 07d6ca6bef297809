# KindleVNCViewer in TLA+

This directory specifies and checks the logic of KindleVNCViewer, a VNC viewer
for e-ink devices, and of the one library whose source its repository contains,
libjpeg-turbo 1.3.0, by which libvncclient decodes the server's pictures.

The viewer is Lua on LuaJIT, a single-threaded program around a poll() loop.
What makes it hard to get right is not parallelism inside the program but the
order in which the server, the network, the input devices and the clock reach
that one thread. libjpeg-turbo is C. What makes it hard is that every stage
can be interrupted: data arrives in pieces, the destination is full, memory
runs out, and the interrupted call has to be repeated without a trace.

Every definition is translated from the source; `PROJECT.json` maps each of
them to its lines. Line numbers below refer to the repository's files.

## 1. Inventory

### The viewer

| Component | Source | State | Operations |
|---|---|---|---|
| Event loop | `ffi/eventloop.lua` | `fds` (descriptor -> callbacks), `poll_fds`/`open_fds` (cached array), `timers` (linked list), `running` | `register_fd`, `unregister_fd`, `register_timer(_in_ms)`, `unregister_timer`, `timer_running`, `abort_loop`, `loop` |
| Viewer | `vncviewer.lua` | `client`, `rfbFramebuffer`, `update_x1..y2` (damage), `refresh_full_ctr`, options, `running` of the main loop | `connect`, socket callbacks, `updateFromRFB`, `refreshTimerFunc`, `do_refresh_full`, main loop, option parsing |
| Kindle input | `ffi/input_kindle.lua` | `input_queue` | `open`, `read`, `err`, `hup`, `waitForEvent` |
| Key bindings | `config.lua`, `keys.lua`, `rfbkeys.lua` | `shift`, `sym` | `handleInput` |
| Blit buffer | `ffi/blitbuffer.lua` | size, pitch, configuration byte (rotation, inversion, type), pixels | `checkBounds`, `blitFrom`, coordinate mapping, colour conversion, painting |
| Linux framebuffer | `ffi/framebuffer_linux.lua` | device kind, `update_marker` | `open`, `refresh` |
| SDL emulation | `ffi/input_SDL.lua`, `ffi/framebuffer_SDL.lua` | `input_queue`, `is_in_touch` | `poller`, `waitForEvent`, `refresh` |
| libvncclient (external) | `ffi/rfbclient_h.lua` | socket, read buffer, frame buffer | `rfbInitClient`, `HandleRFBServerMessage`, `SendKeyEvent` |
| Scripts, build, generated declarations | | none of interest | |

How they interact:

* `vncviewer.lua` registers the socket of a connection with the event loop, and
  `input_kindle.lua` registers each device. `waitForEvent` is the only caller of
  `loop()`: the main loop sits in it until a key arrives (`abort_loop`).
* poll() reports the socket readable; the read callback gives one message to
  libvncclient, which writes the pixels and calls `updateFromRFB` per rectangle.
  That merges the rectangle into the damage and registers the refresh timer if it
  is not running. The read waits for whatever part of the message is missing.
* The timer blits the damage to the screen memory, asks the driver to show the
  region (all of it, if enough pixels have changed), and clears the damage.
* err/hup callbacks quit, or clear `running` of the main loop (`-reconnecting`).
* On a desktop, SDL takes the place of devices and driver; it has no descriptor,
  so a timer asks it for events every 50 ms.

What makes each component correct:

* *Event loop*: a timer is run once, in its time, and taken out of the list; a
  descriptor that has something is served, whatever the others have; the loop
  ends when aborted and not otherwise; poll() waits no longer than it should.
* *Viewer*: no received pixel is forgotten; none waits for ever; a refresh has
  something to show; a full refresh is earned; a lost connection is noticed, and
  with `-reconnecting`, replaced.
* *Input*: every event is read and handled, in order; a lost device is dropped.
* *Geometry*: a copy neither loses cells nor leaves a buffer; what is refreshed
  covers what was written, under every rotation.
* *Keys*: a key that is not held is not down at the server, one that is held is.
* *Framebuffer*: a refresh waits for the one it must wait for, and returns.
* *Pixels*: a pixel keeps its place and its luminance on the way to the screen.

### libjpeg-turbo

| Component | Source (under `libjpeg-turbo-1.3.0/`) | State | What makes it correct |
|---|---|---|---|
| Memory manager | `jmemmgr.c`, `jmemnobs.c` | lists of chunks per pool, the account, windows of virtual arrays | objects are aligned and disjoint; nothing is lost when a request fails half way; rows keep what was written |
| Decompressor control | `jdapimin.c`, `jdapistd.c`, `jdtrans.c`, `jdinput.c`, `jdmaster.c`, `jdcoefct.c` | state of the API, position in the file, coefficients, scan being shown | any order of legal calls, with data in any pieces, gives the image; a call returns |
| Output path | `jdmainct.c`, `jdsample.c`, `jdmerge.c`, `jdpostct.c` | row buffers and counters of four controllers | every row once, in order, made of the right rows |
| Transforms | `jidct*.c`, `jfdct*.c`, `jcdctmgr.c`, `jddctmgr.c` | none | integer arithmetic stands for cosines and divisions |
| Lossless transformation | `transupp.c`, `turbojpeg.c` (tjTransform), `jctrans.c` | virtual arrays of coefficients, crop region | samples go where the request says |
| Compressor control | `jcapimin.c`, `jcapistd.c`, `jctrans.c`, `jcmaster.c`, `jcmainct.c`, `jcprepct.c`, `jccoefct.c` | state of the API, pass, row buffers | the file is the picture, wherever the destination was full |
| Progressive coding | `jcphuff.c`, `jdphuff.c`, `jcparam.c`, scripts in `jcmaster.c` | runs, correction bits, restarts | encoder and decoder stay in step |
| Huffman coding | `jchuff.c`, `jdhuff.c` | bit buffers, tables, position | codes are decodable; units come back from bytes that are late or missing |
| SIMD dispatch | `simd/jsimd_*.c`, `jsimd_none.c` | `simd_support` of the process | a routine that is called exists and finds its constants aligned |
| Marker files, colour conversion and quantization, arithmetic coding, floating-point transforms, tools, Java | | | not modelled (section 7) |

The stages call each other through tables of methods, down from the application
to the entropy coder and back. A stage that cannot go on returns FALSE, and each
caller on the way restores what it had taken over, or remembers how far it was.
The product links the library without SIMD (`Makefile:24`, `-without-simd`);
the dispatch is part of the repository and is modelled nevertheless.

The hazards, each at its line with the properties that are after it, are listed
under `hazards` in `PROJECT.json`. Some smaller ones are in no list, since no
property is after them: every reconnect converts one more Lua function to a C
callback, of which LuaJIT has a limited number (vncviewer.lua:148); damage wholly
outside a screen smaller than the desktop is clipped to an empty rectangle
(framebuffer_linux.lua:264); `total_space_allocated` keeps the alignment space
of freed chunks on the books (jmemmgr.c:381, 1005); counts of 10^9 and more are
taken for "no symbol" (jchuff.c:857).

## 2. Modules

| Module | What it is |
|---|---|
| `EventLoop` | The loop, as the loop's part of each step; the callbacks are conjoined by the user |
| `Geometry`, `GeometryCalls` | `checkBounds`, rotation, the rectangles of `blitFrom` and `refresh`; calls of them, and the properties of what they return |
| `Viewer` | `EventLoop` and `Geometry` composed with `vncviewer.lua`, `input_kindle.lua` and their environment |
| `ScreenMirror` | What the viewer promises about its screen, abstractly |
| `Keys` | `handleInput` and what the server takes to be pressed |
| `Framebuffer` | Update markers and waits of `refresh` |
| `Colors`, `Blitbuffer` | Colour types, conversions, inversion; a buffer in use |
| `Timers` | The list of timers, moments, and the time poll() waits |
| `InputSDL` | `EventLoop` composed with `input_SDL.lua` |
| `JpegPools` | Pools of the memory manager |
| `JpegVirtualArrays`, `RowArray` | Virtual arrays, and what they promise, abstractly |
| `JpegSimd` | Choice of SIMD routines by threads that ask at the same time |
| `JpegDecoder` | The decompressor behind its API |
| `JpegOutput` | The way of the rows from the coefficients to the caller |
| `JpegDct`, `JpegDctCalls` | The transforms as functions; calls and properties |
| `JpegTransform` | Lossless transformations and crops |
| `JpegEncoder` | The compressor above the entropy coder |
| `JpegScripts` | Scripts of scans: which are accepted, and the library's own |
| `JpegProgressive` | Coding and decoding of scans |
| `JpegHuffman` | Tables, and coding into bytes and back |
| `JpegBasics`, `Sums` | Arithmetic these share |
| `MCViewer`, `MCDevices`, `MCKeys`, `MCJpegDecoding`, `MCJpegCoding`, `MCJpegSimd`, `MCJpegHuffman` | Instances for TLC |
| `NumberLemmas`, `GeometryLemmas` | Lemmas on numbers, sums and rectangles |
| `ViewerProofs`, `DeviceProofs`, `JpegServicesProofs`, `JpegDecoderProofs`, `JpegOutputProofs`, `JpegTransformProofs` | Theorems |

`MCDevices`, `MCJpegDecoding` and `MCJpegCoding` each put several
modules that do not interact side by side: a behaviour is one of a single part,
chosen in the initial state, while the others rest as they began. A property of
one part holds trivially in the behaviours of the others.

Where a component has several invariants that say one thing together, they are
named parts of one: `ClipSound` is `ClipExact /\ OffsetsInRange`.

### EventLoop

`pc` is the place of the thread. One step of the model is the stretch of code
between two places where the environment could make a difference or a callback
runs:

| Action | Code |
|---|---|
| `EnterLoop`, `LeaveLoop` | `loop()` sets `running`; `while running` |
| `Iterate` | rebuilds the array for poll(), reads the clock, starts the traversal |
| `SkipTimer`, `TimerExpired` + `RemoveTimer` | the body of the traversal, 185-201 |
| `EndTimers` | `if not running`, the error for "nothing to wait for", the wait |
| `PollEvents`, `PollTimeout`, `PollInterrupted` | the three results of poll() |
| `Dispatching`, `Dispatched`, `DispatchedStale` | the for loop 220-234, one callback at a time |

Time is abstract. A timer is `armed`, then `past` its moment, and `due` once an
iteration has read the clock after that. This distinguishes a moment that comes
during an iteration (handled in the next one) from one before it; moments come in
any order, so every delay is covered. `poll_fds` is an arbitrary order of the
descriptors, since pairs() promises none.

`unregister_fd` (102-106) calls `table.remove(fds, fd)`. On a table that holds
callbacks only at indices such as 5, 6 and 9, `#fds` is 0 and `table.remove`
removes nothing, so the model keeps the entry and only clears `poll_fds`. With
descriptors that reach the array part of the table, the call would shift other
callbacks down. A device that hangs up reports an error as well, and the first of
its two callbacks has then already ended the program (section 4), so that the
state of the table after that is never used.

### Viewer

| Action | Code |
|---|---|
| `connect`, `connectFails` | `connect()`, 143-171, with the registration of the socket, 285-312 |
| `waitForEvent`, `loopReturned` | head of the main loop; `input.waitForEvent`, before and after `loop()` |
| `handleInput` | `config.lua`: the event is consumed; the home key quits, both when pressed and when released. Any other event changes nothing outside the library |
| `socketRead`, `messagePart`, `messageFails` | the read callback: `HandleRFBServerMessage` takes a message piece by piece, waits for missing pieces and returns 0 at the end of the connection, which the assert turns into the end of the program |
| `updateFromRFB` | 104-132, inside `messagePart` |
| `socketLost` | the err and hup callbacks |
| `refreshTimerFunc` | 71-102 with blit, `do_refresh_full` and `refresh`, and the removal of the timer |
| `inputRead`, `inputLost` | `input.read`; `input.err` and `input.hup` |

The environment: `serverBegins` and `serverContinues` send an update, rectangle
by rectangle, only when one was requested (libvncclient asks again after each);
`serverRings` sends a message that is no update; `peerCloses` closes or resets a
connection; `keyPressed`, `keyboardRemoved`; `clock`; `signal` interrupts poll().

`buffered` is how much of the arrived data libvncclient has already read from
the socket: it reads up to its buffer's size and parses one message per call.
poll() sees only the rest.

`stale` and `unshown` are history variables: the desktop pixels received and not
yet blitted, and the screen memory written and not yet shown by the driver. The
driver refuses a region that leaves the panel.

Choices that a reader should know:

* A descriptor's events are dispatched in the order POLLIN, POLLERR, POLLHUP
  (222-233). A closed connection is reported as POLLIN; a reset one as
  all three; a removed evdev device as POLLERR and POLLHUP, and as POLLIN too if
  events are queued, and reading it then fails.
* Old sockets stay registered after a reconnect, and their callbacks handle
  messages of the *current* client, as the closures do; the thread may then wait
  inside the library for a message that has not come.
* `connect` leaves damage and timer of the old connection alone, as the code does,
  and starts with nothing stale: the new desktop has not been received.
* `SendKeyEvent` can fail or raise SIGPIPE on a dead socket; this is library
  and process behaviour and is not modelled.
* `fullEvery256th` is an integer: -refreshFullAfterPixels with a fraction gives
  a threshold with a fraction below 1/256 of a pixel, lost by the shift.
* `-refreshFullAfterPixels`, the rotation and the devices that could be opened are
  constants, since options are read once before anything else.

### ScreenMirror

The abstract specification: visible pixels fall `behind`, whereupon a refresh is
`scheduled`; `Show` brings everything up to date. `Viewer` instantiates it with
`behind <- stale \cap Visible`, `scheduled <- damage # None`, `alive <- Live`.
`MirrorSafety` is its initial predicate and next-state relation, `MirrorSpec`
adds the fairness of `Show`.

### Keys

One input device and one connection. `handleInput` is the branch of the code for
each class of keys: letters (and DEL) have a symbol for either state of `shift`,
plain keys have one, `SYM` and `SHIFT` are remembered, `HOME` quits, others do
nothing; a repeat does nothing. Which codes are in which class is a constant.
`held` and `down` are what the fingers and the server know. A release without a
press is allowed: the key was down when the program started. The history
variable `careful` says that shift was left alone whenever a letter was held. It
separates what always holds (`PlainNeverStuck`) from what needs care
(`NothingStuck`). Events other than EV_KEY do nothing and are left out.

### Framebuffer

`refresh` in up to four steps: the call, the wait for the previous update, the
ioctl that sends a new one under the next marker, the wait for its submission.
`kind` is what `open()` found. The driver is external: it accepts an update or
refuses it (its result is not looked at), submits in order, completes in any
order; a wait ends when no update with the marker is under way. `Viewer` has
`refresh` as one step, since nothing in the program runs in between.

### Colors and Blitbuffer

`Colors` has the eight colour types, with shifts and masks as quotients and
remainders. `Blitbuffer` is a buffer with its configuration byte and memory, in
which `setPixel`, `rotate` and `invert` are called in any order. A use says
the types of the buffer and the source, and whether each is inverted.
`meant` is a history variable: the luminance every pixel was given. It is kept at
physical places found by turning the buffer quarter by quarter, and computed by
the formula in the comment at blitbuffer.lua:241, so both the geometry and the
arithmetic of the code are compared with something else. libvncclient writes the
pixels of the server as red, green, blue, unused on a little-endian machine
(`rfbGetClient(8,3,4)`): the order of the fields of `ColorBGR32`.

### Timers

The part of `loop()` that `EventLoop` abstracts from: the cells of the linked list
with `next`, the cursor `timer` and `prev`, moments as seconds and microseconds, and
the duration handed to poll(). Cells are numbered as they are registered. A
callback that expires registers another timer or none, as those of the program
do (`input.poller` does, `refreshTimerFunc` does not); a message may register one
while poll() is over. `pending` and `moment` are history variables: the timers
that wait, and when each is to run in microseconds of a clock without carries.
A callback that unregistered its own timer and registered a new one would lose
the new one; the program never calls `unregister_timer`.

### InputSDL

`poller`, `waitForEvent` and `genEmuEvent` on top of the actions of `EventLoop`: the
third client of the loop besides the socket and the refresh timer. What
`SDL_PollEvent` returns is a queue the environment fills; an event becomes the
sequence of emulated events the code makes of it. The error on SDL_QUIT ends the
program. Movement has one axis.

### JpegPools, JpegVirtualArrays, RowArray

A chunk in `JpegPools` is what one malloc() gave: its size, the residue of its
address modulo the alignment (any, as the code expects none), the two counters of
its header, and the objects placed in it. `limit` is what malloc() can give and
moves between the calls, so every malloc() of every request can be the one that
fails. Sizes are small numbers with the same order among them as the real ones.

`JpegVirtualArrays` has request, realize and access of sample and block arrays, with
the window `cur_start_row`, `first_undef_row`, `dirty` and the backing store.
A row is a function from samples to values. In memory the rows of a sample array are
`Stride` apart, their length rounded up (jmemmgr.c:432, 458); in the store they are
not. `do_sarray_io` moves the rows of a chunk as one run of rows * samplesperrow
samples (728, 741-749), which `WriteStore` and `ReadStore` do sample by sample: at widths
that need padding, rows reach the store shifted, and the end of a chunk is neither
written nor read. `Exact` says when this cannot happen: the array is one of blocks,
its width needs no padding, or it is in memory as a whole.
The repository's own `jmemnobs.c` always offers all memory, so the arrays of the viewer
are of the last kind; the system-dependent part is chosen at will, since the manager
is written for the others too.
`RowArray` is the abstract specification: rows that keep what was last written to
them. `RowsKept` states that every step of an exact array is one of its steps, and
`RowsDefined` that accesses to it hand out only what was written. Of other arrays neither
holds (section 4).

### JpegSimd

Threads ask (`Ask`) and run (`Run`) an operation; the first to find `simd_support`
undefined fills it in, in the two or more stores of the code (`Detect`,
`parse_proc_cpuinfo`, `Mask`), and nothing locks. For each architecture a table says
what `jsimd_can_X` accepts and what `jsimd_X` calls, with the instruction set and
the constants whose alignment either looks at. `misaligned` is the set of
constants the linker put elsewhere, any set.

### JpegDecoder

The record `d` is `jpeg_decompress_struct` with the private parts of its
controllers. The units of a file arrive at any time. A call that loops over
`consume_input` is one step per iteration, so data may arrive during it. The
application calls what the API allows in any order: headers, the choice of
buffered-image mode, output passes for any scan, in step with the input, behind or
ahead of it, coefficients instead of an image, abort, another file. A file may be
cut short (the source then makes up the end, as `fill_input_buffer` does), or have
no scan at all. A row of the image is what each block in it was decoded from: the
scan, and whether it was smoothed.

### JpegOutput

A row of a component is its number; what the caller gets is the tuple of component
rows each output row was made of. `process_data_context_main` with its two lists of
pointers, wrapped around and repaired at the bottom, is modelled by the lists
themselves; so are separate and merged upsampling (with the spare row), and the
three modes of the postprocessor. The caller asks for any number of rows.

### JpegDct, JpegDctCalls

`JpegDct` has the one-dimensional kernels of all integer transforms, forward and
inverse, in all output sizes from 1 to 16, the two passes over a block with their
shifts, roundings and shortcuts for empty columns, the tables of multipliers, and
`compute_reciprocal` with `quantize`. Constants are those of the source, so
nothing is scaled down. `JpegDctCalls` compares them with cosines in fixed point.

### JpegTransform

`jtransform_parse_crop_spec`, `jtransform_request_workspace`, the eight routines that
move blocks, in place or into a workspace, the adjusted parameters, and
`tjTransform`, which runs several of them from one source. `Original` says
where a sample of the result comes from by the geometry of the request alone.
Blocks are 2x2 instead of 8x8: the loops treat coefficients two by two, and the
smallest block with an odd and an even row and column shows every sign.

### JpegEncoder

The record `e` is `jpeg_compress_struct` with its controllers. A row of input is its
number, a row of a component the tuple of input rows it was computed from, so that
edges that are repeated, rows that wrap around in the context buffer and units
that are started over can be told apart in the file. The destination is full after
any number of units. The three ways of input (lines, raw rows, coefficients)
meet at the passes of `jcmaster.c`. `DCTSIZE` is 2 instead of 8: the modules use it as
a count of rows.

### JpegScripts

A script is put together scan by scan by an application (`AddScan`, with any numbers; nothing
is added to a script that is improper already, since it stays so) or made by `jpeg_simple_progression`. `validate_script` of `jcmaster.c` goes through it
with `last_bitpos`, the bit of each coefficient that was sent last; here that is read off the last
scan that sends the coefficient. `BadScan` and `BogusScan` are what
`start_pass_phuff_decoder` of `jdphuff.c` refuses and warns of. The number of coefficients in a
block and the end of the low band are constants.

### JpegProgressive

Encoder and decoder of the four kinds of scans, each as in its file, joined by a
sequence of items: symbols, groups of bits, restart markers, and the marker of what
follows the scan. Data may end at any item: the decoder gives up the unit, undoes
what it did to the coefficients and starts over, but keeps what `process_restart`
did before the unit (jdphuff.c:227-260): the marker is passed, the bits and the
run are dropped, and the count of units to the next restart begins again. So a unit may
be started over behind its marker, with a whole interval to go. A scan of some
pictures comes with the end of one of its segments cut off. The decoder then
meets a marker where it wants data, is given zeros (the shortest code of the table,
whichever that is), sets `insufficient_data` and leaves the units alone up to the next restart.
A picture with a cut scan ends with that scan. The scans are those of a
script of `JpegScripts`.
Blocks have 6 coefficients instead of 64, runs end at 3 instead of 16, restart markers
have 2 names instead of 8, and 8 correction bits may wait instead of 1000.

### JpegHuffman

Four parts: tables made from frequencies (`jpeg_gen_optimal_table` with the limit on
lengths), tables as a file may hold them, a picture coded into bytes and
decoded from them by both decoders, and the count of bits in the encoder's word.
Bytes may be late (the unit is started over) or missing (zeros are fed), and
restart markers may come early. Codes have at most 4 bits instead of 16, bytes
have 4 bits, blocks 8 coefficients; the word of the encoder has its real size.

The fast decoder is taken as in the code, if there are `BUFSIZE` bytes, twice the number of
coefficients, for each block (jdhuff.c:746, 762). It does not look for their end.
A block may need more; a read behind the buffer is the state `overrun`, in which decoding stops,
unless what lies there happens to look like a marker (`beyond`, any
choice), in which case the work is undone and the slow decoder used. What the code
leaves undefined (a symbol behind the last of `huffval`, bits that were not
fetched) is the state `undefined`, and `StreamArrives` excludes it.

## 3. Passing runs

| Run | Configuration | Distinct states | What it shows |
|---|---|---|---|
| `viewer` | `MCViewer.cfg` | 7.1 million | two connections with `-reconnecting`, sockets and devices failing at any moment, a server that also sends what nobody asked for: safety of damage, timer and panel, and that the program ends only for a cause |
| `viewer_live` | `MCViewerLive.cfg` | under fairness | pixels are shown, keys read and handled, a lost connection ends the program, the mirror is implemented with its liveness |
| `devices` | `MCDevices.cfg` | 1.8 million | keys, driver, pixels, geometry, timers and SDL input, side by side |
| `jpeg_decoding` | `MCJpegDecoding.cfg` | 328,000 | the decompressor, its output path, the transforms, lossless transformation |
| `jpeg_coding` | `MCJpegCoding.cfg` | 904,000 | the compressor, progressive scans, Huffman codes; and the pools, virtual arrays and the choice of SIMD routines below them |

All of them set CHECK_DEADLOCK FALSE: the program may really end, and the bounds on
calls end the others.

### The viewer's properties

* `TimerMatchesDamage` ties the event loop's list to the viewer's damage in every
  state, also in the middle of a traversal and of a message. That no refresh meets
  a nil damage (part of `NoInternalError`) follows from it: the race the comment
  at 72-74 looks for does not exist in this version, because the timer is taken out
  of the list before anything else can look at it.
* `StaleCovered` and `PanelCurrent` follow a pixel from the server to the panel
  through two different clippings and a rotation.
* `NoInternalError` excludes the ways the program must never end; `EndsOnlyForCause`
  says that it ends only if the user quits, no connection could be made, the server
  has closed the one it had, or reading a device or dispatching its loss has failed
  after a device has gone.
* `DamageShown` fails if later damage postpones the refresh (the unregister_timer
  commented out at line 108 does that). `InputServed` (read, and handled) fails if
  the loop polls again after each callback or forgets `abort_loop`.
* `LossNoticed` needs three parts of the code: the failed read, the
  callbacks, and the failure in the middle of a message.

### The devices' properties

* `NothingStuck`, `PlainNeverStuck` and `HeldIsDown` compare the server's keyboard
  with the user's after any number of presses; a repeat taken for a release, or
  a release not sent, breaks them.
* `PreviousDone` fails if a wait asks for the marker of the next update instead of
  the last; `OneAtATime` if the two kinds of Kindle are mistaken for each other;
  `Returns` if the driver had to know an update it refused.
* `PixelsKept` fails if a nibble is set without its neighbour. Its tolerance is what
  the type must lose: 17 of 256 levels for 4 bits, 8 for 16, 2 for 8 (rounding on
  both inversions), 1 otherwise.
* `ClipSound` and `RefreshSound` compare the arithmetic of rectangles with sets of
  cells and pixels.
* `TimersExact`: the list is the set of timers that have neither run nor been taken
  out, in order, each at its moment, and none is found expired too early. The
  carry at eventloop.lua:79 uses > where >= is meant and leaves moments
  of 1000000 microseconds; the comparisons take them rightly all the same.
  It fails if the next cell is looked up before the callback has run.
* `SleepFits`: poll() is told to wait until the earliest moment, up to a millisecond
  more and nothing less, counted from the time read before the callbacks ran. What
  the callbacks take is added to the wait; nothing else is.
* `OnePoller`: the polling timers of the desktop variant neither multiply nor get
  lost, although `waitForEvent` registers one each time it is called.

### The library's properties

* `ObjectsFit`: no object of a pool is misaligned, overlaps another or leaves its chunk.
  `PoolsBalance`: what malloc() gave is in a list, also after a request that failed
  half way, and the account never falls below it.
* `RowsKept` and `RowsDefined`: behind the window of an exact array, rows keep their
  contents, rows that nobody wrote are zero or refused, and no legal access to any array
  meets the error for a bug of the library. They fail if a moving window writes back
  too few rows or new rows are not zeroed.
* `DispatchSound` (`RoutineFits`, `Served`, `LayoutRight`): what `jsimd_can_X` promised,
  `jsimd_X` does, with a routine the processor has, for the order of colours
  asked for, while another thread fills in `simd_support`.
* `DecodedRight` (`RowsAreImage`, `CoefficientsComplete`): whatever the order of calls
  and of arriving data, the image is what the file has by then. `StepsJustified`:
  a call says "suspended" only when it has used up all that arrived, and blocks
  are smoothed only from what is known. `CallReturns`: no call runs for ever.
* `RowsInOrder` (`RowsAreRight`, `CountedOnce`, `EveryCallMoves`): each row once, in order, from
  the right rows above and below; no call returns without progress.
* `ArithmeticRight`: kernels are cosines (`KernelIsCosine`), inverse transforms come near
  the ideal one (`InverseIsIdeal`), the shortcut for empty columns changes nothing
  (`ShortcutSame`), the reciprocal divides (`QuantizeIsDivision`), and a block survives
  coding to the step of the quantizer (`CodecRoundTrip`).
* `TransformRight` (`SamplesAreMoved`, `NoStrayBlock`, `RegionIsShown`, `SpecsAreUnderstood`):
  samples move to where the request says, several transformations of one source do
  not disturb each other, and a crop shows what was asked for.
* `EncodedRight` (`FileIsPicture`, `LinesAgree`) and `TablesFit` (`TablesFitScan`,
  `StatisticsComplete`): wherever the destination was full, the file is the picture,
  and each scan is written with tables made from all of its units.
* `ScansArrive` (`BitsArrive`, `InStep`, `SymbolsAreCounted`, `BufferHolds`): after each scan
  the decoder knows the bits the encoder had, but for the units behind a cut, which stay
  as they were up to the next restart; both count runs and restarts
  alike, data is made up exactly where it was cut off, the statistics are of the symbols written, and with one of the library's own
  scripts the whole picture arrives (`SimpleArrives`).
* `ScriptsAgree` (`AcceptedIsClean`, `SimpleIsComplete`): a script that the encoder accepts is
  clean for the decoder, and the library's own are accepted and complete.
* `CodesWork` (`TableServes`, `TableIsBest`, `DecodersAgree`, `OnesAreReserved`,
  `EverySymbolHasCode`): tables have prefix codes for all their symbols, no other
  code is cheaper unless the limit on lengths was at work, and the lookahead decoder,
  the bit by bit decoder and the fast one agree.
* `StreamArrives` (`UnitsArrive`, `RestIsBlank`, `WordHolds`): units come back from bytes in
  any pieces; what is missing becomes blank up to the next restart marker, no more;
  the 32-bit word of the encoder holds what is put in. It is about units for which
  the fast decoder stayed in its buffer (section 4).

### Bounds

* `Connections`: 1 or 2. The second connection is where an old socket, old damage
  and an old timer meet a new client; a third adds another old socket of the
  same kind.
* `WireSize` 1 piece under way: an update of several rectangles overlaps with the
  timer, and a message is read together with its successor (`buffered`).
* `KernelQueue` 1: events beyond the first only wait.
* One device; the second descriptor of the loop is the socket, so both slot orders
  occur. Two rectangles on a 3x2 desktop: across the edge of the screen, and wholly
  outside it. The panel has 2x2 pixels turned by 90 degrees, so logical and physical
  coordinates differ. `GeometryCalls` has the other rotations.
* `Word` is 22133: 2^32 times 4 and divided by 758 * 1024, the word scaled to the
  screen of 4 pixels as to the real one. The setting is the default, 512.
* Lengths 0..4, offsets -3..4 and sizes 1..3 on both sides of a copy; a 2x3 buffer under
  four rotations; sources smaller and larger in each direction.
* Two letters, three plain keys of which two share a symbol, one key without a binding.
* `LastMarker` 3 instead of 16, with seven refreshes: markers are used three times.
* `Writes` 2: a pixel and a neighbour in the same byte; W = 3 is odd, so the rows of
  4-bit pixels are padded. Channels 0, 100 and 255 make 27 colours, with both
  ends of every conversion and a value no rounding leaves alone.
* `Milli` and `Thousand` 2 instead of 1000: a second has four microseconds, so that
  carries, equal seconds and the boundary all occur; delays of 0, 2 and 3 milliseconds are
  nothing, the most that needs no second taken off, and one more. Three timers:
  one to expire, one before and one behind it.
* Pools: one alignment step of 2, objects below and above it, arrays of one and of
  several chunks, up to two chunks when a request begins.
* Virtual arrays: three or four rows with windows of one row up to all; a window must move at
  least once and can move back. Rows of one sample are padded to two, rows of two are not;
  a chunk has room for two rows of the padded ones.
* Two threads, four architectures, every operation.
* Decoder: two rows of two units, up to two scans, two files in a row. Transformation: pictures of one
  to three units a side in five samplings, every request alone, and every request
  behind another. Output: pictures of one to three units of rows with every remainder
  that makes a difference.
* Encoder: 1 to 9 rows and 3 or 5 columns at a `DCTSIZE` of 2, four samplings, up to three scans.
* Scripts: up to three scans, from 6 bands and 7 pairs of bits, for one and two components; the
  library's own for 1 to 10 components.
* Progressive: pictures of three or four units
  with restart intervals of 0 to 3. One suspension in a unit: it starts over behind its
  restart marker, from the same state each time, so a second one repeats the first.
  Cuts at every item, of scans of all four kinds, with and without restarts.
* Huffman: tables of up to five symbols, pictures of two to five units. Some blocks take up to
  18 bytes, more than the 16 that make the fast decoder be used.

The theorems of section 5 hold without these bounds.

### Fairness

* `WF(Thread)` of the viewer: the operating system runs the thread. It is one thread, so
  one weak fairness condition for all its steps is all that is assumed; which
  callback comes first is never chosen by fairness.
* `WF(clock)`: time passes.
* `SF(serverContinues(TRUE))`: a server that has begun an update ends it. The
  number of rectangles is in the header of the message. Strong, because the wire
  may be full in between. Nothing is assumed about when updates begin, when keys
  are pressed, or about failures. `InputServed` and `DamageShown` hold only because of
  this: between two rectangles of a message the thread is inside the library and
  serves nobody. The code does nothing to guarantee it: the library's read has no timeout,
  and if a server stops there, a pending refresh and the keys wait as long as it does.
* `Framebuffer`: the thread runs, and the driver deals with an update it accepted; nothing
  is assumed about when refreshes are asked for or refused.
* `JpegDecoder`: a call that has been made goes on. Nothing is assumed about data.

## 4. Where code and documentation disagree

Each has a run that TLC finds violated, and an entry in `findings`.

| Run | What it shows |
|---|---|
| `always_reconnects` | With `-reconnecting`, a connection the server closes makes the socket readable; the read callback comes first and its assert (292) ends the program. The usage says "always try to reconnect when we get connection errors". |
| `input_loss` | A device that fails is meant to be closed. Its callback clears `poll_fds` while the loop is indexing it (eventloop.lua:105 and 221-231). |
| `read_ahead` | An update read from the socket together with the message before it stays in the library's buffer until the server sends more; the refresh timer is not even started. |
| `keys_stuck` | q pressed, shift pressed, q released: the server gets q down, Q up, and q stays down. |
| `jpeg_simd_ifast` | On i386, `jsimd_fdct_ifast` looks at the alignment of the constants of the slow transform before it calls the SSE2 routine of the fast one (jsimd_i386.c:778). The passing run leaves this operation out. |
| `jpeg_huffman_word64` | With a 64-bit `put_buffer`, the encoder can have more bits waiting between two blocks than the word holds (jchuff.c:490). With 32 bits it cannot: `StreamArrives`. |
| `jpeg_huffman_buffer` | 128 bytes per block (jdhuff.c:746) are no bound on what a block takes: the fast decoder reads behind the buffer, and line 723 makes `bytes_in_buffer`, "# of bytes remaining in buffer", wrap below zero. |

The cause of the first shows once more after "retrying in 1s..." (299, 308): nothing aborts
the event loop, so the retry waits for a key, and meanwhile the dead socket is
polled again and its read fails the assert.

Places where the passing runs and the theorems stop at what the code can do. Each of these
is a case in which the code fails, and no run shows it:

* "after updating <n> times the screen's pixels, a full eink refresh is issued"
  (vncviewer.lua:202-205): the threshold (64) is a product shifted by bit.rshift, which
  takes it modulo 2^32. For n >= 22 on 758x1024, or n >= 8 on 1264x1680, it wraps, and full
  refreshes come far too early. `FullThreshold` wraps as the code does. No property is
  about the promise: below the word it says no more than the comparison with the counter.
* `Uses` and the theorem on `PixelsKept` (`SoundUses`) have no buffer that is not inverted
  for the server's pixels. `ColorBGR32:invert` (blitbuffer.lua:439) exchanges red and blue.
  They are inverted when read (vncviewer.lua:168); mxc devices invert again when setting,
  eink_fb devices do not (framebuffer_linux.lua:185-195) and compute grey with the weights
  of red and blue exchanged: `PixelsKept` does not hold there.
* `Uses` has no 16-bit source for grey. The mask of green is passed to the shift
  instead of `band` (245, 262, 285, 308, 406), so red counts as green. The program
  never reads a 16-bit buffer.
* `RowsKept` and `RowsDefined` are about exact arrays. `do_sarray_io` moves the rows of a
  chunk without their padding (jmemmgr.c:728), so that rows of the others come back shifted or
  undefined once the window moves. It takes a system-dependent part with less memory
  than `jmemnobs.c`; with that one every array is exact.
* `MCPictures` and the theorem on `RowsInOrder` (`SmallStrips`) have two-pass quantization
  only with strips of at most two rows. `post_process_2pass` compares the rows it has left in
  the strip with `output_height - starting_row` (jdpostct.c:224), not with what is left from
  the row it has come to. With sampling factors of 3 or 4, whose strips are as long, a
  caller who asks for one row of the last strip and then for more is given more rows than the
  picture has: a picture of 5 rows and a factor of 3 yields 6.
* The passing run and the theorem on `DispatchSound` leave out `fdct_ifast`, which
  `jpeg_simd_ifast` is about, and the fairness of the viewer a server that stops in the middle of a
  message (section 3).

Seen on the way, matters of a single line: `-fast` and `-medium` assign to local
variables that shadow the waveforms (vncviewer.lua:257-261); `-dither_bw` names a
function the blit buffer does not have (263); the usage gives 150 as the default
of `-waitRefresh`, the code has 250 (15); `Quit` ignores the status that
config.lua:15 offers.

## 5. What is proved

TLAPS checks these for every value of the constants that satisfies the
assumptions of their modules: any buffers with sides up to 0xFFFF
under any rotation, any set of rectangles inside the desktop, any finite number of
connections and devices, any bounds, with and without failures; any keyboard; any
number of markers and refreshes; any delays, clock and number of timers; any number
of events waiting in SDL; any sizes of requests, alignment and memory of a pool; any
finite set of virtual arrays of any height, with any memory; any number of threads;
any set of files of any size and number of scans; pictures of any size, scale and
sampling, and any numbers of rows asked for; pictures of any size, sampling and number
of components under any session of lossless transformations, and any crop
specification; any script of scans, for any number of components.

| Theorem | Property | Module |
|---|---|---|
| `ClipSoundHolds`, `RefreshSoundHolds` | `ClipSound`, `RefreshSound` | `DeviceProofs` |
| `PixelsKeptHolds` | `PixelsKept`, in the uses whose conversions are right (`SoundUses`) | `DeviceProofs` |
| `TypeCorrect` | `TypeOK` | `ViewerProofs` |
| `TimerMatches`, `NeverNil` | `TimerMatchesDamage`; no refresh without damage | `ViewerProofs` |
| `NoInternalErrorHolds` | `NoInternalError` | `ViewerProofs` |
| `EndsOnlyForCauseHolds` | `EndsOnlyForCause` | `ViewerProofs` |
| `StaleCoveredHolds`, `PanelCurrentHolds` | `StaleCovered`, `PanelCurrent` | `ViewerProofs` |
| `MirrorSafetyHolds` | `MirrorSafety`: the safety part of the refinement of `ScreenMirror` | `ViewerProofs` |
| `NothingStuckHolds`, `PlainNeverStuckHolds`, `HeldIsDownHolds`, `KeysTypeCorrect` | `NothingStuck`, `PlainNeverStuck`, `HeldIsDown`, the types | `DeviceProofs` |
| `PreviousDoneHolds`, `OneAtATimeHolds`, `FramebufferTypeCorrect` | `PreviousDone`, `OneAtATime`, the types | `DeviceProofs` |
| `TimersExactHolds`, `SleepFitsHolds` | `TimersExact`, `SleepFits` | `DeviceProofs` |
| `OnePollerHolds` | `OnePoller` | `DeviceProofs` |
| `ObjectsFitHolds`, `PoolsBalanceHolds` | `ObjectsFit`, `PoolsBalance` | `JpegServicesProofs` |
| `RowsKeptHolds`, `RowsDefinedHolds` | `RowsKept`: the refinement of `RowArray` by exact arrays; `RowsDefined` | `JpegServicesProofs` |
| `DispatchSoundHolds` | `DispatchSound`, without `fdct_ifast` (`Supported`) | `JpegServicesProofs` |
| `DecodedRightHolds`, `StepsJustifiedHolds` | `DecodedRight`; `StepsJustified`, an action property | `JpegDecoderProofs` |
| `RowsInOrderHolds` | `RowsInOrder`, if strips of two-pass quantization have at most two rows (`SmallStrips`) | `JpegOutputProofs` |
| `TransformRightHolds` | `TransformRight` | `JpegTransformProofs` |
| `ScriptsAgreeHolds` | `ScriptsAgree` | `JpegServicesProofs` |

The arguments:

* *Numbers.* A set of naturals that is not empty has a least member, and one that is
  bounded a greatest (`HasLeast`, `HasGreatest`, from the well-foundedness of <). These
  take the place of induction: the least counterexample is not the first, and
  the one before it contradicts it. `Recursion` (a recursive function on naturals has
  its values) and the lemmas on sums of sequences are proved with them.
* *Geometry.* `GeometryLemmas` states, for each function, which cells or pixels
  its result contains (`CheckBounds` copies a pair of cells exactly if both exist
  and the request names them; `PhysicalRect` contains the image of a pixel exactly if
  the logical rectangle contains the pixel) by cases on the branches of the code
  and on the rotation. The theorems follow by comparing memberships.
* *BlitbufferInv* (`DeviceProofs`): the configuration byte is made of the inversion,
  rotation and type asked for (`ConfigInv`), memory holds what the type can
  (`MemoryFits`), and each pixel that was set holds its luminance, mirrored while the
  buffer is inverted (`MeantInv`). The lemmas below it: what each type shows
  (`Shows`: the three channels behind nibbles, 16-bit fields and bytes), that inversion
  mirrors luminance (`InvertSteady`), what each conversion loses (`WholePixel`,
  `HalfPixel`), and that two pixels share an address only as the halves of a byte
  (`SameAddress`), of which one stays as the other is set (`SetHolds`). `SoundUse` has every
  use but those of section 4: coloured pixels into BGR32, an odd number of
  inversions of BGR32, grey from a 16-bit source. It has the uses of the run.
* *IInv* (`ViewerProofs`) is `TypeOK /\ TimerMatchesDamage /\ Consistent`.
  `TimerMatchesDamage` is not inductive alone: `Consistent` adds that there is a
  client except while connecting, that the queue is not empty where `waitForEvent`
  has returned, and that a device poll() reported readable still has its event.
  There is one lemma per action.
* *LoopInv* (`ViewerProofs`) adds `Served`: the loop's flag is only cleared with
  an event in the queue, so that `loop()` never returns empty-handed.
* *CauseInv* (`ViewerProofs`) adds what makes a failure a failure of somebody else:
  `Reported` (a socket for which poll() reported an error has lost its peer, and a
  device for which it did is unplugged, for as long as the report is being dispatched)
  and `OneConnection` (without `-reconnecting` the only socket that can be reported is
  that of the current client). The second is needed since the hup callback of an
  old socket would otherwise end the program while the new connection is well.
* *ScreenInv* (`ViewerProofs`) adds `StaleCovered` and `PanelCurrent` to `IInv`. The
  step of `messagePart` rests on `BoundingBoxCovers`, the step of `refreshTimerFunc`
  on `VisibleBlitted` (the blit reaches every visible pixel of the damage) and
  `WrittenShown` (the refreshed region covers the written one), both from
  `GeometryLemmas`.
* *Refinement* (`ViewerProofs`): `Init` implies the mirror's, and under `ScreenInv` every step is
  one of `Change`, `Show`, `Reconnect`, `Stop` or a stutter.
* *KeysInv* (`DeviceProofs`) needs nothing but types next to the properties; the work is in
  `HeldIsDown`, where a release must not be of a symbol that a held key stands for.
* *FBInv* (`DeviceProofs`) adds to `PreviousDone` and `OneAtATime` which update carries the
  marker (`Marked`), that the driver has no updates of calls to come (`Numbered`), and
  that on a Paperwhite 2 it has at most the last (`LastOnly`). Without `Marked` the
  wait for a marker says nothing about an update.
* *TimersInv* (`DeviceProofs`): cells are numbered as they are made and appended, so the list
  is right if each link leads to the first pending cell after its own (`Linked`); that
  following the links gives the set of pending timers needs no more (`ListedAll`). The
  cursor and the cell before it are at a place in the list (`Precedes`), what lies
  behind the cursor waits for a moment after `now`, and `up_to` is the earliest of these
  (`Scanned`): hence the wait of poll(). Moments are compared as seconds and
  microseconds, exact although a moment may have 1000000 microseconds (`MomentsKept`).
* *PollerInv* (`DeviceProofs`) says what `OnePoller` does of the list and adds that
  poll() is only called while `running`. The rest is about lists: a poller that is
  replaced behind the cursor before it is taken out leaves exactly one.
* *PoolsInv* (`JpegServicesProofs`): in every pool each chunk is `Fit` (its objects are aligned, apart
  and within the bytes in use, and what is used and left makes its size), what malloc() gave
  and free() has not taken back is what the lists and the manager hold, and the
  account is at least that (`Good`). A call is a record of memory, heap and error;
  each helper of the manager takes a good one to a good one, also when a malloc()
  within it fails.
* *VAInv* (`JpegServicesProofs`): every realized array is `Sized`. Its window is as
  large as any strip that may be asked for (so that moving it always helps), without
  a backing store the window is the array (so that it never has to move). An exact
  array also is `Held`: rows below `first_undef_row` are not junk, and what is in memory
  only is `dirty` (so that the move of a clean window loses nothing). `PlaceIs` says
  where a chunk's run puts a sample (the same place, if the rows are equally long), so
  `WriteIs` and `ReadIs` what the two transfers move; `Flushed` and `Filling` are the two
  halves of a move, `StripServed` is about what the caller finds and leaves.
* *SimdInv* (`JpegServicesProofs`): `simd_support` is at no time more than the processor has,
  although it is filled in by several stores without a lock (`Detected`), and a thread that was
  promised a routine saw a part of what the processor has (`ThreadSound`). So what one
  thread reads between the stores of another is incomplete, never wrong. The lists of `jsimd_can_X` and
  `jsimd_X` agree, except on x86_64, where SSE2 is always there.
* *DecInv* (`JpegDecoderProofs`) says for each state of the API what the controllers hold
  (`Mode`), which calls may be going on in it (`Calls`), and how position in the file, scan, row and
  coefficients belong together: what has been consumed is what the layout of the
  file has up to the position (`Reading`), rows in memory are rows of the image
  (`Showing`, `GoodRow`), without a full buffer output follows input row by row
  (`Abreast`), and outside of buffered-image mode a row is only put out when the last
  scan has been read (`Wanted`). The lemmas come in groups: layout of a file,
  input side, output side, and one per action that it keeps the invariant.
* *OutputInv* (`JpegOutputProofs`) rests on what the set-up computes (`PicFacts`): for every
  component the rows of a group divide those of the output, the last unit and the last
  group of rows are not empty and not overfull (`UnitsFit`), the method fits the number of
  rows (`MethodFits`), and no output row needs a row that does not exist
  (`RowsComplete`). With context it then says where the main controller is: it
  begins, has a unit waiting, is in the middle of one, has put off the last group of one until
  the next is there, or is in the last unit (`Beginning`, `Waiting`, `InMiddle`, `Postponed`,
  `InLast`). Each says where in the buffer, as the list in use sees it (`Place`), the rows of the
  unit are (`Current`) and the last two groups of the unit before it (`Previous`), or
  which groups the repaired list shows (`Shows`); the list of the next unit finds the rows it needs
  because the two lists exchange exactly those places. Without context `SimpleInv` does. The
  upsampler has handed on the rows it counts (`UpState`, with a row left in `color` or
  `spare`), and what the postprocessor has stored and counted is the picture so far
  (`PostInv`). The lemmas below it go the way of a row, from `decompress_data` to the caller.
* *TransformInv* (`JpegTransformProofs`) keeps, for every request of a session, the answer it
  got (`Answered`: it depends on the frame of the picture, not on its coefficients), for
  every output that it is `Made`, and, while something is still to be written, that
  the coefficients are those that were read. The last is what a flip in place would break: it is
  only chosen when it is alone in its session (`FlipsAlone`). Below it the proof goes one
  axis at a time. `Granted` is what a request leaves of an axis (the output lies within the
  transformed picture and, if trimmed, within its whole units), `Destination` that the frame
  written has a block of the picture behind every block it shows, `AllPlaced` where each block
  and its signs come from. All eight transformations have the same form: the axes exchanged or
  not, each mirrored within its whole units or not (`FromX`, `FromY`, `SignX`, `SignY`); `Executes` and
  `FlipInPlace` compare the loops with it. A mirrored sample has the opposite parity, hence the
  sign (`MovedX`, `MovedY`, `SampleMoved`). The products of units and sampling factors that
  are variable are treated in lemmas on rounded divisions (`FloorIs`, `CeilIs`, `CeilTight`).
  The parser is compared with the language in both directions: what it accepts it has
  read as four pieces in a row (`AcceptedIsSpoken`), and of four pieces it finds the ends
  (`SpokenIsAccepted`); a second offset without a first is the first (`OneOffset`).
* *Scripts* (`JpegServicesProofs`). `ScriptsAgree` follows in every state from the types
  (`ScriptTypeOK`). `LastIs` and `LastNone` say when a scan is the one that decides `last_bitpos`.
  That acceptance implies cleanliness is the comparison of two sets of rules, coefficient
  by coefficient (`AcceptedScanClean`). The common script is six blocks of scans
  (`SixBlocks`), each with one place for a component (`Pos`, `PlacedInOrder`), so that what was
  sent before a place depends on its block only (`BeforeBlock`); the script for
  YCbCr pictures is followed scan by scan (`YccLastIs`).

Three theorems have a hypothesis next to the assumptions of their modules: `Supported`,
`SoundUses` and `SmallStrips` leave out what section 4 shows to be wrong in the code.
`RowsKept` and `RowsDefined` have theirs (`Exact`) in their statements.

## 6. Only model-checked

* Liveness (`DamageShown`, `InputServed`, `LossNoticed`, `Returns`, `CallReturns`) and the
  fairness part of `MirrorSpec`: out of the prover's reach.
* `EncodedRight`, `TablesFit`, `ScansArrive`, `CodesWork`, `StreamArrives`: their
  modules use RECURSIVE operators, which the prover does not accept.
* `ArithmeticRight`: that the kernels come near cosines is a statement about polynomials
  over the blocks, which the arithmetic of the solver does not decide; the run
  has sampled blocks.

## 7. Not modelled

* Blit buffer: painting, scaling, adding, dimming of colours, writePAM. The program
  uses none of them.
* Framebuffer: waveforms, opening the device, its orientation; the SDL window.
* Viewer: option parsing, the password callback, the tables of key codes, and what a
  reconnect shows of a framebuffer that the server has not filled yet.
* Event loop: `unregister_timer` and `loop(timeout)`, which nothing in the program
  calls, and `fds` as a Lua table with an array part.
* Selection of drivers, utilities, generated declarations, scripts, build: no state
  that changes.
* libjpeg-turbo: reading and writing of marker segments (`jdmarker.c`, `jcmarker.c`;
  the control modules take a header or a scan as a whole, arriving unit by unit);
  colour conversion and quantization (arithmetic on single samples, histograms of
  32768 cells); floating-point transforms (TLC computes on integers);
  arithmetic coding; the horizontal direction of up- and
  downsampling; tools, wrappers, the Java interface; the assembler of the SIMD routines.

## 8. Plan

In this order:

1. `JpegMarkers`: `read_markers` with `next_marker`, `get_soi/sof/sos/dht/dqt/dri`, `skip_variable`
   and `save_marker`, suspended at any byte; every segment must be taken over exactly
   once however the bytes arrive. It would refine what `JpegDecoder` takes for granted
   of a header.
2. Arithmetic coding, in the form of `JpegHuffman`: coder and decoder in step, with byte
   stuffing and the carry over stacked bytes.
3. The horizontal direction of sampling.
