# libgphoto2: specifications, model checking, proofs

libgphoto2 is the C library behind digital-camera applications on Unix.  It is
single threaded.  What makes it hard is not threads but re-entry, failure and
stale knowledge: a driver function reports progress to the application, which
may call back into the library; every driver call can fail, at any depth of a
nested operation; much of what the library answers comes from caches that
are filled on demand and guarded by flags; and at the other end of the cable
there is a camera, which has its own mind.

The modules of this directory are translated from the library (`src/libgphoto2`),
its ports (`src/libgphoto2_port`) and two of its drivers (`src/camlibs/ptp2`, the
largest and the most used, and `src/camlibs/konica`, a serial protocol).
`PROJECT.json` maps every definition to the lines it stands for.

## 1. Inventory

| Component | State it keeps | Operations | Hard behaviour | What makes it correct |
|---|---|---|---|---|
| Camera object (`gphoto2-camera.c`) | `ref_count`, `used`, `exit_requested`, `lh`, the driver's function table, the timers' ids, the port | init, exit, ref, unref, setters, about 25 calls that wrap one driver function each, timers | callbacks during a call; six places where init fails; macros that release the camera on error | the driver is never unloaded or robbed of its port while it runs; use counts balance; what is put off is done; no timer outlives the driver |
| Folder tree (`gphoto2-filesys.c`) | folders with `files_dirty`, `folders_dirty`, chains of files | list, lookup, delete, delete all, put, append, make and remove folders, scan, number, reset | lookups that list and free folders while a caller holds one; failing driver calls | answers are those of the camera; clean means true; no operation uses a freed folder |
| LRU of pictures (`gphoto2-filesys.c`) | `lru_first`, `lru_last`, `lru_prev`, `lru_next`, `lru_size` | hand over a file, prune, unlink on delete and reset | pointers cut by hand in three functions | well-formed list, a queue, bounded, pruning ends |
| File information (`gphoto2-filesys.c`) | `info_dirty`, `info`, cached previews | get and set info, get and read file | mutual recursion through the EXIF time | no endless recursion; fresh info |
| Port object (`gphoto2-port.c`) | the port library's operations, settings, timeout | open, close, read, write, settings | the library is exchanged while a camera is open | an operation reaches the library that opened the port |
| Serial port (`serial/unix.c`) | descriptor, cached speed, lock file | open, close, read, write, settings, pins, flush | other programs; partial writes; marks for parity errors; hang-up | open only under the lock; the line is at its settings; bytes arrive as they were sent; calls return |
| USB, SCSI, disk, PTP/IP ports | handles, claimed interfaces | open, close, transfers | claim and detach in steps that fail | what is claimed is released |
| CameraFile, lists, widgets, context, port list, abilities, settings | reference counts, arrays, tables | containers | parent and child references | no leak, no use after free |
| PTP objects (`ptp2/ptp.c`, `ptp2/library.c`) | a sorted array of objects, with a flag for each part of them that is loaded | find, insert, remove, list, look up a path, upload, delete, events | two searches with two orders; lookups of many commands, each of which may fail; objects that come and go | a set of handles; what is remembered is so; what is deleted is what was named |
| PTP transactions, capture, configuration (`camlibs/ptp2`) | transaction ids, the event queue, properties | transactions, events, capture | events between the phases of a transaction; retries | answers match requests |
| Konica (`camlibs/konica`) | the keepalive timer's id; all else is local to a call | ping, command, packets with acknowledgement, cancel | loss, damage, a camera that is late or wants to speak, a timer between calls | a command is carried out once, answers are whole and one's own; the next call recovers; the timer does not interleave with a transfer, and is not forgotten |
| Other serial protocols (`sierra`, `canon`) | sequence numbers, escapes | packets with acknowledgement | loss, duplication, timeouts | what is delivered was sent, once |

**How they interact.**  An application calls a `Camera`.  `gphoto2-camera.c`
loads the driver, opens the port through `gphoto2-port.c`, and calls the
driver's functions, or, for files and folders, `gphoto2-filesys.c`, which calls
the driver back through a table of functions (`file_list_func`,
`folder_list_func`, `put_file_func`, ...).  Drivers call the filesystem too
(`gp_filesystem_append`, `gp_filesystem_reset`, `gp_filesystem_set_file_noop`),
report progress through the `GPContext` to the application, and ask the
application's main loop for timers.  Everything is a nested call on one stack.

All components, those that are not modelled included, are in `PROJECT.json`
with the reason; its `hazards` list what is hard to test, at its line.

## 2. The modules

| Module | What it is |
|---|---|
| `CameraCore` | the Camera object |
| `CameraCore_proofs` | its invariants, proved |
| `MCCameraCore` | values and scopes for TLC |
| `FscacheLru` | the LRU list, pointer by pointer |
| `FscacheQueue` | the abstract queue that the list implements |
| `FscacheLru_proofs` | its invariants, proved |
| `MCFscacheLru` | values |
| `CameraFilesystem` | the folder tree, with the driver and the camera as external, and its refinement to `CameraDirectory` |
| `CameraDirectory` | the abstract directory without a cache |
| `CameraFilesystem_proofs` | its tree, when what it marks clean is true, and the refinement, proved |
| `MCCameraFilesystem` | values for TLC |
| `FileInfo` | information and files of one picture, as functions that call each other; the driver, libexif and the camera as external |
| `FileInfo_proofs` | its types and the truth of downloads, of the cache and of the information, proved |
| `MCFileInfo` | drivers and pictures for TLC |
| `SerialPort` | the serial port, with the lock file, the line and the camera as external |
| `SerialPort_proofs` | its invariants, proved |
| `MCSerialPort` | values for TLC |
| `PtpObjectSearch` | the sorted array of PTP objects and its two binary searches |
| `PtpHandleSet` | the abstract set of handles that the array implements |
| `PtpObjectSearch_proofs` | its invariants and the refinement, proved |
| `MCPtpObjectSearch` | handles for TLC |
| `PtpObjects` | the PTP driver's files and folders over its cache of objects, and the camera |
| `PtpObjects_proofs` | its types, the truth of the cache, and what its calls delete, upload and return, proved |
| `MCPtpObjects` | cameras and names for TLC |
| `KonicaLink` | the Konica driver's serial protocol, the line, the camera, the keepalive timer |
| `KonicaExchange` | the abstract exchange of commands and answers that the link implements |
| `KonicaLink_proofs` | its types and what holds of the timer, proved |
| `MCKonicaLink` | values for TLC |

### CameraCore

`cam` is the `Camera` with its `CameraPrivateCore` and `GPPort`; `call` says
where the call on the stack is; `host` whether the application offers timers.
The macros are the heart of it: `Begin` is `CHECK_INIT`, `PreFails` and
`PreReturns` are `CHECK_OPEN`, `PostReturns` is `CHECK_CLOSE`, and `Unused` is
`CAMERA_UNUSED` with the exit and the free that were put off.  The error paths
`CR`, `CRS` and `CRSL` differ in who releases the camera: `InitReturnsError`
and `ReleasedByInit` say so.  `Connect` to `DriverInitReturns` is
`gp_camera_init`.  The operations that a callback may call (`Exit`, `Unref`,
`SetPortInfo`) are functions of `cam`, so that the same definition serves the
idle application and the callback.  All calls that wrap one driver function
between pre and post have the same control, and are one `Kind`;
`gp_camera_file_get_info` has a kind of its own, for its fallback.

The constants `MayFail`, `Callbacks`, `InitCallbacks` and `Reinit` give the
scope: what may fail, what an application does in its callbacks.  The driver's
own exit function (293 to 298) runs in one step of `Exit`: callbacks from it are
left out, and so are ports called 'Directory Browse' (793, 840).  The scope is
part of what is claimed, since the properties do not hold for all of them
(section 6).

### FscacheLru

A cell's files are reduced to their sizes; the four pointers are kept exactly as
they are, with the cell that points back to itself at the head.  `RemoveOne`,
`InsertLast`, `FreeFirst` and `ClearAll` are `gp_filesystem_lru_remove_one`,
the end of `_lru_update`, `_lru_free` and `_lru_clear`.
`gp_filesystem_set_file_noop` is `StartSetFile`, one `Prune` for each turn of
the loop, and `FinishSetFile`.  `Walked` is what a loop over `lru_next` visits,
as a least set, which the provers can reason about; `WalkOf` is the same loop as a
function, the cells in the order in which it meets them, and maps the list to the
abstract `FscacheQueue` (`IsQueue`).  Files in the cache are in memory: the error
returns of `_lru_free` in the middle of its work (2008, 2014, 2020), for files held by
a descriptor or a handler, are not modelled.

### CameraFilesystem

An operation passes a record through the internal functions, in the order in
which the code calls them: camera, cache, the number of driver calls made, those
that fail, and the cells the operation has freed.  A use of a freed cell makes
`answer` undefined.  `lookup_folder` and `gp_filesystem_list_folders` call each other in
the code: a lookup lists each dirty folder on its way, and listing a folder looks up
its path, twice.  What is listed has a shorter path than what is looked up, so
`LookupOf` is a recursive function over the names of a path, whose values are functions
of the record: one turn of the loop is `Enter`, a listing on the way is `Relist`, and both
take the lookup of the shorter path as their parameter `look`.  `Scan` is a recursive
function likewise, over the levels that are left.  The driver calls of one
operation are numbered; `MayFail` holds the sets of numbers that may fail together,
the last number, `MaxCalls`, standing for all later calls too.  The camera is external: it has
directories and files, takes pictures by itself (`Capture`, then `Appended`),
and loses them.  Names are members of a small set.

### FileInfo

`gp_filesystem_get_info`, `_get_exif_mtime`, `_get_file` (with `_get_file_impl`) and
`_set_file_noop` call each other, and drivers that call them back: to hand over what
they got with a name (`HandInfo`, `HandFile`), or to ask for the size of a picture
before they download it (`DriverAsks`).  So the calls are a `stack` of frames, and a
step is what a function does between two calls; the label of the frame on top says
which place of which function it is at.  The tree is reduced to one file in one
folder, that is listed or not.  `entry` has its `info_dirty` and `info`, `slot` its
`preview`, `normal` and `exif`, as references to `CameraFile` objects in `obj`.  An
object is its kind of content, the EXIF time in it and its `mtime`.  Drivers are
records (`DriverType`): which functions they have, what they hand over, what they
support, what may fail.  The values of `MCFileInfo` follow drivers of `camlibs`.
The camera's own state is `cam`, which only `gp_filesystem_set_info` changes: a
request may name what it may not (`SetsReadOnly`), or a time that the driver passes
over (`Sets`).

### SerialPort

Built with lockdev, on Linux.  A call goes through `at`: `lock`, `speed`, `io`.
Every system call may fail at any time: `open()` after the lock was taken
(`OpenFails`), the change of the line before or after `tcsetattr` (`SetLineFails`),
`write()` at once or after a part of what it was given (`Write(n)`, from the same
pointer each time, as at 529).  A signal lets `select()` return -1, after which
`read()` is called all the same (`Interrupted`, `unguarded`); it then waits
without a timeout if the descriptor blocks, which it does only once the speed has been
set.  `CallOpen` may find the port open, and then loses its descriptor.  `Close` gives
the lock back or keeps it, as the settings name the port or not.  Another program that
takes the lock leaves the line at any settings (`OthersUnlock`), while
`dev.baudrate` is what it was.  `rx` holds the receive queue, and, as history, what the
camera has sent and the application has got.  `Cooked` is the line discipline's
marking (`PARMRK`).

### PtpObjectSearch

`objects` is `params->objects`, handles only.  A call of
`ptp_object_find_or_insert` is one step per turn of its loop (`Probe`), and
`Settle` for what follows the loop; `Find` is `ptp_object_find`; `BeginListing`,
`ListHandle` and `EndListing` are the loop of `ptp_list_folder`, which appends and
sorts at the end.  `bsearch` and `qsort` are external, with what the C library
promises of them: `Hits` leaves open what `bsearch` answers on an array that is
not sorted by `_cmp_ob`, and `Shuffled` any order that `_cmp_ob` admits.
`Compare` is `_cmp_ob`, with its subtraction modulo 2 `Half`.

### PtpObjects

One level above: the array is a function `cache` from handles to what is known of
an object, so that PtpObjectSearch's refinement is what it stands on.  Every
command to the camera is a step of its own (`GetHandles`, `ScanWants`, `SendInfo`,
...), and between two of them the photographer takes pictures and objects
vanish.  `call` holds the driver function on the stack: the folders still to be
walked (`rest`), the handle reached (`here`), what a scan over the objects is for
(`goal`).  `Walk` is `folder_to_handle`, the scan with goal `seek` is
`find_child`, `GetHandles` is `ptp_list_folder`; the driver functions end in
`GetInfo`, `Deletes`, `SendInfo` and `SendData`.  `kind` says how the camera
answers GetObjectHandles for the root: with its objects, or with all there
are, as the comments of `ptp_list_folder` have it.  A camera
makes no second folder of one name; files it takes as they come.  So for folders
`UploadsOnce` is as much the camera's merit as the driver's.  `CheckFails` is the
`ptp_check_event` before a delete.

### KonicaLink

One step for each byte that the driver reads, as `l_receive` reads them; the data
of a packet, which it reads at once, are one element.  What the driver does after
a byte is in the same step.  `call` holds the place in `lowlevel.c` and the local
variables that live across reads.  The camera is external, and does what the
comments of `lowlevel.c` say of it: at 101 (it asks to send three times, then
acknowledges), at 345 (it acknowledges without end: it hangs) and at 532 (it sends a
packet three times).  It carries out one command at a time and refuses pings
meanwhile.  The line may lose any element and damage any; a damaged size or
length lets the driver read too little or too much (`ReadSize`, `Swallow`).
`TimeOut` is a `gp_port_read` that finds nothing.  A read of the data that times
out sets `error_flag` and reads on, to time out again on the checksum; the
model returns at once.  `Flush` drops what has been received: what is still in flight
stays.  An STX among the bytes that are read for a damaged length leads on to the
checksum (`spoilt`).  `line` is history.

`l_receive` tells the application of the progress, which runs its main loop: there the
timer may fire, and its ping is sent in the midst of the answer (`TickInCallback`, at the
start, 380, after a part, 611, and at the end, if a size was told that is large enough, and
at each look for a cancellation, 592, whatever the size).  The downloads, the inquiries and the capture stop the timer first (`Inquiries`).  The preview
(`camera_capture_preview`, `library.c:538`) and the commands without a picture do not;
the preview's second `l_receive` is told a size above 1000, and reports (`Reports`).
`call.back` is the place to which the ping returns (`Resume`), or fails the call
(`PingFails`).

## 3. The runs

| Run | Checks | Bounds |
|---|---|---|
| `MCFscacheLru` | `ListIntact WalkMeetsAll ListedCache IsQueue SetFileReturns` | 3 cells, 1 in the root folder, limit 2, so that the list holds up to 3 cells and one can be taken from its head, middle and end; sizes 1, modulus 2, so that `lru_size` wraps |
| `MCCameraCore` | `DriverKeepsFooting FreedAtZero NothingLeftBehind ExitIsHonoured ExitHappens` | 2 timers, 2 references, `used` an unsigned char; every failure whose error path counts its calls right; callbacks that exit, ref, unref, set the model |
| `MCCameraCore_faults` | `DriverStaysMapped TimersRemembered` | every failure, `gp_camera_init` again on an open camera, no callbacks; `used` modulo 4, so that it wraps in both directions |
| `MCCameraCore_exit` | `ExitCloses`, violated | no callbacks; the device may be missing on the USB |
| `MCCameraFilesystem` | `CleanFilesAreTrue IsTransparent` | 2 folder names, depth 2, 2 folders and 2 files beside the root; no failures |
| `MCCameraFilesystem_faults` | `TreeIsSound CleanFoldersAreTrue NothingStale` | 1 folder name; an operation may find the camera gone (no call of it succeeds), a camera may remove trees, captures go two levels deep |
| `MCSerialPort` | `OpenUnderLock DeliversWhatIsSent CallReturns` | 3 settings: two speeds without parity, and the parity at one of them; 2 further tries; a message of 2 bytes, reads of 1 or 2; 2 bytes from the camera between two openings, damaged or not; every failure, signals, hang-up, other programs |
| `MCPtpObjectSearch` | `Sorted IsHandleSet SearchEnds` | 5 handles of 16, within one half; any sequence of calls, listings in any order |
| `MCPtpObjects` | `CacheIsTrue ResultsAreTrue UploadsOnce NamedIsDeleted` | 2 cameras (a folder with a file beside a file; a folder in a folder, with a file), each answering in either way; 4 objects, 3 calls, 1 refused command, 2 pictures or removals |
| `MCPtpObjects_delete` | `OnlyNamedIsDeleted`, violated | as `MCPtpObjects` |
| `MCKonicaLink` | `NeverCrashes KeptAlive Undisturbed Recovers IsExchange CallReturns` | 2 calls of a download, an inquiry, a preview or a command without a picture, 2 timers, answers of 2 packets and control data, 2 faults; 2 refused pings, 1 odd answer to a ping, 2 tries of a command, 2 acknowledgements |
| `MCFileInfo` | `DownloadIsTrue InfoIsTrue CallReturns` | 7 drivers, 3 pictures (with the time and the thumbnail or without), 2 times, 8 objects, 16 calls deep; an application that takes a new object for each download |

**Why the bounds are enough.**  The LRU code branches on whether a cell is the
only one, the first, the last or in the middle: three cells, each of which may be
listed or not, show all of it, and the proofs take the bound away.  `CameraCore` has no
data: two timers distinguish "one" from "all", two references "the last" from
"another", and the proofs hold for any number.  A lookup in the folder tree
handles a folder, its parent and its child: depth two has all three, and two
names give a folder a sibling.  Cells that an operation leaves free at the
end of the heap are not told apart (`MCView`): the next operation takes them as it takes
new ones.  In `SerialPort` the escape sequence is at most
three bytes long; two bytes from the camera make up to six in the queue, with a
sequence before and after a byte or another sequence, and reads of one and two end
within and between them.  The proofs hold for any number.  The binary search has its edges at arrays of one and two
objects and at the ends; five objects have an inner part besides, and the proofs
hold for any number.  In `PtpObjects` three calls are one that fills the cache,
one that changes something and one that looks; four objects leave one for an
upload or a picture beside three that are there.  A Konica command is followed
by one more, so that what the first has left on the line meets the second; a
packet that is broken twice takes two faults, and so does a broken packet with a ping
in its midst, which counts as one; the loops' limits are smaller than
in the code, and larger than the faults need to reach them.  Here the bounds are a
part of what is claimed: with more faults two of the properties fail (section 6).  In `FileInfo` the
deepest chain of calls of the seven drivers is 14, below the 16 allowed: a stack or
a memory that fills up disables every step of a call, so that the check for
deadlock and `CallReturns` find it.

**Deadlock.**  `CameraCore` stops when the camera is freed.  A read in
`SerialPort` that no `select()` has let through, or that is left with a mark alone,
blocks in a `read()` without a timeout until more comes: with the bound on what
arrives it may never.
`PtpObjects` and `KonicaLink` stop when the bounds on calls are used up.  The other
runs check for deadlock.

**Fairness.**  The library is straight-line code on one stack, so a call that has
begun goes on: weak fairness of the steps of a call (`Proceed`, `Prune` and
`FinishSetFile`, `Probe` and `Settle`, `Driver` of `KonicaLink`, `Library` and
`DriverStep` of `FileInfo`), and of nothing
else.  The application, the camera and other programs are free to do nothing:
`KonicaLink`'s camera reads what it has got (`Hear`), or its line would be a
queue without end, but it need not answer, since a read without an answer times
out; `Late` is such a read while the camera works.  Drivers bound their transfers with port
timeouts, which is why the steps that stand for a driver function are among
those that happen.

**Types.**  The type invariants (`TypeOK`) are theorems (section 4); that of
`CameraFilesystem` is a part of `TreeIsSound`, with which it is proved.

**Mutants.**  Each property has one: a change of a definition such as a
plausible bug would make, kept beside the original (comment "Mutant"), that
violates the property under the same configuration.

## 4. What is proved

### FscacheLru_proofs

For every finite or infinite limit of bytes, every number of cells and every
`PicturesToKeep`: `TypeCorrect`, `ListStaysIntact`, `WalkIsComplete`,
`ListedCellsCache`, `CacheIsBounded`, from `EntryAssumption` and
`BoundAssumption` alone.

`WellFormed`, which is what the code's own `gp_filesystem_lru_check` looks at,
is local: it allows a ring of cells beside the list that no walk meets, and so
is not enough to show that the walk is complete after an unlinking.  The
inductive invariant adds reachability: every listed cell is in the least set
that holds `lru_first` and is closed under `lru_next`.  The proof shows for each
pointer operation how a closed set of the new list gives a closed set of the
old one.  `AtMostOneExtra` needs in addition that the listed cells are the
walked ones (so that the loop's condition, which counts what it meets, bounds
all of them) and that every listed cell has content.

`ListIsQueue` is the refinement, `Spec => IsQueue`.  `IsWalk(l, q)` says that the
sequence `q` is the chain of the cells from `lru_first` to `lru_last`, without
repetition; one lemma for each pointer operation shows that it makes of a chain what
the queue's operation makes of it (`RemoveOneWalk`: the others keep their order), and
`WalkIsTheChain` that the loop along `lru_next` meets the chain and nothing else, by
the least place at which another function with its recursion would differ.
`gp_filesystem_lru_count` is the length of the queue because every listed cell has
content, so the pruning of the list is the queue's `Evict` under the queue's guard.

### CameraCore_proofs

For every width of `used` above one, every set of timers and every bound on
references: `TypeCorrect`, `CallsAreBalanced`, `DriverIsNotPulledAway`,
`UnreferencedIsFreed`, `FreeLeavesNothing`, `TimersNeverDangle`,
`PostponedExitIsDone`.  They hold in the scope `Balanced`: callbacks that leave the
port alone, no second `gp_camera_init`, and every failure but those whose error path
releases a camera that it has not taken (434, 450, 500, 803).  The latter make `used`
wrong for good: `MCCameraCore_exit` shows what comes of it.  `Balanced` is an
assumption of each theorem, not of the module; section 6 and the runs with other scopes
show that it is needed.

The invariant ties `used` to the phase: 1 during a call that `CHECK_INIT` has
begun, 0 otherwise; says for each phase whether the library is loaded exactly
once and the port open; that `timeout_ids` and `ticking` agree and are empty
without a library; and that a camera that is not alive is bare.  One step of the
proof for each action, on top of lemmas about `Exit`, `Free`, `Unused` and
`Unref`.

Two theorems hold outside `Balanced` too, where `used` and `ref_count` may have any
value: `TimersKnown` (the timers that run are those the camera will stop) for every
scope, and `DriverMapped` (`DriverStaysMapped`) for an application without callbacks,
whatever fails and however often it initialises an open camera.  Their
invariants leave the counters untyped (`Loose`).  `Mapped` says that what has a
handle can be unloaded once more; `Steady`, that a call that has begun has a
living camera and from `camera_init` on a handle.  Both are needed: `DriverInitFails`
unloads without looking at the handle.

### SerialPort_proofs

For any settings, messages, bytes, number of tries and bounds, and whatever fails:
`TypeCorrect`, `OpenIsLocked` (`OpenUnderLock`) and `ReadsAreTrue`
(`DeliversWhatIsSent`).  There is no scope: the property itself says of which bytes it
speaks.

The invariant of `ReadsAreTrue`, until a read fails (`Intact`): what has been delivered
is the beginning of what was sent, undamaged; and what is in the receive queue `Follows`
it, up to the first mark byte for byte, and after a mark's 0xff comes a second one or a
NUL, so that a read which stops at a mark stops before the bytes that it spoils.
`Settled`: while something is in the queue, the line has the parity that the reads go
by, or the marks would be read otherwise than they were made.  It rests on `ClosedIsEmpty` and
on drivers that change the settings when nothing is on its way.  Two lemmas say what becomes of
a queue that `Follows` when its beginning is taken (`LeftFollows`), and when more comes
(`LongerFollows`).

`TypeCorrect` needs that no more is left of a message than it has, or the sequence
of bytes that have gone out would not be one of bytes (`LeftOfMessage`).  Lemmas say
which actions change the port, the call and the queue, so that each proof looks at few.

### CameraFilesystem_proofs

For any cameras, names and depth, from `CameraAssumption`, `BoundAssumption` and
`NewsAssumption` (the mark for "no captured file" is no file's name):

- `TreeStaysSound` (`TreeIsSound`), whichever driver calls fail.
- `NothingGoesStale` (`NothingStale`) and `FoldersStayTrue` (`CleanFoldersAreTrue`), in
  `Steady`: a driver that has failed a call of an operation fails the later ones.
  That is a camera that is gone, or has never failed; it includes both values of
  `MayFail` that the runs use.  With a failure that passes, `NothingStale` is false
  (section 6), and what follows the use of a freed cell is undefined.
- `FoldersStayTrueUnlessStale`: whichever calls fail, `CleanFoldersAreTrue` holds as
  long as nothing freed has been used.  So a failed listing never makes a folder
  clean, and use after free is the only way in which the folders go wrong.
- `FilesStayTrue` (`CleanFilesAreTrue`) and `ListingsAreTrue` (`ListingIsTrue`), in
  `Reliable` (no driver call fails).  `gp_filesystem_list_files`, which marks a folder
  clean before it asks, needs this (section 6).
- `CacheIsTransparent` (`IsTransparent`), the refinement of `CameraDirectory`, in
  `Orderly`: no driver call fails, the camera has the parent of each of its folders and
  refuses to remove a folder that is not empty, and a capture creates at most one
  level of folders.  The run `MCCameraFilesystem` is such a case.  Without either of the
  last two conditions it is false (section 6); of calls that fail `CameraDirectory` says nothing.

The first six follow from one inductive invariant, `IInv` (`CacheStaysSound`), kept by every
operation.  `Heap`: the cells are a tree, each cell a folder that the camera has, and
apart from what the operation has freed.  `Fine` adds, unless something freed has been
used, that clean cells have the camera's subfolders (`Complete`) and, in `Reliable`,
its files (`FileFits`), each with an excuse for the captured file whose
`gp_filesystem_append` is still to come, and the folders on its path
(`NewsExcuse`); and `NewsIsThere`, that this file is on the camera.

An operation is a composition of internal functions, each with a contract: `Yields`
says of the record that it returns that it is `Fine`, goes `Onward` from the one it
got (what is freed stays freed, a cell is freed or keeps its path) and that the
folder returned is the one asked for.  The contracts of `lookup_folder` and
`gp_filesystem_list_folders` depend on each other for the path without its last name;
they are shown together by induction over the names of a path, through the least
number for which they would fail.  This is done three times.  `LookupLooks` is
what any lookup keeps.  The other two are for steady failures.  A path is `Clear` when no
folder above its last one is dirty, or the driver is gone.  `LookupLooksQuietly`: the lookup
of a clear path changes no cell.  `LookupLooksFirmly`: every lookup leaves its path clear, and
frees no cell whose path was clear (`Firm`).  So the pointer held across a nested
listing stays good: the folder was reached by a lookup, its path is clear, and the second
lookup of it, in `delete_all_folders`, lists nothing, or is refused and frees nothing.
`AppendFolders`, `DeleteEach` and the scan are inductions of the same kind over the list of names.

The refinement needs more than `IInv`: that an operation fails only when the directory
fails it.  `TInv` adds that dirty cells, too, have only files that the camera has
(`Real`), since `gp_filesystem_number` and `_get_folder` believe them; that the
camera's folders have parents (`Closed`); and that clean cells miss at most the last
folder on the way to a captured file, or `gp_filesystem_append` would put the file
in the folder above.  Between operations the cache is then `Faithful`, and
`LookupFinds` says that `lookup_folder` finds a folder exactly when the camera has it:
where the lookup has been, nothing on the way is dirty, so each next name
is among the cells (`CompleteFinds`, by the least name for which it is not).  Every
operation has a lemma that says what it does to the camera and finds (`...Does`,
`...Finds`), and one that it is a step of the directory (`...Transparent`); `Appended` is a
stutter.  That the scan finds every file (`ScanScans`) is an induction over the levels
below a folder, with one over its subfolders inside; what it has `Seen` stays, since a
cell whose path is clear is kept.

### PtpObjectSearch_proofs

For any set of handles and any number of objects: `TypeCorrect`; and, if the
handles are `Near` (no two differ by `Half`, 2^31 in the code, or more),
`ArrayIsSorted`, `SearchIsBracketed` and the refinement `ArrayIsHandleSet`.  Without `Near` both fail
(section 6).  The inductive invariant says that the array is sorted by value
whenever no listing is under way and distinct always, that during the search the
handle's place lies between `begin` and `end` (with the two exceptions of a
handle beyond either end), and where the result of a call points.  The two orders,
`_cmp_ob`'s and that of unsigned numbers, are shown to be one for near handles.

### PtpObjects_proofs

For any cameras, folders and bounds, under `RootIsRoot` (no camera lists all its
objects for the root): `TypeCorrect` and `ParentsAreTrue`.  The invariant
`Inv` is about the handle that the call is working on: it is that of an object that
exists or existed, which is the one that the path so far names; listing it tags
its children with it.  An object that has gone keeps its entry in the history of
facts, so that the theorem says that what is remembered of it was so.

The second part of the module is about the results of the calls.  `PathOf` is a recursive function.  That a parent is there before its children
(`ParentsFirst`) makes it well defined, and a fact about all paths is shown for the
least handle that would be an exception to it: `LeastNat`, which the library's theorems
about well-founded relations give.

- `DeletesTheNamed` (`NamedIsDeleted`), under `RootIsRoot`, whatever is refused or lost.
  Invariant `WayInv`: the path of the object that a walk or a scan has reached, with the
  names still to be walked, is the folder that was asked for.
- `UploadsOnceThere` (`UploadsOnce`) and `ResultsTrue` (`ResultsAreTrue`), under `Tidy`:
  `RootIsRoot`; the names of files, of folders and of pictures that the camera takes
  are apart (a driver that looks for a file finds a folder of its name, and refuses);
  the camera begins without two objects of one name in a folder.

The last two properties are about times when no command has been refused and no
object lost, so the inductive invariant is `Base /\ (Untroubled => Calm)`.  `Base` is
what holds at all times: `Inv`, `WayInv`, and that folders and
files have names of their kind.  `Calm` ties the cache to the camera.  `CoverInv`: every
object of a folder that counts as listed is cached, or is announced by an event that
waits, or is what the call is about to enter; the root is covered from
`camera_init`'s first answer.  This is what makes it safe that `ptp_list_folder` asks only
once.  `Progress`: what a scan has collected is what it has met so far, and in a scan
for a name nothing met so far has it.  `Place` and `Acting`: the folder that the path
led to is there, and a file that is about to be made was not found.  `Unique`,
`EventsInv` (what an event names is a picture that is there) and `OtherCalls` hold the
rest together.  The proof has one lemma for each part and each kind of step
(`Learns`, `DeletesOne`, `Makes`, and the steps of the call that leave the objects
alone).

### KonicaLink_proofs

For any numbers of packets, commands, tries, faults and timers: `TypeCorrect`,
`TimerKept` and `TransferUndisturbed`.  The last two need one invariant: the timers
that run are at most the one that the driver knows, none runs during an inquiry
(a download, `get_info`, a capture), whose answer therefore no ping interrupts, and it
runs at all other times, previews and plain commands among them, unless a download has
failed.

### FileInfo_proofs

For every driver and picture and every depth of the stack: `TypeCorrect`.  For an
application that takes a new `CameraFile` for each download (`~Reuses`, which section 6
shows to be needed), `DownloadsAreTrue` (`DownloadIsTrue`) and
`CacheHoldsItsKinds`.

`DownloadIsTrue` looks at the last return alone; the invariant `Shape` looks at every
frame of the stack.  `Chained` and `Bottom`: below a function is the one that
called it, and the application's download is the last; `Apart` and `Reserved`: a file that
one frame is filling is not one that another frame or a slot relies on; `Complete`
and `SlotsTrue`: what they rely on is of the right kind; `Delivered`: so is what was
just returned.  The proof has one lemma for each way a step changes the stack
(push, pop, move), and one step for each function's place.

For every driver and picture, and also for an application that uses an object again,
`InfoIsTheCameras`: a `gp_filesystem_get_info` that succeeds tells the permission that
the camera has now, and the time where `TimeTold` (the camera tells it, nobody changes
it).  `InfoIsKept` is `InfoIsTrue` for drivers that all tell it, and
`TimesArePictures` says of the others that the time they answer is that of the EXIF
data, or none.  The invariant `Truth` says where the entry's information may be used
while it is written: it is true when it is clean (`CleanIsTrue`), when the driver that
was asked has written it (`AskedIsTrue`) and while the EXIF data are searched
(`TimedIsTrue`).  The hazard is a driver that lists the folder again, and thereby
makes a new entry, under a function that has looked at the old one.  `ListsFirst`
excludes it: a folder is listed on top of the stack only while nobody below is
between asking and answering; for an unlisted folder has no function in it that
writes (`Unlisted`).  `SetIsLast`: nobody sets the information from within a call.

### Not proved, and why

`CallsAreBalanced`, `TimersNeverDangle` and `SearchIsBracketed` have no run of their own:
they are lemmas in substance, and the properties that are run depend on them.

- Liveness (`SetFileReturns`, `ExitHappens`, `CallReturns`, `SearchEnds`) needs
  `ENABLED`, which the proof system does not handle.
- The library's induction theorems take operators as parameters and cannot be used.
  Facts about recursive functions are shown through a least counterexample.
- `InfoIsTrue` for a driver that does not tell the time: `TimesArePictures` is one half of
  it, that a time which can be found is found stays with TLC.
- `Recovers`, `NeverCrashes` and `IsExchange` of `KonicaLink` are true within bounds only,
  and a theorem would have to count faults.  TLC shows them for two calls and two
  faults, and `NeverCrashes` with answers of one packet also for two calls and eight
  faults and for three calls and four; for what lies beyond, see section 6.

## 5. What is not modelled

See the components of status `not_modelled` in `PROJECT.json`.  Within the
modelled parts: `HAVE_MULTI`, `gp_camera_autodetect` and the settings file in
`gphoto2-camera.c`; `gp_filesystem_name`, storage information and cancellation
by the context in `gphoto2-filesys.c`; calls back into the library from the driver's exit
function (293), and ports called 'Directory Browse' (793, 840); the error returns of
`gp_filesystem_lru_free` (2008, 2014, 2020), for cells that it has just looked up; a `libexif`
without memory (`GP_ERROR_CORRUPTED_DATA`, 1670, 1719); of the file information, `gp_filesystem_read_file`,
which reads a part of a file from the cache or the driver, the kinds raw, audio and
metadata, which are treated like the normal file, and a folder of several files;
pins, breaks, flush and the other termios
settings in `serial/unix.c`, and what a descriptor that is lost by opening twice receives.
`gp_port_serial_check_speed` never clears `PARMRK` (875): the model goes by POSIX, where it
has no effect beside `IGNPAR`; a system that goes on doubling each 0xff is not modelled.  In `ptp2`: more than one storage, the vendors' own
listings (`ptp_list_folder_eos`, MTP property lists), events drained after a delete
(`DELETE_SENDS_EVENT`), a second folder of the same name, which the driver renames
(`library.c:4641`), and cameras whose objects in the root have a parent.  In
`konica`: escapes byte by byte, reads that return a part of what was asked for
(taken for all of it at `lowlevel.c:437`), the search for the speed, and commands
beyond their control flow.  Contents of files, error texts and logging are left
out everywhere.

Most of the repository's lines are drivers: some sixty protocols, each a table
of commands for cameras whose behaviour no file of the repository states, and
tables of properties (`ptp2/config.c`, `ptp2/ptp.h`) without control of their own.
The two drivers were chosen because the library's hard cases meet in them: a cache
over a camera that changes, and a lossy line with a timer.

## 6. Where the code and its comments disagree

Two disagreements are runs, with their findings in `PROJECT.json`.  `MCPtpObjects_delete`:
`delete_file_func` (`ptp2/library.c:5556`) sends `DeleteObject(0xffffffff)`, which means
every object, when the lookup of the file fails; `remove_dir_func` looks first.
`MCCameraCore_exit`: `gp_camera_init` releases the camera on an error path (803) on which
it has not taken it, `used` becomes 255, and when the device is there the next time,
`gp_camera_exit` says `GP_OK` and closes nothing.
The models show more, when a constant is set otherwise or the property named is
stated:

- For the same reason such a camera is never freed (`FreedAtZero`, with
  `MayFail = {"usb_find"}`).
- `gp_filesystem_list_files` (978) marks a folder clean before it asks the driver:
  after a failure the next listing succeeds and is empty (`ListingIsTrue`, with
  `MCAllOrNone`).
- `gp_port_serial_close` (`serial/unix.c:491`) unlocks the path of the settings, which
  no driver fills in, and returns before it has unlocked (`ClosedIsUnlocked`).
- When `open()` fails (459) the lock is kept (`ClosedIsUnlocked`).
- `gp_port_serial_write` (529) passes the same pointer to each `write()`: after a
  partial write the first bytes go out again (`WritesTheMessage`).
- A change of parity at the same speed does not reach the line (`serial/unix.c:842`); a
  change of speed that fails after `tcsetattr` (897) is remembered as not done; and
  `pl->baudrate` outlives the close, so that a line which another program has set
  meanwhile passes for set (`LineIsSet`).
- After a signal `select()` returns -1 (586), and the read that follows may wait without
  a timeout (`CallReturns`, without `WaitsUntimed`).
- `gp_camera_set_port_info` (`gphoto2-camera.c:434`) and two other error paths (450, 500)
  release a camera that nobody has taken (`CallsAreBalanced`, with `port_info` in
  `MayFail`).
- From a progress callback `gp_camera_set_port_info` takes the open port from the driver
  (`DriverKeepsFooting`, with `port_info` in `Callbacks`).
- `gp_camera_init` called by itself does not mark the camera as used (709): an
  exit from a callback is not put off (`DriverKeepsFooting`, with
  `InitCallbacks`).
- `gp_camera_init` on an open camera whose port does not open again loses the
  library (845): timers outlive the camera (`NothingLeftBehind`, with
  `Reinit` and `open` in `MayFail`).
- `gp_camera_file_get_info` falls back on the preview from inside its own call,
  and is refused as busy (1320): `PreviewBusy` is the only step there.
- `gp_filesystem_set_info` copies only the permissions into the cache (2423): a time
  of modification that has been set, as the directory driver can
  (`directory/directory.c:447`), is not told afterwards (`InfoIsTrue`, with
  `[Plain EXCEPT !.time = TRUE, !.sets = {"time"}]`).
- `get_info_func` of konica (`konica/library.c:392`) hands over the preview while
  the information is still dirty; when a `gp_filesystem_set_info` has failed (2420),
  the preview has no time, so that `gp_filesystem_set_file_noop` asks for the
  information again, which calls `get_info_func` again, without end (`CallReturns`,
  with `[Konica EXCEPT !.fails = {"set"}]`).  After a listing the information is
  clean by then, and the recursion ends.
- A preview or EXIF data found in the other file are cached in the application's own
  object (1695, 1733).  When the application downloads into it again,
  `gp_camera_file_get` cleans it (1396), the cache copies it to itself, and the
  download succeeds with an empty file (`DownloadIsTrue`, with `Reuses = TRUE`).
- The LRU keeps one picture more than "We keep PICTURES_TO_KEEP pictures in the
  LRU" (`gphoto2-filesys.c:2064`): the loop runs before the new one is added.
- `delete_file` and `delete_all_files` (816, 322) leave `lru_size` as it is.
- `gp_filesystem_append` (770, 567) appends a file that is two new levels deep to
  the folder one level deep (`IsTransparent`, with `NewLevels = 2`).  The folder is still
  dirty, so that no clean list is wrong (`FilesStayTrue` has no bound on the levels), but
  `gp_filesystem_put_file` then refuses a file that is not there.
- `gp_filesystem_remove_dir` (1263) takes a folder that was never listed for
  empty (`IsTransparent`, with `RemovesTrees`).
- `gp_filesystem_count` (1089) does not list a dirty folder.
- `gp_filesystem_reset` (635) keeps the root folder's files and what they cache.
- `lookup_folder` (407) does not look at the result of the listing that it asks for.
  When that fails, it goes on with the subfolders that the dirty folder has; if the
  driver succeeds when it is asked again, by the lookup in
  `delete_all_folders` (499) of a listing one level down, the folder in hand is freed and
  `gp_filesystem_list_folders` appends to it (`NothingStale`, with
  `MayFail = {{}, {1}}`; `Steady` excludes it).
- With parity, 0xff 0xff is reported as an error (619), though the comment says
  it stands for one 0xff; and after a parity error the damaged byte, third of its
  sequence, is delivered by the next read (615).
- A device that is gone makes `gp_port_serial_read` go round for ever (628), the
  first exception of `CallReturns`.

- `_cmp_ob` (`ptp2/ptp.c:6010`) subtracts, `ptp_object_find_or_insert` (6048) compares:
  for handles 2^31 or more apart, such as 0xffff0001 (`library.c:2399`) beside
  small ones, the array that `ptp_objects_sort` leaves is not sorted as "Needs
  \"objects\" to be a sorted by objectid list" (6031) has it (`Sorted`, `IsHandleSet`,
  with handles that are not `Near`).
- At the root of a storage `put_file_func` and `make_dir_func` (`library.c:5469`, 5777)
  look for the name among the children of 0xffffffff, of which there are none: "We
  don't really want a file to exist with the same name twice" (5471), but it may
  (`UploadsOnce`, without its exception for the root).
- A lookup that fails passes for "not there": an upload then goes to the root,
  and the listing of the folder succeeds and is empty (`ResultsAreTrue` without
  `Untroubled`).  `ptp_list_folder` (6379) remembers a folder as listed before
  it is.
- "root directory list files might return all files, so avoid tagging it"
  (`library.c:6416`): objects that are known already are tagged all the same (6436),
  and `camera_init` lists the root twice (`CacheIsTrue` needs `RootIsRoot`).
- `camera_wait_for_event` does not look whether `get_folder_from_handle` (3815) has
  failed, and appends the file to a folder higher up.
- A Konica camera whose answers are damaged three times in two calls can make the second
  call fail although nothing disturbed it (`Recovers` with `MaxFaults = 3`): the first
  leaves answers on the line, and the ping, which clears away one, is followed by a
  command that takes the next for its own.
- With three calls and five faults (`NeverCrashes`), a command that was refused is sent
  twice, its second acknowledgement passes for the answer to the next call's ping, and
  after the loss of two bytes the camera carries out the older command: a picture
  arrives for a command that has given `l_send_receive` no place for one
  (`konica/lowlevel.c:642`).
- `get_file_func` (`konica/library.c:480`, 479) leaves the keepalive timer off when the
  download fails or the kind of file is unknown, against "Ping the camera every
  minute to prevent shut-down" (1271) (`KeptAlive` without `missed`).
- `camera_capture_preview` (`konica/library.c:538`, `konica.c:504`) leaves the timer on, and
  its picture is long enough to be reported: a ping from the main loop in its midst
  talks across the exchange of packets, and the preview fails (`Undisturbed`, were it
  stated of it).  The next call recovers (`Recovers`).
- `l_receive` (`konica/lowlevel.c:389`) counts dumped bytes as tries: "The camera
  will send us the data at the most three times" (532), but after some dumped
  bytes a packet is given up sooner, or, when more than two were dumped, never
  (`FindStart`, `NextTry`).

## 7. Plan

1. Done: `CameraCore`, `FscacheLru`, `CameraFilesystem`, `FileInfo`, `SerialPort`,
   `PtpObjectSearch`, `PtpObjects`, `KonicaLink`, with the abstract `FscacheQueue`,
   `CameraDirectory`, `PtpHandleSet` and `KonicaExchange`; proofs of all.
2. Done: `DeliversWhatIsSent`, `NamedIsDeleted`, `UploadsOnce`, `ResultsAreTrue`, `IsQueue`
   and, for drivers that tell the time, `InfoIsTrue` as theorems.
3. Done: `CameraFilesystem` with recursive functions, its invariants and its refinement of
   `CameraDirectory` as theorems.  Left: the search of `FileInfo` for a time, that it finds
   what there is.
4. `KonicaLink` composed with the calls of `CameraCore`, whose timers it uses;
   `PtpObjects` under `CameraFilesystem`, in place of its external driver.
5. PTP transactions and events over USB: phases, transaction ids, the event
   queue; refined to request and response.
6. `UsbPort`: claim, detach, release; what is claimed is released.
7. Reference counts of files, widgets and contexts; the port list's lookups as
   pure operators.
