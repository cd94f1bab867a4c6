# stm32Mp3: specifications, model checking and proofs

stm32Mp3 is the firmware of a music player on the STM32F746G and STM32F769I Discovery boards. After
start-up `mainThread` (src/main/main.cpp) takes one of three modes: with the button pressed the board
is a USB mass storage device for its SD card; otherwise, with a card in the slot, it plays the MP3
files of the card's FAT file system; otherwise it plays an internet (HLS) stream. The modes share the
LCD with its two render engines, the FreeRTOS kernel and the SD layer.

This directory holds TLA+ modules for the parts of that firmware that have a state worth exploring,
TLC configurations that check them on small instances, and theorems checked by TLAPS.

## 1. Inventory

| Component | State | Operations | What is hard | What makes it correct |
|---|---|---|---|---|
| **FAT volume lock** `fatfs/fatFs.cpp` (lock, unlock, mFileLock, every method) | mutex, shared `mResult`, table of 2 open objects, each object's own result and lock id | constructors, methods and destructors of `cFile`, `cDirectory`, methods of `cFatFs` | several tasks; a 1000-tick time-out; `lock()` fails in two ways and decides by a field that others write; destructors of local objects run inside other calls | bodies do not overlap; the mutex is given once, by its holder; the table counts what is open; a writer is alone; each call returns |
| **FAT structures** `fatfs/fatFs.cpp` (window, FAT chains, directories, cFile data path) | one sector window with a dirty flag, FAT entries, free count, directory entries, per-file sector cache | putFat, getFat, createChain, removeChain, dir register/remove, read, write, seek, truncate, sync | an error or a power loss between two steps; two files sharing the window; cluster boundaries | chains are disjoint and end; free count; read returns what was written; nothing dirty is lost |
| **Disk functions** `fatfs/diskio.cpp` | none | diskRead, diskWrite, diskStatus, diskIoctl | number conversions | a sector is the block of the same number |
| **SD layer** `Bsp/cSd.cpp` | one 64-block read cache and its tag, card detect, card state | SD_ReadCached, SD_WriteCached, SD_Init | stale cache, failing transfers, card changes, 32-bit addresses | reads return the card; the cache is invisible |
| **USB mass storage** `USB_Device/usbd_msc.c` | BOT state and status, CBW, CSW, sense ring, transfer length, endpoint stalls | Setup (reset, max LUN, clear feature), DataIn, DataOut, every SCSI command | stalls and resets between the phases, host and device disagreeing on lengths | one CSW per CBW, right tag, residue and status; the host always gets unstuck |
| **USB device core** `USB_Device/usbd_core.c`, `usbd_ctlreq.c`, `usbd_ioreq.c`, `usbd_conf.c` | device state and the one before a suspend, EP0 state, configuration, remote wake-up; open and halted endpoints of the controller | bus events, setup stages, standard requests | reset, suspend, resume and unplugging at any time, also in a request; a branch for each request in each state | each request is answered; address, configuration and endpoints follow the granted requests |
| **LCD** `Bsp/cLcd.cpp` | two frame buffers, DMA2D op list and its interrupt, LTDC interrupt, debug line ring, text cache | startRender, endRender, DMA2D and LTDC interrupt handlers, info, debug | interrupts against the task; a 500-tick time-out; lines added by any task | a displayed frame is complete; no frame is drawn while shown; the op list is not overrun |
| **MP3 player** `main/main.cpp` (mp3PlayThread, mp3WaveThread, UI) | fileIndex, fileIndexChanged, mWaveChanged, mMp3PlayFrame, mFrameOffsets, mWaveLoadFrame | play loop, wave loop, touch callbacks | variables shared by three tasks without a lock | the chosen file and position are played; table and wave form are those of the file |
| **Sound output** `main/main.cpp` (both players, the two audio callbacks) | mAudHalf, mAudSem, the two halves | start, wait, choose a half, write it, stop, half and full transfer | a 100 ms time-out, a signal left over from the last stream, an interrupt while a half is written | the half being played is not overwritten, none is played unfilled |
| **HLS player** `main/main.cpp` (hlsLoaderThread, hlsPlayerThread, hlsNetThread) | mHlsSem, mChanChanged, sequence numbers | load, play, change channel | a binary semaphore as a wake-up call, waited for without a limit | the loader wakes for every change and every missing segment |
| **Ethernet interface** `Bsp/ethernetIf.c`, `HAL_Driver/stm32f7xx_hal_eth.c`, `LwIP/src/api/tcpip.c` | descriptor ring, mRxSem, the handle's lock, buffer pool, mailbox | receive interrupt, ethernetInput, ethernetOutput, tcpip_input | one signal for many frames; buffers and mailbox run out; an interrupt that unlocks | frames in order, buffers accounted for, nothing left in the ring, no call refused as busy |
| **LwIP port** `LwIP/system/OS/sys_arch.c` | mailboxes, semaphores, time-outs | sys_mbox_*, sys_sem_*, sys_mutex_* | time-out arithmetic, full mailboxes | no message lost; time-outs reported |
| **Idle hook, heap hooks** `sys/cpuUsage.c`, `sys/syscalls.c`, `Bsp/stm32f7xx_it.c` | usage counters, heap end | tick and idle hooks, _sbrk, interrupt vectors | counters against the tick | usage within 0..100 |

Not modelled, and not meant to be: the vendored code (FreeRTOS kernel, STM32 HAL, LwIP, FreeType, CMSIS
headers), whose behaviour is taken from its source where our code depends on it (the blocking queue and
its assertions, HAL_SD_ReadBlocks and HAL_SD_WriteBlocks); the board drivers (audio codecs, touch
controllers, QSPI, SDRAM), which only set up and read hardware; the decoders, widgets and the HLS class,
which are not in the repository; `httpserver/*.ok`, which no build compiles.

How the components interact: the three modes never run together. In MP3 mode the play and the wave task
call `cFile` and `cDirectory`; these take the volume mutex, then call diskRead and diskWrite, which call
SD_ReadCached and SD_WriteCached. In USB mode the USB interrupt runs the mass storage class, which
calls the same two functions, with no lock. The main task draws in all modes; interrupts of the LCD
controller, of DMA2D and of the audio stream give binary semaphores to it and to the players.

## 2. Plan

| Order | Modules | Question | Runs |
|---|---|---|---|
| 1 done | FatFsLock, FatFsLockProofs | mutual exclusion, table of open objects, every call returns | 4 |
| 2 done | BlockDevice, SdCache, SdCacheProofs | the read cache is invisible; every call is answered | 4 |
| 3 done | BulkOnly, UsbMsc, UsbMscProofs | one status per command, residue, stalls and resets, host and device stay in step | 1 |
| 4 done | Iteration, FatTable, FatVolume, FatFile, FatFileProofs, FileStore | chains, free count and directory entries under failing accesses and power cuts; a file reads back what was written through the shared window and its cache | 2 |
| 5 done | LcdRender, LcdLines, Mp3Player, AudioOut, HlsPlayer, EthernetInput and Firmware, with proofs | no tearing, accounted signals, lines in range, the chosen file is played, no sound or frame lost, wake-ups | 1 |
| 6 done | UsbRequests, UsbDevice, UsbCore | the states of the USB device, every request answered | (in 5) |
| 7 done | FatClaimsProofs, FatApartProofs | no two entries or objects name one first cluster, and chains do not meet (`FirstClustersApart`, `ChainsApart`) | (in 4) |
| left | proofs for FatFile | `EveryClusterOnce`, then `IsFileStore`: what a walk down a path finds, and what objects that only read hold | (in 4) |
| left | SysArch | time-out arithmetic of the LwIP port | |

## 3. Modules

**FatFsLock** is the locking layer of fatFs.cpp. Each thread has a `call`: where it is (`take`, `wait`,
`took` or `late` before the decision, `in` the body, `failed`, `leave`, `return`), which function, on which object.
`LockTake`, `LockBlock`, `LockTimeout`, `LockDecide`, `LockDecideLate` and `LockNull` are `cFatFs::lock`: it writes the
`mResult` that all threads share (1836 to 1840) and reads it again (1842) to say yes or no, and another thread may write
it in between. One that took the mutex then says no and keeps it (`kept`); one that timed out says yes and goes into its body
without the mutex (`stopped` becomes "overlap" there, and nothing is followed from then on). An optimising compiler may keep the
value in a register, in which case neither happens: the model has that behaviour too. A body is one action (`OpenBody`, `OpenDirBody`,
`MethodBody`, `CloseSyncBody`, `DestructorBody`, `VolumeBody`) that ends in the code's own unlock, with the
result that the code passes to it. That is the heart of the model: `unlock` gives the mutex or not
depending on a result, and that result is the object's own, the local one, or the field `mResult` that
all threads share. The `...Fails` actions are the paths taken when `lock()` was false. `nested` stands for
rename and for unlink of a sub-directory: they destroy a second `cDirectory` while they hold the mutex.
`slots` is `mFileLock`; `CheckFileLock`, `IncFileLock`, `DecFileLock` and `ClearFileLock` are its functions
and keep the code's encoding (a count, or 0x100 for a writer). The FAT and the data are abstracted: a body
succeeds or meets a disk error. Every fault is optional (`Faults`).

**FatFsLockProofs** holds its theorems.

**BlockDevice** is what the SD layer promises: a disk that serves a request at a time. **SdCache** is the
layer itself: the cache, its tag with the two 'empty' values, the hit test in 32-bit arithmetic, the two
multiplications on the way from a sector to a byte address, transfers that stop early, and the card that
is pulled out and put in. `ReadFill` and `ReadDeliver` are the two halves of a miss, `WriteBlocks`,
`WriteProgrammed` and `WriteReturn` the three phases of a write. `Device` maps it to BlockDevice: the disk
is the card, a write counts as done once it is on the card. **SdCacheProofs** holds its theorems.

**BulkOnly** is what a host may expect of the mass storage class: blocks that move in order, each to its
place, and a status with tag, residue and result that fit what moved. **UsbMsc** is the class itself with a
host. `dev` is `hmsc` with the two endpoints (what is queued on bulk-in, what bulk-out is armed for, which
are stalled); every function of usbd_msc.c that changes it is an operator of the same name from one `dev`
to the next, and SCSI functions also say whether they returned 0 or -1. The host (external code, modelled
from the protocol the class serves) has a phase: `data`, `status`, `retry` after a stalled status, and the
three steps of a reset recovery. One action is one bus transfer and the interrupt handler it runs. That is sound
because the endpoint answers NAK until the handler arms it again, and because HAL_PCD_IRQHandler looks at
finished IN transfers before it takes the next packet from the receive FIFO (no DMA: `dma_enable` is 0 in
usbd_conf.c), so a command is never decoded before the interrupt of the status that precedes it. Calls of
the SD layer (`ready`, `media`) succeed or fail at will: that is a card that comes and goes. The sense ring is the
sequence from head to tail. A reply that is not a block of the card counts as one byte. `BulkOnlyDevice` maps
to BulkOnly; a read block has moved when the host has it, a written one when it is on the card. The packet of
data that lands in `cbw` after a failed write (`DataAstray`) is 64 bytes, full speed; at high speed it is longer
and overruns the allocated handle, which the model does not follow. **UsbMscProofs** holds its theorems.

**FatTable** holds the table of a FAT32 volume and the one-sector window it is read and written through (`MoveWindow`, `SyncWindow`,
`GetFat`, `PutFat`), and the chains (`CreateChain`, `RemoveChain`); **FatVolume** adds directories, FSINFO, and the methods of cFatFs
that work on names. **Iteration** is a loop whose body is a parameter, and every loop of the three modules is an instance of it: the operator
`...Pass` is the body, and a pass that has nothing left to do changes nothing, so that a bound on the number of passes (clusters of the table,
entries of a directory, units of a transfer) cuts none off. Each method is an operator from a volume to a volume that makes its disk accesses in the code's
order. The volume carries a fuse that counts accesses: when it burns down, that access fails (`error`: nothing was
written, `late`: it was written and still reported as failed) or the power goes there (`cut`). So a fault may
strike between any two writes of any method without an action for each. What the code computes from a
number that mixes clusters with errors (0, 1, 0xFFFFFFFF) is kept. **FatFile** adds `cFile`: open, read,
write, seek, truncate, sync, close, each one step from lock to unlock, and the history `health`. After a cut
the volume is mounted anew from the card. **FileStore** is the promise: a store of files, each a string of units, and for each what
a cut would leave. `Store` maps FatFile to it through `View`, which walks the chains on the card and in the
window as a reader would.

`health` says how far the promise goes: `good` until the first fault, `hurt` after one; not
followed any more are `halved` (an open took the low half of a first cluster, see below), `damaged` (a cut or a failed close while an entry names clusters that truncate freed; a close after a
truncate that then failed, whose cached sector may be in somebody else's cluster by now; a fault while a directory grows; an
open for reading that brings the count of an entry to that of a writer), `misled` (a method of cFatFs went on with an entry it had not found) and `spoilt`
(the constructor of cFile reads `mWindowSector` through a null `mFatFs`, and the entry of the file is then
written where that said). In these states the code gives up the volume's structure; section 6 lists them.
`LoadCluster` is the other read through that null pointer: `mFsType` (1700, called at 2793), on which it depends whether the high half
of the entry's first cluster is taken. `OpenFile` tries both, with `LowHalf` for 2^16; an entry whose first cluster has no high
half opens the same way in both, and any other may be `halved`.

A sub-directory is never removed and nothing is ever renamed: unlink and rename destroy a second `cDirectory` under
their own mutex, whose lock() times out, and the FR_TIMEOUT it leaves in `mResult` is what they then test, return, and
give to unlock, which keeps the mutex. FatFsLock has the mutex (`nested`), FatVolume the result (`TimesOut`, in `IfEmpty` and
`Rename`); in FatFile such a call ends the calls, as none comes back with the mutex any more.

**LcdRender** is a frame: `StartRender` turns to the other buffer, and `SyncTaken` or `SyncTimeout` ends its wait for the display,
`Draw` appends an operation, `Send` hands the list to the DMA2D, `WaitTaken` or `WaitTimeout` ends the wait for it; `OperationDone` and
`LineIrq` are the two interrupts. The list is the memory it is, with what earlier frames left in it, so that a
walk that outlives a time-out reads what the code would read (`wild` when it leaves the list). **LcdLines** is the log: `Ask`, `Pick`, `SetLast`,
`SetFirst` are the four points of `info` between which other tasks run.

**Mp3Player** has the play task, the wave task and the touches; each read or write of a shared variable
that another task could come between is an action. A touch is two (`TouchFile`, `TouchFlag`), as
the widgets set the value before the flag; so is a touch of the wave (`TouchFrame`, `TouchWave`). The frame touched is `mMp3PlayFrame`, which the
play task also sets to 0 with each file (`PlayReset`) and counts up: `PlayFrame` reads it, `PlayStore` writes it, and a frame touched
in between is overwritten (`Spoil`). It is a frame of the file or, as `NumFrames`, any number past the last. Where `Seek` leads is left open, since
mFrameOffsets holds how far the wave task had read, and past `mWaveLoadFrame` anything. `touch` and `offsetOf` are what the properties speak
of: what the user waits for, and the file that each entry of mFrameOffsets was found in. **AudioOut** is the alternation of the two halves;
`Choose` takes the half from `mAudHalf` and starts to write it, `Written` is the end of that, and `Transferred`, the interrupt, may come at any
time between. `lost` says that a half was spoilt: chosen while it was played or not played yet, or played while it was written; `slip` says that player
and DMA are out of step. **HlsPlayer** is the loader and the player around `mHlsSem`; `cHls` is not in the
repository, and what its methods do is taken from how the two tasks use it.

**EthernetInput** has the descriptors, the interrupt in two steps (it gives the semaphore, then clears the
flags and the lock), the receive task from the semaphore to the mailbox, and the TCP/IP task that handles
frames and transmits. `RxWaits` is the priority: the receive task is above the TCP/IP task, which therefore only
runs while the other one waits.

**UsbRequests** is what a host may ask. **UsbDevice** is what it may expect, from chapter 9 of USB 2.0: a place (off,
default, address, configured), the endpoints that go with it, and for each request which answers are allowed and
where a granted one leads. **UsbCore** is the device core: the handlers of usbd_ctlreq.c, usbd_core.c and
usbd_ioreq.c are operators of the same name on `usb`, and a bus event or a transfer of the default endpoint is an action
that runs one of them. `UsbSeen` maps it to UsbDevice; what a host will read next is the answer. Bulk transfers are
UsbMsc's; here the class only halts endpoints (`ClassHalts`), at will.

**Firmware** puts these seven together. They share no variable and none waits for another, so following one of them at a time
(`part`) loses no behaviour that a property could tell. **FirmwareProofs** holds the theorems of
UsbCore, LcdRender, LcdLines, Mp3Player, AudioOut, EthernetInput, HlsPlayer and of the whole.

**FatFileProofs** holds the theorems of FatTable, FatVolume and FatFile about types and counts, **FatClaimsProofs** and **FatApartProofs** those
about whose clusters are whose: the first has the table and the methods of cFatFs, the second cFile and the behaviours of FatFile.

**MCFatFsLock**, **MCSdCache**, **MCUsbMsc**, **MCFatFile**, **MCFirmware** give the constants values.

## 4. Runs

| Run | Expectation | Shows |
|---|---|---|
| lock_late | pass | two tasks, three objects on one file and one directory, all bodies may overrun the time-out and meet disk errors: the table keeps counting (`OpenObjectsCounted`), a writer is alone (`WriterIsAlone`), file and directory calls leave no mutex behind but for the lock() that says no to the mutex it has (`NothingLeaked`) |
| lock_live | pass | calls of all kinds, also those that wait for themselves: whoever was let in holds the mutex (`MutualExclusion`), but for a late lock() that reads another's FR_OK, and each call comes back (`CallsReturn`) |
| lock_not_holder | violation | a method that timed out gives a mutex that another task holds, which the kernel asserts against |
| lock_nested_leak | violation | rename and unlink of a sub-directory lose the mutex |
| sd_device | pass | the cache agrees with the card and the layer implements BlockDevice |
| sd_faults | pass | with every fault the state stays well typed and each call is answered, except a write whose card is gone |
| sd_silent | violation | a failed read succeeds, with the old contents of the cache |
| sd_fat_write | violation | diskWrite writes a sector to another block |
| msc_host | pass | the class implements BulkOnly (`IsBulkOnly`); whatever happened before, when the host is about to send a command the device waits for one with nothing left over (`InStep`); it never causes a reset by itself (`NoResetUndisturbed`) nor takes data for a command (`DataIsNoCommand`); a failure is explained by its own sense code (`SenseIsTheReason`); host and device never wait for each other (`Answered`) |
| fat_store | pass | under one failing access or power cut at any place, the volume is a store of files (`IsFileStore`): what a call does to one file no other file sees, a successful sync keeps everything, reads return what was written, until an open has halved a first cluster; each first cluster that is named starts a chain and is named once (`FirstClustersApart`); the chains at the ends of paths never meet and reach as far as the size says, and without a fault no cluster is lost (`EveryClusterOnce`) and the free count is right (`FreeCountRight`) |
| fat_ok_means_done | violation | methods of cFatFs say FR_OK for names that do not exist |
| firmware | pass | frames (`ShownIsComplete`, `NoTearing`, `SignalsAccounted`), log lines (`LinesInRange`, `NewestIsShown`), the MP3 player (`NoTouchLost`, `TableIsOfOneFile`, `WaveIsOfTheFile`), sound (`AudioKept`), Ethernet (`FramesInOrder`, `PbufsKept`, `NeverBusy`, `NothingLeft`), and that tasks go on (`TasksGoOn`, `LoaderGoesOn`); the USB device core implements UsbDevice (`IsUsbDevice`) and answers what it does not overlook (`HostGoesOn`) |

The last four properties of msc_host speak of a host that has not given up and a card that has not failed during a
transfer (`disturbed`); the other two, and TypeOK, hold afterwards as well.

Bounds. Lock: two tasks are what MP3 mode has, FS_LOCK is 2 as in the source, three objects make the table
overflow and let a reader, a second reader and a writer meet; `MaxCtr` stops opening once a leaked count
exceeds it (counts only grow by such leaks). `Used` selects the calls of a run: reads and opens there,
everything here. SD: four blocks, a cache of three and requests of up to three make hits, misses,
overlaps and the end of the card happen; Word = 16 with 2-byte sectors lets the address of the empty tag
wrap as 0xFFFFFFF0 does. USB: transfers of three blocks with packets of two take a full and a partial
packet, transfers of four from block 1 are out of range on a card of four; lengths of the transport that
exceed the SCSI length, unknown operations in each direction and replies shorter than asked for occur; the ring
has three places, so that it wraps, and two tags tell a late status from the right one. No addresses wrap (Word = 32
exceeds the card in bytes) and transfers of no blocks are left out (see 6). There deadlock is checked.

FAT: seven clusters of two sectors of two units, four links and two entries per sector. File A has two clusters that do not
follow each other and ends in the middle of a sector, B fills one sector and has a long name, the root
directory is full, one cluster is free: writing either file extends it, fills the card, and crosses sectors and
clusters, and mkdir and rename have to grow a directory. Units of length 1 and 4 go through the cache and past it. Five calls (`MaxCalls`) allow
open, write, seek, truncate, close with a fault in any of them; one of them, the first or the second, may be
a method of cFatFs (`MaxNameCalls`, `NamesWithin`). One fault per behaviour (each is struck at every access of
every call). fat_ok_means_done needs one call.

Firmware: two operations in a list and two late waits (`MaxOps`, `MaxLate`) make a list be reused while it is
walked, with a second signal too many; two logging tasks, four lines of which one or two are drawn; two files of two frames,
so that there is a next file and a last one; two segments of the stream; two descriptors, two buffers and one message
make each of ring, pool and mailbox run out, with five frames (`MaxFrames`) that wrap round the ring twice. The
models of the sound and of the USB core have no bounds: their runs are complete.

CHECK_DEADLOCK is off where the system may stop: a failed kernel assertion disables interrupts and spins, a
write to a card that is gone spins; the calls or frames of the model are used up; the play task ends without a
card and a player that reads past mMp3Files may crash; a walk that left the list is not followed.

Fairness. FatFsLock: weak fairness of the steps of each task inside a call: a task that runs is not
starved for ever, and a wait in xSemaphoreTake ends by a grant or at 1000 ticks. Weak fairness suffices because
the waiting task can always take one of the two. SdCache: weak fairness of the one call that is served; its
steps are straight code. UsbMsc: weak fairness of the transfers, since a host controller repeats a
transfer that is answered with NAK; none of the host's patience, so that `Answered` is not bought by resets. FatFile: none.
Firmware: weak fairness of the render task, of both tasks of each player, since a task that can run is not starved for
ever, and of the transfers of the default endpoint, as in UsbMsc. None of the engines of the display (a wait for
them ends by itself, and that is what `TasksGoOn` relies on), of touches, of bus events, or of a host giving up. The player task
of the radio is woken by the audio stream, which plays on for ever; it is the one assumption about hardware.

Each property has a mutant of the code it would catch; the mutants stand beside the definitions they
replace, under the comment "Mutant".

## 5. Proofs

Every safety property of the passing runs is proved, and every refinement, except two of FatFile: `EveryClusterOnce` and `IsFileStore` (see the end).

FatFsLockProofs proves, for any sets of tasks, objects, files and directories, any table size and any
faults, `TypeCorrect` (`Spec => []TypeOK`) and `MutexSafe` (`Spec => []MutualExclusion`). MutualExclusion is not
inductive alone: the thread that comes to a body must have come through LockTake, and a thread that
waits on its inner cDirectory still holds the mutex though it is not at `in`; the invariant adds the shape
of each thread's call (which functions occur at which point) and that the mutex has an owner whenever a
call is inside. One interesting step is a give by a thread that does not hold the mutex: the assertion
stops the system instead of freeing it, so even the leaks found by the two violation runs never let two
bodies overlap. The other is `LockDecideLate`: a lock() that timed out and reads FR_OK is the only way to a body without the mutex, and there
`stopped` is "overlap", which the property leaves out. All theorems about the table say what holds up to that point.

The table of open files is `TableCountsOpenObjects` (OpenObjectsCounted) and `WritersAreAlone` (WriterIsAlone). `OwnInv` says
which thread works on which object. `TableInv` says that an entry is blank or counts somebody, that no two entries are for one file,
that the lock id of an open object names an entry of its file, and that the count of an entry is at least the number of objects open on it (it is more
after a destructor whose sync failed); the step that needs it is an open or a close, where the number of objects changes with
the count. Two assumptions: `StaysMounted`, the card does not become not-ready (a remount blanks the table under open objects),
and `FewOpens`, the readers of one file stay below the 256 that mark a writer. `MutexComesBack` (NothingLeaked) assumes only
`FilesOnly`, no method of cFatFs: with those it is false, which lock_nested_leak shows. It names the one way that is left, `kept`: lock() took the mutex
and said no, as the card was not ready or the FR_TIMEOUT of another was read. `LeakInv` says that otherwise whoever holds the mutex is on its way through lock() or runs
a body, and that no such body ends in the FR_TIMEOUT at which its unlock keeps the mutex.

SdCacheProofs proves `TypeCorrect` under every fault; and, assuming that transfers do not fail, that the card
is not pulled out during a call, and that byte addresses fit in 32 bits, `CacheIsCoherent`
(`Spec => []CacheCoherent`) and, for USB block numbers and requests no larger than the cache,
`ImplementsBlockDevice` (`Spec => IsBlockDevice`, step simulation). CacheCoherent speaks of the time between calls; the
inductive invariant extends it to calls that have been asked but not started, and says of a filled cache
that it holds the blocks it is about to be tagged with. Neither tag for 'empty' can produce a hit, because
both are block numbers no card has.

The other proofs are about the parts of Firmware, for all values of their constants. In each the invariant says
more than the property:

- FirmwareProofs, the frames: `Signals` bounds the signals of the list by the waits that timed out, also while the task waits;
  `InTime` describes a list that no time-out has disturbed: before it is sent the engine rests at its start, afterwards it is
  at the operation before `mDma2dIsrBuf`, and the operations left are those it has not reached;
  `Fresh` says that after the signal it waited for the display scans out what is shown. From these follow
  `ShownFramesAreComplete`, `FreshFramesDoNotTear` and `SignalsAreAccounted`.
- FirmwareProofs, the log: `RangeInv` and `NewestInv` say what each task knows at each of its places in `info`. `past` marks the
  overlaps under which neither holds.
- FirmwareProofs, the player: `ChoiceKept` follows a touch through `fileIndex`, its flag and the place of the play task, `SeekKept` and
  `FrameKept` the same for a position, its flag and the frame: it is the one touched, or the next if the play task has counted since; `Loading` ties the entry the wave task has just written to the file it has open.
- FirmwareProofs, the Ethernet: `LockInv` says for whom the handle is locked at each place; with the priorities this makes HAL_BUSY
  impossible. `InHand` ties the task's place to the descriptor and the frame it holds. `PbufsKept` is inductive with these.
  `FramesKeepOrder` and `RingIsEmptied` need the shape of the ring (`RingInv`): the filled descriptors are those from the one the task reads
  next to the one the DMA fills next, with rising frames; `NewerInv` and `OrderInv` order ring, hand, mailbox and TCP/IP task among
  each other, and `LeftInv` says that a task that sleeps without a signal has emptied the ring.
- FirmwareProofs, the rest: `InStep` for the sound (in step, `mAudHalf` is the half just played, at most the other one is filled, and a half that is being written is not the one played); the types
  of HlsPlayer; then, that each step of the firmware is a step of each part or leaves it alone, so that all these theorems
  hold of `Spec` (`FirmwareTypeCorrect`, `FirmwareSafe`).
- FirmwareProofs, the USB core: `UsbTypeCorrect` goes through every handler. The invariant needed is `SleepInv`: while the bus sleeps the saved state is
  a real one, and while it is awake the state itself is. `ImplementsUsbDevice` (IsUsbDevice) goes through every handler again: `Served` says what a step
  Serve of UsbDevice says of the device before and after a setup packet, and is shown of each reply (`Refused`, `Ignored`, `Answered`, `Done`), then of each
  handler, then of the masked interrupt. `CoreInv` is what the mapping needs: the open endpoints follow the state, also the one that is saved during a
  suspend, and what waits at the default endpoint fits the stage the host is in.

UsbMscProofs proves every safety property of UsbMsc: `MscTypeCorrect`, `DeviceInStep`, `ResetsAreForced`, `DataIsTakenForData`, `SenseTellsTheReason`,
for any card, packet size, ring, commands, transport lengths and tags. The invariant `MscInv` says for each phase of the host in which of five situations
the device is: it waits for a command, it answers, it reads or writes blocks with so many moved, it has aborted, or data has come as a command.
`ImplementsBulkOnly` (IsBulkOnly) is step simulation with it; it assumes `Fits`: the card ends below 4 GB and no block number plus count reaches 2^32. Without
that blocks do land elsewhere (section 6). The constants are those of the run but for two facts the proof could not do without: lengths are at least one block
(`Counts`; a WRITE of none is never answered, section 6) and block numbers have 32 bits (`Lbas`).

FatFileProofs begins with what the table keeps, call by call, for a table of any size, a window in any state, and an access that fails, fails late or
is the last before the power goes, at any place. `WindowLosesNothing`: moving the window changes nothing of what the volume holds,
and what it writes on the card is what the volume held already. `CreateChainKeepsTheTable`: with a sound table (`TableInv`: a link leads to a cluster in use, no two
lead to the same, on the card and under the window) the table is sound after createChain, the free count is right unless the call says that it failed
(its caller marks one cluster for nothing then), and the cluster it gives was free or follows already. `RemoveChainKeepsTheTable`: removeChain from the start of a chain
keeps the table sound and the count right even if it fails; it frees no cluster of another chain (`OnlyFrees`: a set of clusters that no link enters or leaves
and that is without the start loses nothing), and all of this one if it ends with FR_OK. Why a fault cannot hurt: the new cluster is marked before it is linked, and a
chain is freed from the front, when no link leads to it. That `TableInv` and the hypothesis on the start hold in every state is shown
by FatApartProofs, below. Of the constants it assumes `TableAssumption`.

Then FatFileProofs proves of every behaviour of FatFile, for a card, a table, directories and files of any size, any paths, and faults of all three kinds at
any access: `TypesHold` (`Spec => []TypeOK`) and `FreeCountHolds` (`Spec => []FreeCountRight`). TypeOK is more than types: each sector of the card, and the window,
holds what belongs into its area, so that no method writes entries over the table or a table over a file, whatever failed before; a clean window on the table is what is on
the card; and a file whose calls have not failed has its position within its size, from which read computes what it may take. The proof goes up the
code: `Stays (v, w)` says that what a method makes of the volume v is in order, and right if v was. For each operator, from diskRead to the
methods of cFatFs and cFile, a lemma says that it stays (`...Stays`); `StaysOrFails` lets it be off where the result is an error. `Accurate` is the count: the
free clusters of the card under the window, and FSINFO agrees unless the flag says that it does not. Between putFat and the
adjustment of the count this is false, so the lemmas about putFat say which link has changed (`LinkPut`), and `TakeStays` and `FreePassStays` put
link and count together. createChain marks a cluster and may then fail to link it: the count is off, and here the
callers are needed, each of which turns the number 1 or 0xFFFFFFFF into a result that is an error (`ErrorIsToldOf`). The
invariant `IInv` of the specification adds that no fault is planned between calls, and that the view shows the volume. A call with a fault planned
(`Begins`) has only to leave the volume in order, since `health` is not `good` after it. That `mLastCluster` or the entry under a slot are not what they should be does
no harm here: the lemmas assume nothing of them. Assumptions: `TableAssumption`, `EntriesAssumption`, `FileAssumption`, and `DiskAssumption` about the card in the
slot at start-up: sectors hold what belongs there, and FSINFO has the right count or one that mount replaces. If FSINFO were off by some, mount would believe it.
After an open that halved a first cluster the object may name a cluster that is not in the table; types then hold but for those of the objects.
`NothingIsHalved` says that with less than 2^16 clusters (`NumFatEntries <= LowHalf`) no open does, whatever the null pointer shows.

All these loops need induction. Iteration proves it once: `Upwards` is induction on the natural numbers about a set instead of a predicate,
from the library's theorem on least elements, and `PassByPass` says that the recursive function `Passes` is what its equation says. The invariants of the loops of the
table are `SearchInv` (what has been looked at is in use) and `FreeInv` (`PartFreed`: what is freed is a piece of the chain up to the cluster
at hand; at least as many clusters are free as passes were made, so that the passes suffice). Those of the other loops say that the passes so far stay; that of read, that the
position is not past its end; that of write, that what is left are units; that of the zeroes of a new cluster, that the window is on a sector of that cluster.

FatClaimsProofs and FatApartProofs prove `FirstClustersStayApart` (`Spec => []FirstClustersApart`): after every call, whatever failed, each first cluster that
an entry on the card or an object that writes names is in use, no link leads to it, and nothing else names it; the table is sound; and a card none of whose entries is
stale is one that could be mounted. It holds until an open has halved a first cluster, so without an end on volumes of less than 2^16 clusters. `ChainsStayApart` says what follows for whole chains, as walks along the links (`Walks`): no cluster is in the chains of two entries or twice in
one, every chain ends, and it stays among clusters in use. The assumption is `Flat`: finitely many files, opened in the root directory; paths without the two dot entries; and a card in
order at start-up (`Mountable`). The constants of the run satisfy it, which TLC checks (`FlatAssumption`). Files opened in sub-directories are left out (the methods on names are not): the proof
needs that the lock id of an open file leads to its entry, and keeps only the links of the root directory for that.

The state alone does not say who may free what, so the proof carries claims `a` along: which place (sector and slot of an entry) claims which first cluster, at which places open files
are written, which of these are `loose` (shortened by truncate and not yet synced, so that the entry on the card is stale and only the object tells), and which links
are kept: those along the root directory, by which the lock ids of open files count entries, and those along the files that are written, where the objects stand. A volume `Holds` the claims if the table is sound, all claims are apart, every entry that is not loose names what it claims, and nothing in the
window contradicts that. It goes up the code as above: createChain changes links that no claim depends on, removeChain may only be given a start whose claim has gone
before, so unlink removes the entry first and frees afterwards; that is why a cut in between loses clusters and never shares them. For a method of cFatFs that is `Done`: the volume
holds what is left of the claims (`Spares`). For one of cFile it is `Calls`: only the claim of its own entry may change, and afterwards the object is tied to it (`Tied`), and where its position is inside the file
its cluster is on its chain (`OnChain`), which is what truncate needs to cut there. At the ends of a call the claims have to fit the objects: `Agree (vol, obj, a)`. Two more facts are needed for that. `Counted`: the table of open files counts the
objects, and a writer is alone in his entry, so that two objects never write one chain, and unlink and rename refuse a file
that is open (`Locked`). `Honest`: an object that only reads has nothing to write. `CInv` says that such claims exist; with `IInv` it is
inductive. The proof was also what showed two of the ways into `damaged` named in section 3: the close after a failed truncate, and a reader counted up to the number of a writer.

Only model-checked: everything under fairness (`CallsReturn`, `CallsAnswered`, `Answered`, `TasksGoOn`, `LoaderGoesOn`,
`HostGoesOn`), which is beyond this prover; `EveryClusterOnce` and `IsFileStore` of FatFile; and all violations. `View` walks chains and paths to
their ends, which are recursive functions of two arguments; a proof of `EveryClusterOnce` has to relate them to the walks of `ChainsApart` and to show that two paths do not lead to one entry. Nor do the claims say that a chain is as long as the size
needs, that every used cluster is in one (both part of `EveryClusterOnce`), or what the first cluster of an object is that only reads. `IsFileStore` adds the contents, before and after each step of each method.

## 6. Where the code and its promises part

Found by the violation runs: see PROJECT.json, "findings". Also visible in the model, without a run of
their own: a constructor refused by `lock()` leaves a `cFile` whose destructor reads the mutex handle through a null
pointer (`LockNull`); a card that is not ready makes `lock()` return false with the mutex taken; a method
whose lock() failed returns the result of the previous call, FR_OK after a success; a file whose read
failed keeps its entry of the table for ever, because ~cFile gives up after a failed sync; truncate after
a time-out changes the file without the mutex; a remount blanks the table while objects are still open;
a card larger than 4 GB aliases its blocks; a write to a card that has been pulled out never returns.
In usbd_msc.c: `bot_status` stays RECOVERY after the first reset, so that every later
command that fails by a stall runs into the host's time-out; after a read that the card breaks off the status goes out as
data; the ring of four sense codes is empty after the fourth; VERIFY checks the last transfer's byte address; addresses
wrap at 4 GB; a WRITE of no blocks is never answered (with 0 in `Counts`, `Answered` fails); before READ CAPACITY
the size of the card is unset; each SET_CONFIGURATION allocates another handle.

FAT. `diskRead` and `diskWrite` multiply the sector by its size, and cSd.cpp multiplies again (sd_fat_write). truncate frees
clusters before the entry is written: until the next sync the card's entry names free clusters, and a cut then leaves a file
in clusters that another one may get. A fault while a directory grows leaves a cluster in it that was not
cleared. The destructor of a file whose truncate has failed still writes the cached sector, which may be in a cluster that truncate freed and another file has got since. The 256th reader of a file looks like a writer; readers whose close failed count as well. The constructor of cFile reads a sector number through a null pointer when it registers its
entry. mkdir, unlink, rename, chmod and utime go on after a name was not found (fat_ok_means_done). rename and unlink of a sub-directory never get done and end with FR_TIMEOUT. On a volume with 2^16 clusters or more an open may take
the low half of a first cluster: it then reads, writes and frees clusters of another file.

Locking. lock() decides by a shared result that another task may have written since (1842): a body without the mutex, or a mutex kept by a call that
was told no. Whether the program does that depends on its compiler.

Display. `ltdc.sem` is created given, and a frame that overruns leaves it given: from then on `startRender` is one
signal behind and may draw to the buffer being scanned out; `NoTearing` holds for frames that began without an old signal. A list
whose wait timed out is overwritten under the engine (`ShownIsComplete` ends there). Tasks that overlap in `info` lose a line, and
with a reset or a change of mode in between `mFirstLine` may become negative.

MP3 player. After the last file `fileIndex` is one past the end, and both tasks read mMp3Files there. A touch between the test of fileIndexChanged and its reset is lost, as is a position
touched between the seek and its reset; a position touched while the play task counts a frame is overwritten, one touched as a new file begins is reset to 0, and a position past the frames loaded
seeks by whatever mFrameOffsets holds there; a seek that is pending when the file changes hits the next file. The wave task misses a change to
another file and back. A frame after the first hour is written past mFrameOffsets. Sound: the 100 ms wait fills a half
without a signal; `mAudHalf` and `mAudSem` are as the last stream left them; a half may take longer to write than the other one to play; each puts the player out of step until an interrupt finds it waiting with
the next half filled.

Radio. A load that fails while paused is tried again only once playing. Ethernet: a frame that finds no buffer is
dropped, and those behind it stay in the ring until the next one arrives; the result of HAL_ETH_TransmitFrame is
ignored; the interrupt unlocks a handle it did not lock.

USB core. CLEAR_FEATURE of remote wake-up, or for interface 0, comes to the class with index 0; under the comment
"Reactivate the EP" it closes the default endpoint, whose interrupt is then masked, and opens bulk-out: the device hears no request
until a bus reset (`deaf`). Not answered at all are GET_DESCRIPTOR of length 0, features other than remote wake-up, GET_STATUS for
an interface, requests for an endpoint before the configuration (which halt it instead), unknown requests for an endpoint, and control writes
for other recipients (`Overlooked`). Halts and remote wake-up outlive a bus reset, halts also SET_CONFIGURATION, is_stall of the default endpoint
is never cleared, and interface 1 passes for one. BOT_CplClrFeature and USBD_MSC_DeInit write or read through pClassData also when there has been no
configuration. String descriptors are put together in an array declared const.

## 7. Not modelled

Of fatFs.cpp: FAT12 and FAT16 and the second copy of the FAT, makeFileSystem, the current directory and relative paths, FA_CREATE opens and
registering a new file (nothing in the firmware creates one), fast seek, gets, putCh and printf. Of the display:
glyphs, layout, the float part of mFirstLine, set-up of the controllers. Of the players: decoding, volume, hlsNetThread, the race on
the text in mString. Of the Ethernet: the underflow flags of the DMA, frames of several descriptors (a descriptor holds the largest frame),
ownership of transmit descriptors, link changes. Of the USB core: contents of descriptors, replies longer than a packet and control writes with data (there
are none), test mode. Whole components: the LwIP port, hooks and vectors, board drivers and vendored code; the reasons are
in section 1 and in PROJECT.json.
