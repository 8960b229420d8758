# TLA+ models of libtouchmouse

libtouchmouse reads the touch images of a Microsoft Touch Mouse from a HID
device and hands them to a callback of the client. This directory holds TLA+
specifications of the library and of the HID backend it ships, TLC
configurations that check them on small instances, and TLAPS proofs of the
properties that matter most, for every value of the constants.

Contents: [inventory](#inventory), [modules](#modules),
[runs](#runs-and-what-they-show), [proofs](#proofs),
[disagreements](#where-the-code-and-its-documentation-disagree),
[left out](#what-is-not-modelled), [plan](#plan).

## Inventory

    client (consoledemo, qtview)
       |  touchmouse_process_events_timeout(dev, ms)      ^ callback(image)
       v                                                  |
    src/touchmouse.c: deadline loop --> report loop --> nybble decoder --> 13 x 15 image
       |  hid_read_timeout(dev, buf, ms)
       v
    hidapi/<platform>: queue of input reports <-- read thread <-- libusb / IOKit / Win32
       ^
       |  hid_enumerate(), hid_open_path(path), hid_close(dev)
    client threads, each with a list of paths and at most one open device

| part | state | operations | what is hard |
|---|---|---|---|
| decoder (`touchmouse.c` 95-175, 378-440) | `buf_index`, `next_is_run_encoded`, `partial_image`, two timestamps | `reset_decoder()`, `process_nybble()`, the loop over the data of a report | state carried across reports, runs at the end of the image, reports lost or malformed in mid-frame, a length byte larger than the report |
| image unpacking (139-168) | `image` | the row loop, `decoder_table` | array sizes, loop bounds and the row table are independent literals |
| event processing (359-446, `mono_timer.c`) | deadline, last reading of the timer, the decoder | `touchmouse_process_events_timeout()` | mixed `int` / `uint64_t` arithmetic, repeated waits under one deadline, a timer that can fail or overflow, three meanings of the timeout |
| Linux backend (`hidapi/linux/hid-libusb.c`) | report list, `shutdown_thread`, the transfer, mutex and condition, barrier | `hid_open_path()`, `read_thread()`, `read_callback()`, `hid_read_timeout()`, `hid_close()` | three kinds of thread, a flag written without the mutex, cancellation against resubmission, unplugging, what may be freed when |
| Mac backend (`hidapi/mac/hid.c`) | the same, with a run loop, two barriers, and a removal callback | the same | a hand-written barrier, a stop that finds no run, removal against close, two threads that close one handle |
| Windows backend (`hidapi/windows/hid.c`) | overlapped read, its event and buffer, `read_pending` | `hid_open_path()`, `hid_read_timeout()`, `hid_close()` | a read that stays pending across calls that time out, failures half way, cancelling without waiting |
| enumerating and opening (`hid_enumerate()`, `hid_open_path()`, `hid_close()` of each backend) | Linux: handle, claim, read thread; Mac: `device_list`, the manager's one removal callback; Windows: a handle that may exclude others | search, open, claim, register, undo, close | a search that does not stop, an enumeration that opens devices, two attempts to open, steps that fail half way, devices that go in between, two threads or programs |
| enumeration and handles (`touchmouse.c` 208-300) | one shared HID list behind all device infos | enumerate, free, open, close | ownership of the list |
| device mode (302-345) | feature report 0x22 in the mouse and in a buffer | `touchmouse_set_device_mode()` | read-modify-write of which either half can fail, and the read can be short |
| clients (`consoledemo.c`, `mousepoller.cpp`) | open device, mode | open, set mode, poll, restore, close | which of the undo steps run after which failure |

Interaction is by calls downwards, by the callback upwards, and, inside a
backend, by the report list: the read thread appends, the client's thread
removes, both under `dev->mutex`.

Correctness, part by part:

* decoder: stays inside its arrays and the receive buffer for any input; never
  merges frames with different timestamps; delivers the image that was sent;
  recovers after a loss.
* image unpacking: every decoded pixel once, in reading order, on the sensor's cells.
* event processing: not early, not late, honours "nonblocking" and "block".
* Linux and Mac backends: reports in order, without gap or duplicate, in bounded
  memory; readers wake; a disconnect is reported; `hid_close()` ends and frees nothing
  in use. Mac: the run loop exists, and its thread lives, whenever it is used.
* Enumerating and opening, on all three: a complete device or nothing at all; no
  device open twice; the list has what is attached; every open device learns of
  its removal.
* Windows backend: one request at a time, collected once; no call with a timeout
  blocks; everything acquired is released.
* enumeration, handles and mode: one owner of the HID list, the mouse asked for is
  opened, its mode is restored, its other settings are left alone.

The list of hazards, each with its line and the properties that watch it, is in
`PROJECT.json`.

## Modules

| module | models | kind |
|---|---|---|
| `Decoder` | the decoder over any sequence of reports | state machine, one action per outcome of a nybble |
| `DecoderProofs` | its theorems | proofs |
| `ImageLayout` | the unpacking loop and the grey scale, at the sizes of the code | state machine with one behaviour for each grey level |
| `FrameDelivery` | the promise to the client: captured images come out once, unchanged, in order | abstract specification |
| `FramePipeline` | mouse, lossy ordered channel, `Decoder` (EXTENDS) | composition; implements `FrameDelivery` |
| `FramePipelineProofs` | its theorems (EXTENDS `DecoderProofs`) | proofs |
| `ProcessEvents` | deadlines, timeouts and returns of `touchmouse_process_events_timeout()`, on the timer of each platform | state machine with time |
| `ProcessEventsProofs` | its theorems | proofs |
| `ReportQueue` | the promise of a backend: a bounded queue that loses only its oldest reports | abstract specification |
| `HidLinux` | one open device of the Linux backend; implements `ReportQueue` | concurrent state machine |
| `HidLinuxProofs` | its theorems | proofs |
| `HidMac` | one open device of the Mac backend; implements `ReportQueue` | concurrent state machine |
| `HidMacProofs` | its theorems | proofs |
| `HidWindows` | one device of the Windows backend and the kernel's request | state machine |
| `HidWindowsProofs` | its theorems | proofs |
| `DeviceAccess` | devices that come and go, client threads, their lists and devices | shared state and operators |
| `OpenLinux`, `OpenMac`, `OpenWindows` | enumerating, opening and closing in each backend (EXTEND `DeviceAccess`) | actions |
| `HidDevices` | several threads and devices over one of the three (EXTENDS them) | composition |
| `HidDevicesProofs` | its theorems | proofs |
| `Session` | enumerate, open, set mode, close: the calls of `touchmouse.c` | operators on a shared state |
| `Clients` | consoledemo and qtview over `Session` (EXTENDS) | composition, one program counter |
| `ClientsProofs` | its theorems | proofs |
| `MC*` | values of constants for TLC | |

### Decoder

`BeginReport(ts, len)` is the arrival of a touch report (a 32-byte report with ID
0x27): the stale-frame test, the new timestamp and the entry into the loop. The
three outcomes of `process_nybble()` are `DecodeError`, `DecodeComplete` and
`DecodeProgress`; each contains everything the caller does with that outcome
(reset, callback, return or next nybble). `t` and `half` are the position of the
loop: low nybble, then high nybble of `data[t]`. The nybbles are arbitrary, so
the model covers every content of every report, and `len` is any length byte.
`partial_image` keeps its pixels because the callback's image depends on them.
The callback is the history variable `callback`; `origins` records which
timestamps the held nybbles came with.

The buffer read by `data[t]` for a length byte larger than the report is the
stale part of the 256-byte receive buffer: arbitrary nybbles as well.

### FramePipeline

The firmware is external. It is modelled by everything the compression comment
of `touchmouse.c` (lines 59-93) allows: a zero run may be written as a code or
pixel by pixel (`Encodings`), an odd encoding is padded with any nybble, and the
bytes may be cut into reports anywhere (`Cuts`). `Receive` and `DecodeStep`
are `Decoder`'s own actions with the nybbles taken from the report. `Lose` stands
for the overflow of the backend's queue and for the radio link. `held` and
`delivered` record which frames an image was made of.

### ProcessEvents

One action per statement that reads the timer or changes the control flow:
`SetDeadline`, `FirstReading`, `StartRead` (the conversion of the remaining time
and the entry of `hid_read_timeout()`), `WakeUp`, `ReadFails`, `Interpret`,
`TestDeadline`. `Elapse` lets 0 to `MaxDelay` units pass in every one of them,
`Tick` lets time pass in a wait. Decoding is abstracted to its effect on the
return path: a report advances, completes or breaks the frame, or is not a touch
report.

Integers have the widths of the code at a smaller scale. `milliseconds *
1000000` is an `int` product: on overflow, which C leaves undefined, the model
takes the wrapped and the wide product (the two results compilers produce). The
difference `deadline - nanos` is unsigned, and the quotient is narrowed to `int`.
`backend` is the platform. It selects what `hid_read_timeout()` makes of a negative
timeout (-1 blocks on Linux and Mac and anything below polls; everything negative
blocks on Windows) and the timer.

`now` is the true time; what `mono_timer_nanos()` returns for it is `Nanos`. The
counter of Windows is multiplied by 1000000000 before it is divided by its
frequency, in signed 64-bit arithmetic; that of Mac is multiplied by `numer` before
it is divided by `denom`, unsigned. In both the product is the time in nanoseconds
times the divisor, reduced to 64 bits, and `Divisors` gives the divisor of each
platform (1 on Linux, which counts in nanoseconds). So a reading jumps: on
Windows to almost 2^64 when the product reaches 2^63, and through 0 at 2^64; on Mac
to 0 at 2^64. At 10 MHz that is after 15 and 31 minutes of uptime; with the `denom`
of 33333335 that PowerPC machines have, after 9 minutes; with a `denom` of 1 or 3,
never. `Clock(fails)` is one reading, in which the timer of Linux and Windows may
also fail and return 0 (`Failures`); any reading of any call may. `failed` records
that the call used a failed one.

### HidLinux

Threads are program counters: `owner` (the client thread in `hid_open_path()` and
`hid_close()`), `io` (`read_thread()`), `cb` (`read_callback()`, which runs inside
`libusb_handle_events()`), and `reader[r]` (client threads in
`hid_read_timeout()`).

| action | code |
|---|---|
| `Open`, `MeetAtBarrier` | end of `hid_open_path()`, lines 848-851 |
| `StartTransfer` | `read_thread()` up to the barrier: allocate, fill, submit |
| `TestShutdown`, `EventsReturn`, `EventsFail` | the event loop, 703-710 |
| `CancelPending`, then `EventsReturn` / `RunCallback` in step `"drain"` | 712-717 |
| `Broadcast` | 719-726 |
| `RunCallback`, `Enqueue`, `Resubmit` | `read_callback()`: status test, critical section, resubmission |
| `ReadBegin`, `ReadResume`, `TimeOut`, `SpuriousWake` | `hid_read_timeout()`; the wait releases the mutex |
| `CloseBegin`, `CloseCancel`, `CloseJoin`, `CloseFree` | `hid_close()` |
| `CompleteTransfer`, `Unplug`, `LoseDevice` | the device and libusb |

A critical section of `dev->mutex` is one action. `shutdown_thread` is written
without the mutex, so its accesses are separate actions. Reports are numbered in
order of arrival, which is all the queue properties need to tell apart.

What the environment may do beyond its normal behaviour is a set `faults`,
chosen at the start from `FaultSets`:

* `close_during_read`: a client closes while another thread reads;
* `unplug_anytime`: the device goes while no transfer is submitted;
* `event_errors`: `libusb_handle_events()` fails;
* `cancel_refused`: cancelling a finished or cancelled transfer returns NOT_FOUND,
  as recent versions of libusb do;
* `shared_context`: another open device's thread handles events of the same
  default context.

The queue is an implementation of `ReportQueue` whatever the faults: the mutex,
the condition variable, the overflow rule and `hid_close()` map to `Arrive`,
`Take` and `Discard` of a queue with capacity `QueueLimit + 2`. The other
properties exempt exactly the faults that break them (see
[disagreements](#where-the-code-and-its-documentation-disagree)); each exemption
was found necessary by TLC.

### HidMac

`owner`, `io` and `reader[r]` are as in `HidLinux`; there is no callback thread,
because `hid_report_callback()` runs inside the run loop of the read thread
(`Report`, enabled while `io` is `"running"`).

| action | code |
|---|---|
| `OpenArrives`, `ThreadMeets` | the two ends of `dev->barrier` |
| `CloseParts`, `ThreadParts` | the two ends of `dev->shutdown_barrier` |
| `SpuriousPass` | the single `pthread_cond_wait()` of `pthread_barrier_wait()`, line 89, returning unprompted |
| `Prepare`, `TestLoop`, `EnterRun`, `RunStops`, `RunTimesOut`, `RunFinishes` | `read_thread()`, 627-668 |
| `Broadcast`, `ThreadTestsHandle`, `ThreadClosesHandle` | 670-684 |
| `Removal` | `hid_device_removal_callback()` |
| `ReadBegin`, `ReadResume`, `TimeOut`, `SpuriousWake` | `hid_read_timeout()`, `cond_wait()`, `cond_timedwait()` |
| `CloseBegin`, `CloseFlag`, `CloseSignal`, `CloseJoin`, `CloseHandle`, `CloseFree` | `hid_close()` |

The first thread at a barrier goes to a waiting step, the second moves both on.
`CFRunLoopStop()` sets `stopped` only during a run, and `EnterRun` clears it: a stop
between two runs is lost. A signalled source (`signalled`) is not lost.

The removal callback runs on the main thread, so unless the fault `off_main` is
present it runs only while the client is not inside `hid_open_path()` or
`hid_close()`. The other faults: `close_during_read`, `spurious_wakeups` and
`other_device` (another `hid_close()` unregisters the callback of the manager).

### HidWindows

`request` is what the kernel knows of the overlapped read, `read_pending` and
`event` what the backend knows; the model is about their agreement. `ReadStarts`,
`ReadFails` and `ReadAgain` are the three ways into `hid_read_timeout()`,
`WaitEnds` and `TimeOut` the two ends of `WaitForSingleObject()`, `Collect` is
`GetOverlappedResult()` and the return. The class driver keeps a ring of reports
for the open handle and discards the oldest (`Report`). `held` is what the
structure owns; `hid_open_path()` fails at any of its calls. The faults
`slow_cancel` and `other_thread` are what `CancelIo()` does not promise.

### HidDevices

`HidLinux`, `HidMac` and `HidWindows` begin when one device is open. `HidDevices`
has what comes before and after, for several devices and threads. A device is
named by its path, and returns under another one. `pc[c]` is the step of client
`c`; `held[c]` is what its `hid_device`, or the call it is in, has acquired. Each
call that can fail is an action with a success and a failure, and another
client, a plug or an unplug may come between any two.

| backend | actions | code |
|---|---|---|
| Linux | `LinuxSearch`, `LinuxOpenHandle`, `LinuxDetach`, `LinuxClaim`, `LinuxStartThread`, `LinuxOpenReturns` | `hid_open_path()`: one round per alternate setting of HID class; the `...Fails` actions are its `break`s |
| | `LinuxCloseThread`, `LinuxCloseRelease`, `LinuxCloseHandle` | `hid_close()` |
| Mac | `MacBeginOpen`, `MacOpenHandle`, `MacRegister` | `new_hid_device()`, `IOHIDDeviceOpen()`, the registrations and the thread |
| | `MacRemoval` | `hid_device_removal_callback()`, which walks `device_list` |
| | `MacCloseUnregister`, `MacCloseThread`, `MacCloseHandle`, `MacCloseFree` | `hid_close()` |
| Windows | `WindowsEnumerate`, `ScanExclusive`, `ScanShared`, `ScanRecord`, `ScanEnds` | `hid_enumerate()`, with the two attempts of `open_device()` |
| | `WindowsOpenExclusive`, `WindowsOpenShared`, `WindowsGetCaps`, `WindowsClose` | `hid_open_path()`, `hid_close()` |

What the program and its surroundings may do is a set of `circumstances`, fixed at
the start: `concurrent_calls` (two threads are inside HIDAPI at once),
`alternate_settings` (an interface with two of HID class), `shared_elsewhere`
(other programs share devices). The parts of an open device that `HidLinux`,
`HidMac` and `HidWindows` are about (transfer, run loop, overlapped read) are one
element of `held` here: the thread, or the handle.

### Session and Clients

`Session` has no steps of its own: each function of the library is an operator
that a program's step conjoins. `MiceAmong[n]` is the list after `n` passes of the loop in
`touchmouse_enumerate_devices()`. `touchmouse_set_device_mode()` is two steps, the
read and the write, because the mouse may go in between. Of the report, byte 4 is
`mode` and the rest, as one value, `settings`; `data` is that rest in the buffer,
zeros until the read. `infos` holds, for each
device info, the element of the HID list it points to; `hid_list` is the list they
share. `Clients` runs either program: `ConsoleDemo` is `main()` of consoledemo,
`QtView` the constructor, slots and timer of `MousePoller` in the order `main()`
of qtview calls them. `failed` records that some call failed.

## Runs and what they show

| run | question | bounds |
|---|---|---|
| `decoder` | does the decoder stay in bounds and keep frames apart, for any input? | 5 pixels, 2 grey levels, runs of 3-5, 2 timestamps, length byte to 6, buffer of 3 data bytes |
| `image_layout` | does the loop draw the layout of the comment? | the sizes of the code, nothing is bounded |
| `lossless_delivery` | is `FramePipeline` without loss an implementation of `FrameDelivery`, liveness included? | 2 frames out of 4 images of 4 pixels, every encoding, up to 2 data bytes a report |
| `lossy_delivery` | what survives losing reports? | 3 frames, 2 lost reports, 1 data byte a report |
| `process_events` | are the calls that keep their promise neither early, late nor stuck, while the timer works, and does the unbounded call survive any timer? | 6-bit `int`, 10-bit clock, 6 units a millisecond, overflows at times 64 and 128 |
| `linux` | queue, wake-up, freeing, close and disconnect, under no fault, each fault and all of them | 1 reader, limit 1, 5 reports |
| `mac` | barriers, run loop, queue, removal and close under no fault, each fault and all of them | 2 readers, limit 0, 3 reports |
| `windows` | request, event and resources through failures, timeouts and close | ring of 2, 5 reports |
| `devices` | enumerating, opening, closing, plugging on the three backends in every set of circumstances | 2 clients, 2 paths |
| `clients` | ownership of the HID list, choice of the mouse, restored mode | 3 HID interfaces, indices 0 to 2 |
| `timeout_overflow`, `clock_overflow` | disagreements with the documentation (each must be violated) | |

Why the bounds are enough:

* Decoder: five pixels and runs of three to five are the smallest sizes where a
  run can end before, at and after the end of the image, both from its start and
  from its middle. The length byte goes past both the image and the buffer. Two
  timestamps are enough because the code only compares for equality. The proofs
  remove these bounds.
* Pipeline: two frames show a boundary; three frames with two losses show the
  head of one frame, the tail of another and an intact third, with equal and with
  different timestamps. One data byte a report gives the most reports, hence the
  most ways to lose. The four images have a run that fills the image, ends at it,
  starts it, and none.
* Event processing: the scale keeps the relations of the code's numbers: a timeout
  whose product fits `int` and one whose product does not; an unbounded deadline
  whose quotient does not fit `int`; readings of the clock within and across a
  millisecond. The divisor 8 of Windows and Mac makes the timer of Windows jump at
  time 64 and wrap at 128, that of Mac wrap at 128. Calls start before the jump and end
  before it (48), straddle it (62), lie between jump and wrap (70), and straddle the
  wrap (118); on Linux all four are ordinary times, at which the narrowed quotient of
  the unbounded deadline has either sign. One queued report is enough, since a read
  takes one and another may arrive at once. `GoodCalls` are timeouts for which the
  promise can be kept, and `MCProcessEvents` has TLC evaluate that they satisfy
  `CallsInRange`, the hypothesis of the proofs; `OverflowingCalls`, of
  `MCTimeoutOverflow`, are the subject of a violated run. A zero timeout is in
  `GoodCalls` for Linux and Mac, where it returns at once with whatever one read
  gives; on Windows it may block and is left out. `MCClockOverflow` has one call that is in range and
  straddles the jump.
* Linux: with limit 1 the queue overflows at its fourth report; five reports cover
  two overflows with reads between them. One reader, because the library's clients
  read from one thread; for two readers the single signal is not enough (a listed
  hazard). The run has 7 of the 32 sets of faults. The proofs of the safety
  properties cover every set, limit, number of reports and, apart from the
  wake-up, of readers.
* Mac: limit 0 makes the third report overflow the queue. Two readers, because the
  callback signals for every report and so serves several. The run
  has each fault alone and all together, 6 of the 16 sets, to stay short. The
  proofs of the safety properties cover every set, limit and number of readers.
* Windows: five reports through a ring of two overflow it while a request is done
  and not collected. The proofs cover every ring and number of reports.
* Devices: two clients are the least that can meet, inside HIDAPI or with one
  device open; two paths let a client hold one device while another goes, or be
  about to open one while another is listed. The proofs cover any
  number of either. A path comes and goes once, a client may open and close any
  number of times. Paths are interchangeable, hence the symmetry.
* Clients: three interfaces give a mouse before, after and between others, and none.
  The proofs cover any number.

Deadlock checking is off where the system may stop: no more reports arrive, the
time has reached its bound, the device has been closed, or the program has ended.
In `decoder` it is on.

What the runs show, property by property:

* `NoDanglingRunMark`: the stale-frame test looks at `buf_index` alone. It is
  sound because a run mark is never left pending over an empty image at a report
  boundary: nybbles are consumed in pairs.
* `SingleTimestamp`, `OnlyEqualStampsMerge`: no image is made of frames whose
  timestamps differ. Frames whose 8-bit timestamps coincide can be merged if the
  end of one and the start of the other are lost; the code cannot tell.
* `ReadInBuffer`: the loop ends inside the buffer whatever the length byte says.
* `ImplementsDelivery`: without loss, every image is delivered once, unchanged, in
  order and eventually, even with equal timestamps in succession.
* `IntactFrameDelivered`: a frame that arrives whole is delivered unchanged, once, in
  an image made of nothing else, unless an earlier frame with its timestamp lost a
  report.
* `AccessesInBounds`, `LayoutIsReadingOrder`: 181 pixels fill exactly the drawn
  cells in reading order, and the table rounds to nearest.
* `InTime`: a call with a timeout is at most four code delays late, however many
  reports restart its wait. `NotEarly`: it returns empty-handed only after its
  timeout. `NonblockingReturns`: a call with a timeout never waits without a
  bound. The three exempt a call that used a failed reading (`failed`) or during
  which the timer jumped or wrapped (`ClockKeepsTime`), and only those: they hold of
  the calls before, between and after the overflows, and `clock_overflow` shows
  that `WithinTimeout`, which is `InTime` without its condition on the timer, does
  not hold. `EndsWithImage`: a call with a negative timeout returns with an image
  or an error, also when the timer fails, jumps or wraps, unless a reading is the
  largest number, 2^64 - 1, which is its deadline.
* `ImplementsQueue` (Linux, Mac): what the client may count on of the report list:
  order, no duplicate, no gap but by overflow, and never the newest report.
* `NoLostWakeup`: no sleeper beside a queued report, although the callback of
  Linux signals only when the list was empty; on Mac, no more queued reports than
  readers awake to take them.
* `OpenHasTransfer`: the barrier orders the allocation of `dev->transfer` before
  its use in `hid_close()`.
* `TransferFreedIdle`, `NoUseAfterFree`: what `hid_close()` frees is out of use.
* `CloseReturns`: `hid_close()` ends, although its cancellation may hit the gap
  between two submissions. `DisconnectEndsReads`: blocked readers return when the
  device goes. `DisconnectNoticed`: the flag every read tests is set. On Linux
  they are conditional: the read thread must be told, see
  [fairness](#fairness).
* `AllOrNothing`: `hid_open_path()` gives a complete device or leaves nothing
  behind, whichever step fails and whatever another thread or the device does in
  between; so does `hid_close()`. `OpenedOnce`: no device is open twice, where a
  comment claims it. `ListsAttached`: a device attached throughout an enumeration
  is in the list. `RemovalMarked`: every open Mac device that went is marked.
* `RunLoopValid`: the barriers order the creation of the run loop, its use by
  `hid_close()` and the removal callback, and the end of its thread.
  `NoCloseWhenGone`: a device known to be gone is not closed.
* `RequestTracked`: between calls `read_pending` says whether there is a request, and
  a signalled event is the end of this request. `EachReportOnce`: calls that time
  out lose and repeat nothing. `NothingPendingWhenFreed`, `Releases`,
  `UnplugEndsReads`: closing, failing to open, unplugging.
* `InfosOwnList`, `OpensRequestedMouse`: the clients and the shared list.
  `ModeRestored`: the mode is restored unless a call failed, and no failed or short
  transfer, nor any sequence of them, ever changes the other 26 bytes.

### Fairness

`FairPipeSpec`: weak fairness of `Receive` and `DecodeStep`, that is, the client
keeps calling. Nothing is assumed of the mouse.

`HidLinux!Fairness`: weak fairness of the steps of the read thread, of the
callback, of `hid_close()` once begun, of the barrier, of readers that have been
woken and of the timed wait: the scheduler runs every runnable thread. Weak
fairness of `LoseDevice`: libusb reports a transfer whose device is gone. None of:
`EventsReturn` (the proof obligation of `CloseReturns` is that `hid_close()` does
not rely on the 60-second timeout inside `libusb_handle_events()`),
`CompleteTransfer` (the mouse may be silent; the 5000 ms timeout of the transfer
is not relied on either), `Unplug`, `Open`, `CloseBegin`, `ReadBegin`. Mutexes need
no fairness of their own because critical sections are atomic and always
enabled, so weak fairness of the action is that of the thread.

Without the 60 seconds the liveness of Linux has limits, which `ThreadIsTold`
names. If the device goes while no transfer is submitted (`unplug_anytime`) or its
callback runs on another device's thread (`shared_context`), nothing wakes the
thread of this device, and `hid_close()` may take a minute. If event handling
fails (`event_errors`) the thread has ended, so `hid_close()` returns, but no flag
was set for the reader.

`HidMac!Fairness`: the same for its threads, and `RunTimesOut`: a run of the run
loop ends after its 1000 seconds. That is what ends the reads after a removal whose
stop was lost; without it `DisconnectEndsReads` fails. Nothing is assumed of
`Removal`, whose run loop belongs to the client. `SpuriousWake` is never fair.

`HidWindows!Fairness`: the kernel ends the request of a device that is gone, and a
call whose wait or result is due goes on. `Clients` has no liveness: its programs
wait for a user.

## Proofs

Eight modules hold theorems: `DecoderProofs`, `FramePipelineProofs`,
`ProcessEventsProofs`, `HidLinuxProofs`, `HidMacProofs`, `HidWindowsProofs`,
`HidDevicesProofs` and `ClientsProofs`. `tlapm` checks each for all values of the
constants that satisfy the named assumptions. Each begins with an inductive
invariant, `IInv` (in the pipeline `PipeIInv` and `FrameIInv`): a conjunction of
named parts, checked by TLC on the instances of the runs and proved by one lemma per
action or per group of actions; the theorems about single properties follow from it.

Two modules, `ClientsProofs` and `FramePipelineProofs`, need induction over data.
They do it without an induction theorem,
from the fact that < is well-founded on the natural numbers: if a statement fails
for some number, there is a least one for which it fails (`UpToBound`,
`EveryNumber`). `FixedPoint` shows in the same way that a recursive function
satisfies its own definition.

### Decoder

Assumptions: `DecoderAssumption` (sizes are positive, a run is at least two
pixels, 0 is a timestamp because the structure is allocated zeroed) and
`BufferAssumption` (twice the data bytes of the buffer exceed the pixels; 498 and 181
in the code). `IInv` is inductive; the argument:

1. Every nybble that is not rejected advances `Progress`, the write index plus one
   for a pending run mark (`NybbleAdvances`). That needs `MinRun >= 2`: a run
   consumes its mark's share and must advance by more than one. Hence
   `ConsumedBound`: the nybbles consumed from the current report never exceed the
   progress. Progress is below `ImageLen + 1`, so with `BufferAssumption` the read
   stays in the buffer (`ReadInBufferHolds`).
2. `PairwiseRun`: when a low nybble is due, an empty image has no pending mark. A
   mark on an empty image can only be a low nybble's and is resolved by the high
   nybble of the same byte, which the loop consumes before it tests its bound.
   That gives `NoDanglingRunMarkHolds`, and makes the stale-frame test exact.
3. `OneOrigin`: the held nybbles carry the timestamp in progress. Preserved by
   `BeginReport` because of 2. It gives `SingleTimestampHolds`.

`ReadInBuffer` and `NoDanglingRunMark` are not inductive by themselves; 1 and 2 are
what strengthens them.

### Frame pipeline

Assumption: `PipelineAssumption` (images are images, and the data of a report fit
its length byte), besides those of `Decoder`.

1. What the mouse sends (`TransmissionsTyped`). The encodings of the last `r` pixels
   are made from those of fewer, the cuts of the first `b` bytes from those of
   fewer; both are recursive functions. `FixedPoint` gives that they exist,
   `EveryNumber` that every encoding is a sequence of nybbles and every cut a
   sequence of data that fits in reports (`EncodingsTyped`, `CutsTyped`).
2. `PipeIInv`: a report on its way carries the timestamp of the frame it is from
   (`Stamped`), the loop runs over the data of the report received last (`Decoding`),
   and what the decoder holds is from frames with the timestamp in progress
   (`HeldTogether`). The last one is inductive only together with `IInv` of the
   decoder: a report with another timestamp drops what is held unless the image is
   empty, and then, by `PairwiseRun`, nothing is held.
3. From 1 and 2 every step of the pipeline is a step of `Decoder` or leaves it
   alone (`ImplementsDecoder`), so that the theorems of `DecoderProofs` hold of it;
   and `OnlyEqualStampsMergeHolds`, whatever is lost.
4. What one nybble does (`FirstOfCompletion`). `Completions` are the nybble sequences
   that take a partly decoded image to its end. The first nybble of one is a
   pixel, a run mark or the length of a run, whichever `process_nybble()` takes it
   for, never an error, and the rest is a completion of what has then been decoded.
   After the last pixel nothing is left but a padding nybble.
5. What is on its way. `Laid` places the nybbles of a frame in the reports of the
   queue, counted in bytes from the end, so that appending other frames, losing the
   oldest report and decoding a nybble are one lemma each (`OthersJoin`, `OldestOut`,
   `OneDecoded`). `CutsCover` is the induction over cuts: the reports of a captured
   frame carry exactly one of its encodings (`TransmissionQueued`).
6. `FrameIInv`: an intact frame is `Done` (nothing of it is on its way or held, and it
   was delivered once and alone) or `Coming` (nothing of it has been delivered, and
   the nybbles on their way complete what is held of it). It is inductive only together
   with `InSequence` (frames leave the queue in order of capture), and hard at two
   steps:
   * The first report of an intact frame must find an empty decoder (`NothingHeld`).
     A frame with another timestamp is dropped as stale. One with the same
     timestamp is earlier and, by the definition of `Intact`, intact itself; it still
     has a report in the queue, which is before this one.
   * The callback must come with the last report (`AllReceived`): if the image is
     complete, at most a padding nybble is left, and every report has at least two
     nybbles.

   A frame that is neither waiting nor being decoded is not `Coming`
   (`SomethingToCome`), so it is `Done`: `IntactFrameDeliveredHolds`.
7. `InOrder`: until the first loss the callbacks are the frames 1, 2, 3 and so on. The
   frame whose last nybble is decoded is the next one, since an earlier one that
   were still coming would be before it in the queue (`NextInOrder`).
   `InOrderUntilLoss` holds however many reports are lost afterwards. With
   `MaxLost = 0`, the hypothesis of `DeliveryHolds` and the setting of run
   `lossless_delivery`, every step is `Capture`, `Deliver` or a stutter of
   `FrameDelivery`.

### Event processing

Assumption: `ProcessEventsAssumption` (positive widths, units and divisors,
timeouts of type `int`). It does not bound the time: the timer may fail and
overflow anywhere, with any divisor. `IInv` (types, `Underway`, `Unlimited`) needs
nothing else and gives `EndsWithImageHolds`: without a timeout the deadline is the
largest value of the timer.

The bounds on calls with a timeout hold under `CallsInRange`, which says what a
client must keep to: the product fits `int`, on
Windows the timeout is not shorter than the time between two readings; and
`LateReadsPoll`, a relation between the widths that the code's numbers satisfy (the
difference wraps to 2^64 less some nanoseconds; in milliseconds and as an `int`
that is about -140 million). They hold of a call during which the timer works
(`ClockWorks`): no reading has failed, and from the call to four delays after its
timeout readings grow as time does. Such a call may lie between two overflows, so
its readings are not times: they are ahead by `Lead`, what the timer is ahead when
the call is made (`TimeRead`). `Punctual` says for each step how far time, deadline
and reading may be apart, with `Lead` taken off; `OnTime` says that it holds while
the timer works. The argument:

* `WorkedBefore`: within a call `ClockWorks` is only ever lost, so a step may assume
  it of its first state if it has it in its second.
* `DeadlineSet`: the deadline is the timeout after the reading of `SetDeadline`,
  without overflow: the product is exact (`ProductExact`), and the sum is the
  reading the timer would give at the deadline.
* `FirstReadingOnTime`: the first reading may lie after the deadline, by one delay,
  and then only on Linux and Mac, where such a read polls (`LateReadPolls`); on
  Windows it would block.
* `ReadOnTime`: a read in time is given at most the time left (`TimeLeft`: division
  rounds down), so it ends within a delay of the deadline.
* `TestOnTime`: the loop goes on only with a reading before the deadline, so delays
  do not add up over rounds. Hence `InTimeHolds`, four delays after the timeout at
  most, `NotEarlyHolds` and `NonblockingReturnsHolds`.

### Linux backend

Assumption: `HidLinuxAssumption` (naturals, and `FaultSets` are sets of the
named faults). `IInv` has two parts that the proof treats apart.

* The queue. Every step of the system is a `QueueStep`: nothing, append (after
  dropping the first if too long), take the first, or empty. `QueueStepInv` proves
  that each keeps `QueueIsLatest`, `QueueBounded` and `ReadBehind` (what was read is
  older than what is queued). `ReadsInOrderHolds` and `UnreadDropsHolds` follow
  from the same case split, and so does `ImplementsQueueHolds`, the refinement:
  nothing is a stutter, append is `Arrive`, taking is `Take`, emptying `Discard`. It
  needs the invariant in one place: the code drops a report after it appended one
  and tests the length it found before, which is the full queue of `ReportQueue`
  only because `QueueBounded` holds.
* The threads and the transfer. `CallbackOwnsTransfer`: a running callback has the
  transfer to itself. `Startup`: the program counters around the barrier, which
  gives `OpenHasTransferHolds`. `Shutdown`: in step `"drain"` the transfer is
  cancelled and not yet reported, and once the thread has passed it libusb does not
  own the transfer. `Closing`: after the join the read thread is done. The last two
  give `TransferFreedIdleHolds` and, with `ClosedBetweenReads`, `NoUseAfterFreeHolds`.

`NoLostWakeupHolds` is proved for one reader, from the type invariant alone plus
itself: the signal of an empty queue reaches the only sleeper.

### Mac backend

Assumption: `HidMacAssumption` (naturals, named faults, finitely many readers).

* The queue as on Linux: `QueueInv`, one lemma per way to change it, and
  `ImplementsQueueHolds`, under every fault.
* `NoLostWakeupHolds`, for any number of readers: it relates two cardinalities, of
  queued reports and of readers awake, and every step moves at most one of each or
  wakes all. The callback of Mac signals for each report, hence no reader limit as on
  Linux.
* `Meeting` and `Parting` say how far owner and read thread are with each barrier:
  it counts one exactly while one of them has passed its arrival. `BarriersHold`
  leaves out interrupted waits; what does not depend on it holds under every fault.
  `hid_close()` reaches its frees only after the join, so `NoUseAfterFreeHolds` needs
  no barrier.
* `RunLoopSet` and `Ending` give `RunLoopValidHolds`: until `hid_close()` has begun
  the thread leaves its loop only on a device that is marked as gone, and then waits
  at the second barrier for the owner.
* `NoCloseWhenGone` is part of the invariant as it stands.

### Windows backend

Assumption: `HidWindowsAssumption` (a ring of at least one report).

* `HeldByStep`: what the structure owns at each step of opening and closing; it
  gives `ReleasesHolds`.
* `CallsTracked` and `Cancelled`: `read_pending`, the event and the request agree
  outside `hid_close()`, a set event means an ended request. Strengthening
  `RequestTracked` was needed where a blocking call leaves the event set behind.
* `ReportsInOrder` and `ReportsSomewhere`: what was returned is older than the
  buffer, the buffer older than the ring, and each report that arrived is in one of
  them or was discarded. `EachReportOnceHolds` follows by counting neither: order
  gives "once", places give "each".

### Opening and closing

Assumption: `DeviceAccessAssumption` (no path is `None`; backends and circumstances
are named ones). All four properties of run `devices` are proved for any number
of threads and paths, on each backend and under every set of circumstances.
`IInv` is inductive; its parts:

* `HeldByStep` says exactly what a client holds at each of its steps, per backend
  (`LinuxHeld`, `MacHeld`, `WindowsHeld`); one case per action. `AllOrNothingHolds`
  is what it says of the steps `"open"` and `"idle"`.
* `ClaimedOnce`, because libusb refuses a second claim, gives `OpenedOnceHolds` on
  Linux. On Windows it comes from `ExclusiveAlone`: with one thread at a time and
  no other program, no handle is ever shared. That is inductive only with the
  reason why the second attempt of `open_device()` fails as the first did: the
  device is gone, or another client has it for itself, and meanwhile the others
  rest (`TakeTurns`). `AloneStep` reduces each step to what its own client changes.
* `Watched`: the manager of Mac tells of every removal that an open device is to
  learn of. It gives `RemovalMarkedHolds`.
* `Found`: an enumeration of Windows has each attached path in its list, in hand,
  before it, or open in this program. It gives `ListsAttachedHolds`, the action
  property, of which the other backends need a single step.

### Clients

Assumptions: `SessionAssumption`, `ClientsAssumption` (natural numbers of interfaces
and of the index asked for).

* `PassByPass`: the list after each pass of the loop follows from the one before.
  `TouchMiceInPlace`, by induction over the passes: each element of the list is a
  touch interface, at the place that counts those before it. With `OpenedFromList`
  it gives `OpensRequestedMouseHolds`.
* `ListByStep`: at which steps of a program infos exist. It gives
  `InfosOwnListHolds`.
* `SettingsKept` and `ModeByStep`: what is in the buffer when it is written, and the
  mode at each step as long as no call failed. They give `ModeRestoredHolds`.

### Only model-checked

* Liveness and everything under fairness: `CloseReturns`, `DisconnectEndsReads`,
  `DisconnectNoticed`, `UnplugEndsReads`, the liveness part of `ImplementsDelivery`.
  The provers do not reach it. (The safety part is `DeliveryHolds`.)
* `AccessesInBounds` and `LayoutIsReadingOrder`: `ImageLayout` has no parameters and
  its run is exhaustive, so a proof would add nothing.
* The two runs that must be violated.

## Where the code and its documentation disagree

Shown by a run that TLC must find violated:

* `timeout_overflow`: `milliseconds * 1000000` overflows `int` from 2148 ms on; the
  call returns at once (or far too late).
* `clock_overflow`: the product in the timer of Windows overflows. A call that takes
  its deadline before that and its first reading after it gives
  `hid_read_timeout()` the wrapped difference, about 2^64 / frequency
  nanoseconds (1844 seconds at 10 MHz), in place of its timeout.

Met while modelling, and represented in the models as exemptions of a property:

* Other ways in which the overflow of the timer shows, which `ClockKeepsTime`
  exempts: a later reading after the jump is beyond the deadline, and the call
  returns before its timeout. Where the timer wraps through 0, a deadline before the
  wrap is almost 2^64 and a reading after it small: the timeout of the next read
  narrows to a negative number, with which Windows blocks forever. A deadline beyond
  the wrap is small on Windows, and any reading before the wrap ends the call. On
  Mac a call that straddles the wrap waits as long as the timer takes to come
  round again. Between jump and wrap all is well.
* A failed reading (`failed`): as the first one it puts the deadline of a positive
  timeout in the past. The code tests `deadline == 0`, which only the timeout 0 meets,
  although its message says "timer function returned an error, erroring out since
  we have no timer"; the call goes on. A failed reading at the end of a round,
  which nothing tests, makes the next wait as long as the uptime.
* With timeout 0 on Windows the remaining time wraps to a negative number, which
  blocks there: `GoodCalls` leaves it out.
* A call with timeout 0 reads one report and returns, even if the other reports of
  the image are waiting.
* The report lists hold up to 32 reports, their comments say 30:
  `QueueBounded` allows the two.
* A negative timeout is not passed on as -1. The quotient of the unbounded
  deadline becomes an `int` below -1, so Linux and Mac poll in a loop instead of
  blocking, until (after 23 days of uptime) it turns positive. `EndsWithImage`
  holds because the loop repeats, but for a reading of 2^64 - 1, which the
  truncated quotient of Windows can take just before it wraps.
* `unplug_anytime`: the results of the first submission (hid-libusb.c line 697) and
  of the resubmission (673) are ignored. If the device is gone by then, nothing is
  in flight that could report it, and reads go on finding a connected device.
* `event_errors`: if `libusb_handle_events()` fails for good, `read_thread()` ends
  without setting `shutdown_thread`; the reader it wakes goes back to sleep.
* `cancel_refused`: `hid_close()` and `read_thread()` both cancel. If the second
  cancellation is refused, the thread does not wait for the first to complete,
  and `hid_close()` frees a transfer libusb still owns.
* `shared_context`: the single `libusb_handle_events(NULL)` after the cancellation
  may return for another device of the default context; same consequence.
* `close_during_read`: `hid_close()` waits for the read thread, not for the readers
  that thread wakes; they lock a mutex that is destroyed.
* `unplug_anytime`, `shared_context`: `hid_close()` may take until
  `libusb_handle_events()` gives up after a minute.
* `spurious_wakeups`: the barrier of the Mac backend does not wait in a loop.
* `off_main`: a removal while another thread opens or closes finds no run loop, or
  marks the device between the test and the call of `IOHIDDeviceClose()`.
* `other_device`, and `disturbed` in `RemovalMarked`: closing one device stops
  removals from being noticed for all, until one is opened again.
* On Mac, a normal close calls `IOHIDDeviceClose()` twice, from the read thread and
  from `hid_close()`.
* `slow_cancel`, `other_thread`: `hid_close()` of Windows frees the buffer without
  waiting for the request to end.
* On Windows a device can be opened twice, although `open_device()` tries without
  sharing first so "that a HID device can only be opened once. This is to be
  consistent with the behavior on the other platforms". Without any other
  program: one thread's first attempt fails because another thread's enumeration
  has the device open for a moment, its second attempt shares the device, and so
  does a later open. On Mac nothing keeps a device from being opened twice; on
  Linux the claim does. `OpenedOnce` exempts these cases.
* `hid_enumerate()` of Windows leaves out devices that this program has open, and
  those another thread opens at the time, although `hidapi.h` says it returns
  "all the HID devices attached to the system" that match (`ListsAttached`).
* On Linux an interface with two alternate settings of HID class makes
  `hid_open_path()` return NULL with the first of them open, claimed and read by a
  running thread whose structure has been freed (`AllOrNothing` exempts it).
* On Linux the kernel driver that was detached is never attached again, neither
  by a failed `hid_open_path()` nor by `hid_close()` (`driver` only shrinks).
* A device that was unplugged may leave its path to another one. A path taken
  from a list then opens the other device, as nothing but the path is compared;
  in the models paths do not return.
* `touchmouse_set_device_mode()` is said to set "two bits" of the feature report;
  it overwrites the whole byte.
* A failed `hid_open_path()` of Windows keeps the event and the error message.
* qtview without a mouse opens through a null pointer (`QtOpensNull`).

## What is not modelled

* Logging, strings, locales and serial numbers: no state a property is about. The
  logging loop of `touchmouse.c` line 392 does evaluate `data[t]` beyond the buffer;
  it is listed as a hazard.
* Writes and strings of the backends: single calls without state, but for the
  error message on Windows. The fields of the elements `hid_enumerate()` lists:
  paths in `HidDevices`, their ownership in `Session`. The test of a serial number
  in `hid_open()`.
* `hid_init()`, `hid_exit()`: the global context, set once and cleared at the end;
  `hidapi.h` asks to call them so when threads open devices simultaneously.
* `set_nonblocking`, callback and user data of a device: fields that are assigned
  before the first read and do not change.
* Allocation failures: the code does not test for them.
* The wall clock: `pthread_cond_timedwait()` uses CLOCK_REALTIME; the models have
  one clock.
* `qtview`'s drawing; `mousethread.*`, which is not part of the build.
* Everything listed in the plan below.

## Plan

Done, in this order: `Decoder` and its proofs; `FrameDelivery` and
`FramePipeline`; `ImageLayout`; `ProcessEvents`; `HidLinux` and its proofs; `HidMac`;
`HidWindows`; `Session` and `Clients`; `ReportQueue` with the refinement by
`HidLinux`, proved, and by `HidMac`; `DeviceAccess` with its three backends and
`HidDevices`, with proofs; the rest of the feature report in `Session`; the proofs
of `HidWindows`, `HidMac`, `Clients`, `ProcessEvents` and `FramePipeline`, of the
last also that decoding undoes encoding.

Next: `ReportQueue` in place of the channel of `FramePipeline`, so that a loss is an
overflow.
