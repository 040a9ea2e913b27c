# TLA+ models of kcamera

This directory models the concurrent core of the kcamera Python extensions (`src/`):
- the capture thread that libcamera drives;
- the Python threads that call into the library;
- the recording list that one of them fills and others read;
- the request cycle between libcamera's completion thread and the capture loop (`libcamera_app.hpp`);
- the `kencoder` extension, which hands frames to the V4L2 H.264 codec through a poll thread.

Every module is translated from the C/C++ source, and each definition's lines are listed in `PROJECT.json` under `"map"`.

## The system

- **Capture lifecycle** (`src/kcamera.c`, `src/run.cpp`).
  - `kcStart` takes `m_paramsMutex`, spins while `m_stopping` is set, resets the frame state under `m_frameMutex` and `pthread_create`s `vidThread`.
  - `vidThread` runs `kcStartCameraLoop` and `event_loop`: open the camera, then call `kcFrameData` for every frame while `run` holds, then `kcStopped`.
  - `kcStopInternal(join, signal)` clears `run` and `m_run`. With `signal` it also wakes one waiter on `m_cond`, frees the live frame and detaches the recording. It then joins the thread or sets `m_stopping`.
  - It is called from three places:
    - `kcStop`, as `(1, 1)`;
    - the restart in `kcUpdateParams`, as `(1, 0)`;
    - the capture thread itself, as `(0, 1)`, on the 5 s frame timeout or a failed frame `malloc`.
- **Request cycle** (`src/libcamera_app.hpp`, `event_loop` in `src/run.cpp`).
  - `StartCamera` makes one `Request` per buffer set (`makeRequests`), starts the camera and queues every request.
  - libcamera calls `requestComplete` on its own thread for each completed request. It pushes the request to `free_requests_` and posts the buffers to `msg_queue_`.
  - `event_loop` moves pending controls into `controls_` (`SetControls`), waits on `msg_queue_`, hands the frame to `kcFrameData`, and calls `QueueRequest`. That pops a free request, gives it the buffers and `controls_`, and queues it.
  - The loop tests `run` only at its head. Once `run` is false it calls `StopCamera`, which cancels the queued requests and clears the queues, and then `kcStopped`.
  - The Python setters (`kcSetBrightness` ... `kcSetAutoShutter`) write `_controls` under `controls_mutex`.
- **Live mailbox.** `kcFrameData` publishes a copy of the frame in `g_state.m_frame` when it is empty and signals `m_cond`. `kcNextStreamFrame` takes it, releasing the GIL while it waits.
- **Recording.**
  - `camera.record()` (`camera_record`) stops any active recording, makes a new `FrameList` the active one (`kcStartRecord`), calls `kcStart`, and then creates the record streamer, whose `streamer_init` takes `kcGetRecord()`.
  - `kcFrameData` appends to the active list. It detaches the list (`kcStopRecord`) when one of these happens: the duration is reached, `memfree()` falls below the memory reserve, or `malloc` fails.
  - The record streamer reads the list: `streamer_frame` waits in `kcWaitNextRecordFrame`, then calls `flistNext`. It can also seek, and it reports `streamer_progress` and `streamer_time`.
  - A live `streamer.frame()` during a recording waits in `kcWaitLastRecordFrame` and copies the list's last frame.
- **FrameList** (`src/framelist.c`): a singly linked list with a read cursor (`m_readNode`, a pointer to a `m_next` field). `flistAppend` implements:
  - a delayed start (positive `start_shift`: keep one preview frame until the shift has passed);
  - a pre-roll (negative `start_shift`: trim the head to the window);
  - a duration.

  `streamer_dealloc` of the record streamer frees the list with `flistClear`.
- **kencoder** (`src/kencoder`).
  - `encoder.encode()` queues a frame with `keEncodeIn`. It then releases the GIL and waits in `H264Encoder::GetOutput` for the encoded buffer. With the GIL back, it checks the buffer and returns the capture buffer to the codec with `OutputDone`.
  - The poll thread dequeues finished input and capture buffers into `input_buffers_available_` and `output_queue_`.
  - Setting `resolution` restarts the encoder (`keExit`: delete `g_encoder`, joining the poll thread; then `keInit`), all under the GIL.

## Modules

| Module | Models | State | Actions |
|---|---|---|---|
| `RecordWindow` | what a recording holds, as a sequence of pts | the frames, the recording status, the first pts, shift, duration, whether it is the active record | `Deliver` (one frame offered: wait, pre-roll trim, duration, malloc failure, memory reserve), `Stop`, `Start`, `SetShift`, `SetDuration` |
| `FrameList` | `framelist.c` and the streamer calls on one list | the list's fields; a heap of nodes indexed by allocation, where freed nodes stay in the heap but leave `live`; the capture clock `pts`; whether the list is the active record; whether the streamer has been deallocated | `CaptureFrame` (`kcFrameData`: `flistAppend`, the memory-reserve check, `kcStopRecord`), `Seek`, `ReadFrame` (`streamer_frame`: `kcWaitNextRecordFrame`, `flistNext`), `StreamerStart`, `StopRecord`, `SetStartShift`, `SetDuration`, `streamer_dealloc` |
| `KCamera` | `kcamera.c`, `run.cpp`, the calls of `streamer.c` and `kcameramodule.c` | a `pc` per thread; the owners of `paramsMutex` and the GIL; the waiters on `m_cond`; `g_state` (`m_run`, `m_stopping`, `m_frame` as an age, `m_record`, `m_thread`, `m_frameTimer`); recordings as length and `m_recording`; `run`, `app`, the camera's holder, the joined threads; the list each `camera.record()` streamer took | one action per atomic section of each function (`Ns*` = `kcNextStreamFrame`, `Lr*` = `kcWaitLastRecordFrame`, `Ks*` = `kcStart`, `Si*` = `kcStopInternal`, `Up*` = `kcUpdateParams`, `Rc*` = `camera_record`, `C*` = capture thread) |
| `KEncoder` | `kencodermodule.c`, `kencoder/run.cpp`, `h264_encoder.cpp` | a `pc` per Python thread, the item each holds, the object's `m_count` and bitrate; `g_encoder` as an instance number; that instance's `abort_`, poll-thread position and buffer counts (free input buffers, frames queued at the codec, empty, encoded and dequeued capture buffers) | `New`, `Encode`, `GetOutput`, `Finish` (the rest of `encode()` after the GIL is back), `SetAttrBitrate`, `SetAttrResolution`, `Dealloc`, `JoinDone` (the poll thread joined, then `keInit` or null); `PollExit`, `PollWait`, `PollTimeout`, `PollReady`; `CodecEncode` (the device) |
| `LibcameraApp` | `libcamera_app.hpp`'s request cycle, `event_loop`, `kcStopCameraLoop` and the control setters of `run.cpp` | the capture thread's position (set-up, loop, destructor); `run`; `camera_acquired_`; whether the configuration and mapped buffers exist; `camera_started_`; the requests queued to the camera with their buffers and controls; `free_requests_`; `msg_queue_`; the buffer the loop holds; `_controls` and `controls_` as the newest control version each holds; the newest version the camera applied | `OpenCamera`, `ConfigureVideo` (with `setupCapture`), `StartCamera` (each may throw part way), `requestComplete`, `SetControls`, `Wait`, `QueueRequest`, `FrameThrows` (the throws between them), `LeaveLoop` (`StopCamera`, `kcStopped`), the destructor's `DtorStop`, `Teardown` and `CloseCamera`, `KcSetControl`, `kcStopCameraLoop` |
| `MC_FrameList`, `MC_KCamera`, `MC_KEncoder`, `MC_LibcameraApp` | constants for TLC | | |

**FrameList.** A section under `m_mutex` (or under the frame mutex that serialises the producer) is one step. Pointer and integer widths are kept:
- `m_t0` is an `int` of `IntBits` bits (`ToInt`);
- pts differences are unsigned 64-bit (`ToU64`);
- `flistTime` and the memory-reserve test compute in `unsigned int` (`ToUInt`).

`memfree()` reads `/proc/meminfo`; it is an input drawn from `MemFree` at every frame.

**RecordWindow and the refinement.** `RecordWindow` says what the list should hold, without nodes, pointers or widths. `FrameList` instantiates it: the frames are the pts along the `m_len` nodes from `m_front`, and `t0` is the first frame appended, a history variable. `RefinesWindow` (the abstract `WSpec` as a `PROPERTY`) is checked in both passing FrameList runs. It includes malloc failures and the memory-reserve stop.

**KCamera.** The data is abstracted and all of the control is kept.
- A section under `m_frameMutex` is one atomic step.
- `paramsMutex` and the GIL are held across steps, so they are variables holding the owner.
- `pthread_cond_signal` removes one member of `waiters`, and a woken thread re-tests its loop condition in its own later step, as the code does.
- `kcStopInternal` is one shared sequence of actions. The record `call[t]` holds its arguments and the return point, so a Python caller and the capture thread run the same steps.
- A `pthread_t` is a member of `Captures`, reusable once joined.
- A recording in `KCamera` has start shift 0, so its list is its length; `FrameList` models the shifts.

**LibcameraApp.** Each function body is one step. The queues are only touched under their own mutexes (`free_requests_mutex_`, the message queue's mutex, `control_mutex_`, `controls_mutex`). `camera_->stop()` returns only after every queued request came back cancelled, so `StopCamera` is one step too. The destructor's three calls are separate steps, because libcamera's thread may complete a request between them. An exception from a set-up step is a nondeterministic choice in that step, taken at the point where it throws: `StartCamera` can throw before `camera_->start`, or after queueing any number of the requests. A buffer set is a number, and so is a request. The camera completes its requests in queue order. A control update is a version number, because `ControlList::set` of a newer value replaces the older one. The model covers one `kcStartCameraLoop`; restarts are `KCamera`'s.

**KEncoder.**
- Everything a Python thread does under the GIL is one step.
- `encode()` is split at its `Py_BEGIN_ALLOW_THREADS`: `Encode` before, `GetOutput` while the GIL is free, and `Finish` after.
- A restart or dealloc holds the GIL while `~H264Encoder` joins the poll thread, so no other Python thread moves meanwhile (`GilFree`).
- Buffers are counted, not named, and a frame is its timestamp. An item remembers the encoder instance it came from, so a use of a deleted encoder is visible.
- A fault (`segv` or `terminate`) stops the model.

## Runs

| Run | Expect | Shows |
|---|---|---|
| `framelist_noshift` | pass | Without a start shift, and with node malloc failures and the memory reserve. `ListIntact`: the chain of `m_len` live nodes from `m_front` ends at `m_back`, its pts never decrease, and no node leaks. `RefinesWindow`: the list implements `RecordWindow`. `CursorConsistent`: the cursor is valid and `m_readIndex` counts the nodes before it, after reads, seeks, appends and the detach. |
| `framelist_shift` | pass | `ListIntact` and `RefinesWindow` with pre-roll, delayed start and `setAttr` moving between them: the trim loop, the keep-one free and the first-frame `m_t0` keep and drop the same frames as the window. |
| `framelist_cursor_uaf` | violation of `CursorValid` | The keep-one-frame free (`framelist.c:63`) frees the node the reader's cursor points into. |
| `framelist_t0_overflow` | violation of `ActivationAfterShift` | `int m_t0` truncates a large pts, and the delayed start activates at once. |
| `kcamera_full` | pass | Covers every call except `camera.record()` while streaming (`RecordWhileRunning = FALSE`), plus the timeout, `malloc` failure and the memory reserve. `OneFrameProducer`: at most one capture thread is in `event_loop`. `kcStop` and the restart of `kcUpdateParams` join the old thread. After the capture thread's own timeout or malloc-failure stop, `kcStart` spins on `m_stopping` until that thread's `kcStopped`. The mutant drops the spin. With `record()` while streaming, the property fails (hazard `kcameramodule.c:129`). |
| `kcamera_lost_stop` | violation of `StopJoinReturns` | `run = false` before the new thread's `run = true` (`run.cpp:82`), so `pthread_join` hangs. |
| `kcamera_stop_deadlock` | violation of `NoWaitCycle` | The join under `paramsMutex` against the capture thread's timeout stop, which waits for `paramsMutex`. |
| `kcamera_restart_race` | violation of `CameraHandover` | `kcStopped` comes before the camera release, so the next thread's `OpenCamera` fails. |
| `kcamera_record_segv` | violation of `NoNullDereference` | `kcWaitLastRecordFrame` re-reads `g_state.m_record` after the capture thread detached it. |
| `libcamera_loop` | pass | One `kcStartCameraLoop` with 3 buffer sets, up to two control updates from Python, and `kcStopCameraLoop` at any point. `BuffersCirculate`: while the camera runs, every buffer set is in exactly one place (at the camera, posted, or held by the loop), every request is queued or free, and there is a free request for each buffer set out of the camera, so `QueueRequest` never drops buffers. `LoopExits`: after `kcStopCameraLoop` the loop reaches `kcStopped`, although it tests `run` only after `Wait` returns. `ControlsReachCamera`: a control set while the camera runs reaches it in a later request, unless the loop stops first. `CameraLifecycle`: on the normal exit and after a throw from any set-up step or from the loop, requests are at the camera only while it is acquired and its buffers are mapped (the destructor stops the camera before `Teardown`), and nothing is left acquired, mapped or running when `kcStartCameraLoop` returns. |
| `kencoder_encode` | pass | One thread encodes, restarts and drops the encoder while another changes the bitrate. `EncodeReturns`: every `encode()` blocked in `GetOutput` returns. |
| `kencoder_resize_uaf` | violation of `NoFreedEncoderUse` | A resolution change from another thread deletes the `H264Encoder` while `encode()` waits on its condition variable (`run.cpp:79`). |

Each property of a passing run has a mutant in `PROJECT.json`: a plausible bug in a mapped definition that TLC finds.

Some hazards in `PROJECT.json` were confirmed with TLC but have no run of their own, because of the limit on runs. Each one's note says which constants reproduce it. Examples:
- the double free in `flistClear` after a malloc failure that follows a keep-one free;
- a play progress above 100% after pre-roll trims (found while `streamer_progress` was modelled);
- two threads encoding at once;
- a failing `keInit` after a restart;
- `camera.record()` returning a live streamer;
- `camera.record()` while streaming creating a second capture thread (`OneFrameProducer` in `KCamera`);
- two consumers blocked on `m_cond`, of which a stop's single `pthread_cond_signal` wakes only one.

Run them with `tlc -workers 2 -config <run>.cfg MC_<Module>`.

## Bounds

**FrameList.**
- Up to 4 or 5 node allocations.
- pts steps of 0 to 2, up to `MaxPts` = 6 or 7.
- Shifts of -2, 0 and 2; durations of 0 and 3.
- `memfree()` of 0, 2 or 3 against a reserve of 1 in `framelist_noshift`. These values cover below the reserve (a stop), no use of it, and the unsigned wrap of `p0`. The other runs use 3 only.

That is enough for a list to be trimmed, to keep and free a preview frame, to reach its duration, and for a reader to be anywhere in it. The overflow run scales `int` to 3 bits and pts to 6 bits, so that the wrap happens within the clock's range.

**KCamera.**
- One consumer thread and one controller thread. With one consumer, a signal of `m_cond` always reaches the waiter, so no run says that a stop wakes every waiter: with two consumers it does not (hazard `other` at `kcamera.c:192`).
- Two `pthread_t` values: enough for a new capture thread to start while the old one exits.
- Two recordings of 2 frames.
- `max_latency` of one frame interval.

`kcamera_full` reaches about 10 million states in under two minutes.

**KEncoder.**
- Two Python threads.
- 2 input and 2 capture buffers, so that both queues can fill and empty.
- 3 frames per encoder object.
- 2 encoder instances, so that a restart happens and a second object can be created.
- `encode` from one thread only and `InitMayFail = FALSE`. Two encoding threads lose a capture buffer through the stale-frame return, and a failing `keInit` leaves `g_encoder` null. Both are hazards with notes. So the run states only that every `encode()` returns, not that buffers are conserved or that no fault occurs.

**LibcameraApp.** 3 buffer sets, so a completion can be posted while a second waits in `msg_queue_` and a third is at the camera; the queues then hand requests back in a different order from the buffers. There are the set-up's controls and two updates from Python. Every set-up step may fail, and `StartCamera` may fail after 0, 1 or 2 of its 3 requests are queued. `libcamera_loop` reaches 2234 states.

**Deadlock.** Every passing run except `libcamera_loop` has `CHECK_DEADLOCK FALSE`, for these reasons:
- in `kcamera_full` the code really deadlocks (`kcamera_stop_deadlock`), and a configuration whose `pthread_t` values are used up by never-joined, self-stopped threads also stops;
- a FrameList behaviour ends once the streamer is deallocated;
- a KEncoder behaviour ends once the bound on encoder instances is used up and the last one is dropped.

The invariants are still checked in every reachable state. `libcamera_loop` checks deadlock: its only final states are the returns of `kcStartCameraLoop` (`Returned`), after the destructor on every path.

## Fairness

**KCamera.** The liveness property `StopJoinReturns` assumes the following:
- **Weak fairness** for each thread inside a call. The OS keeps scheduling a runnable thread.
- **Weak fairness** for each capture thread. The camera keeps completing requests while started.
- **Strong fairness** for retaking the GIL (`NsGil`). CPython's forced switch interval hands the GIL to a waiting thread even though the holder keeps re-acquiring it.

Nothing obliges a user to call anything. The 5 s timeout is an action without fairness, because it may or may not expire.

**KEncoder.** `EncodeReturns` assumes the following:
- **Weak fairness** for the poll thread's steps, `GetOutput` and the poll-thread join. They are runnable threads.
- **Weak fairness** for the codec while it has a frame and an empty buffer.
- **Strong fairness** for `Finish`, which needs the GIL back, for the same reason as `NsGil`.

**LibcameraApp.** `LoopExits` and `ControlsReachCamera` assume the following:
- **Weak fairness** for each step of the capture thread. The OS keeps scheduling it.
- **Weak fairness** for `requestComplete` while requests are queued. The sensor keeps completing them while the camera runs. If it stalls, `Wait` blocks forever: the hazard at `run.cpp:60`.

The setters and `kcStopCameraLoop` are user calls without fairness.

## Not modelled

- `streamer_save` and `streamer_load`: file I/O.
- The getters `streamer_len`, `streamer_index`, `streamer_recording`, `streamer_progress` (with `kcRecordProgress`) and `streamer_time`. They change no state. In the runs where a range property over them holds, it only restates the code's clamp or the list's order. Where they go out of range is recorded in the hazards (`streamer.c:300`, `framelist.c:67`).
- The parameter values. Only the restart decision of `kcUpdateParams` is kept.
- `dobj.c`: a single `free`.
- In `kencoder`:
  - `parseArgs` and `getmodes`;
  - the `EINTR` retry of `xioctl`;
  - a `poll()` error, which throws from the poll thread;
  - the file descriptor and mappings a failing constructor leaks.
- From the vendored `libcamera_app.hpp`: option parsing, viewfinder and still configuration (never called), denoise, `Mmap` and `StreamDimensions`. These compute values and share no state. `setupCapture`'s allocations are one flag, cleared by `Teardown`. The framerate computed in `requestComplete` is also left out.
- The control values, including `kcSetFramerate`'s write of `g_params->m_shutterSpeed`.

Races below the granularity of one atomic section are listed as hazards in `PROJECT.json`, for example the unlocked write of `m_recording` in `streamer_start` and the unlocked writes of `g_params`.

## Plan

1. Record-streamer readers (`kcWaitNextRecordFrame`) in `KCamera` next to the live reader, with the liveness of their wait.
2. The bitrate hand-over of `keInit` (`run.cpp:21`) as a property relating the attribute to the codec.
3. The restart glitch (spec lines 66 and 114) as a run.
4. The Python object layer (`Camera`, `Streamer`, their lists and references) as a module. It would check that `g_state.m_record` never names a freed list. That is what the comment at `streamer.c:34` relies on when the garbage collector frees an old record streamer during `camera.record()`. It would reach two bugs: the list shared by `camera.stream()` during a recording (`kcameramodule.c:101`), and the stale `stop()` (`streamer.c:253`). It needs a run slot.
