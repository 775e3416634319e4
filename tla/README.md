# A TLA+ model of femdaq

`femdaq` acquires data from AFTER/AGET front-end electronics over UDP. One program, `femclient`,
reads commands from a user or a script, sends them to one or more front ends (FEMs), and during
a run collects the data frames of all FEMs, merges them into events and stores the events in ROOT
files. Three kinds of electronics are supported: ARC and FEMINOS (`FEMDAQARCFEM`, one receiver
thread per FEM) and DCC (`FEMDAQDCC`, one front end, polled by the main thread). A second program,
the event display (`macros/EventDisplay.C`), shows the events of the files, also of those that are
being written.

This directory holds TLA+ modules of the parts of the program where threads, the network and the
user meet, the TLC configurations that check them on small instances, and proofs, checked by
TLAPS, for every value of their constants.

## 1. Inventory

| Part | State | Operations | Hard because |
|---|---|---|---|
| Flow control (`SendDAQCmdThread`, `FEMReceiverThread`) | `daq_credit`, sequence number, what the FEM may still send, frames on the way | first request, further requests of 272 frames, `daq 0`, counting a frame | two threads share a counter; frames are lost, duplicated, or left over from an earlier run; there is no retry |
| Event building (`EventBuilder`, `tmpBuffer`, `buffer`) | per FEM: `tmpBuffer` under a lock, `buffer`, `bufferIndex`, `pendingEvent`; `sEvent`, `storedEvents` | append a frame, move, extract, parse, merge, store, drain | events arrive in pieces and at different times per FEM; the merge is by position; the end of the run races the last frames |
| Run life cycle (`startDAQ`, `stopDAQ`, `UpdateThread`) | `abrt`, `stopRun`, `stopEventBuilder`, two `std::thread`s, one future per FEM, `storedEvents` | start, sample the limits, wait, fail, stop, join | flags are global and reused by the next run; futures are waited for in order; a joinable thread must not be assigned to or destroyed |
| Shell and exit (`CommandFetcher`, `main`, `signalHandler`) | `g_shutdown`, the script in progress | shell, script, quit, SIGINT, destruction | SIGINT at any time; a script goes on after a shutdown |
| Commands and replies (`SendCommand`, `waitForCmd`) | `cmd_sent`, `cmd_rcv`, `stopReceiver`, logs | send, count a reply, time out | late and duplicated replies; counters never resynchronise |
| Files (`OpenFiles`, `CloseFiles`, `CheckFileSize`, ...) | current run number, file index, tree, log files | open, close, rotate, start and end times | the builder and the main thread share the file; names must not collide |
| DCC acquisition (`FEMDAQDCC`) | trigger loop, request loop, `tmpBuffer` | wait, request, time out, mark the end of event | blocking waits, abort in the middle of an event |
| Packet formats (`ARCPacket`, `FEMINOSPacket`, `DCCPacket`) | the index where the scan resumes, time and count of the last event | classify, extract, decode, map channels | variable-length words split over frames; boundary values |
| Event display (`EventDisplay.C`) | the file shown, the place in it, the events counted before it, decoding, histograms, a configuration kept on disk | open, reload, next event, two timers of live mode, decoding, ranges, reset, exit, start | reads files that grow and directories that change; handlers run in any order; a histogram must fit the events, files and decoding of the moment |
| TCM, configuration, socket, metrics, other macros | see `PROJECT.json` | | mostly I/O |

How the parts interact: the main thread executes one command at a time. `startDAQ` starts the
event builder, the update thread and one sender thread per active FEM, and blocks until every
sender has returned. The receiver threads live as long as the program; they count data frames
(`daq_credit`), append them to `tmpBuffer` under `mutex_mem`, and count replies (`cmd_rcv`).
The update thread sets `stopRun` at a limit of the run. `stopDAQ` joins the update thread, tells
the builder to end (`stopEventBuilder`) and joins it. SIGINT sets `g_shutdown` and `abrt`, which
nothing resets. The event display knows nothing of the program but its files: it sees what was saved of
the tree, when it opens a file or counts its entries again.

What makes each part correct is listed with its properties below, and every hazard met while
reading the code is listed at its line under `hazards` in `PROJECT.json`.

## 2. Modules

The groups of modules share no state; each abstracts the others to what it needs of them. Two
abstract specifications tie them together: `EventMerge` says what the event builder promises and
`RunDirectory` what the writer of the files promises. The latter is implemented by `RunFiles`, and the
event display is checked against it: `EventDisplay` takes its actions as those of the program next to it.

**`CreditFlow`** models one FEM's flow control at the granularity of the atomic accesses of
`daq_credit`: the test (`PollCredit`) and the decrement (`Charge`) of `SendDAQCmdThread` are two
steps, between which `RecvDataFrame` may count frames. The FEM and the network are external:
`Emit` sends one frame per unit of allowance, a request or a frame may be lost, a frame may be
duplicated, and what is left of a run reaches the next one. Losses and duplicates are counted per
run in the history variables `lost`, `dup` and `stale`.

**`EventMerge`** is the abstract specification of the builder: the k-th closed event of every FEM
is merged with the k-th of every other, in order and exactly once, and the merged events that have
a signal are the output.

**`EventBuilder`** is the detailed one: receivers, `tmpBuffer`, the builder's loop with one step
per turn of the loop over the FEMs, its drain, and the main thread over several runs. An event of
a FEM is `Parts` frames, the last of which holds the end of event. A frame stands for its words:
the scan for an end of event is kept (`Ends`, with the index it resumes at), the decoding of hits
is reduced to whether the FEM has a signal in the event (`Hits`). `Trailer` adds the end of frame
word that follows the end of event in ARC frames. The clear of `tmpBuffer` without the lock
(`EnterDAQ`) may lose against a concurrent insertion: both outcomes are in the model.
The history variables `closed`, `rows` and `saved` record what was closed, merged and stored, and
`EventBuilder` refines `EventMerge` by `out <- ` the signals of `saved`.

**`RunControl`** models the threads and flags of a run and the program around it. `setup` is how the
program was started: by a user or with a script, and with which limits of events and of time; an instance
gives a set of such `Setups`, and every behaviour has one of them. `abrt` stands for `g_shutdown` and `abrt`, which are set together. A
`std::thread` is `"none"` when it is not joinable and `"done"` when it has ended and was not
joined; assigning to it or destroying it while joinable leads to `pc = "terminated"`
(`std::terminate`). The event builder is reduced to its count and to its end.

**`DccReadout`** models a run of DCC electronics, where one thread sends a command, waits for its
replies and goes on with the next. The commands of a turn of the loop are numbered (`cmd`): `Pre`
of them start the sampling, `WaitAt` waits for the trigger, the others ask for data. `SendCommand` is
`Send` followed by its outcomes: an abort (`RecvAborted`), a reply without data or an error
(`RecvStatus`), a data packet (`RecvData`), the exception (`Fails`); `Return` says what `startDAQ`
does next. The DCC and the network are external. A packet is the trigger, the request and its
place in the answer; `Mark` is the end of event that `startDAQ` inserts itself. Commands of the
shell, which use the same `SendCommand`, do not occur during a run.

**`Commands`** models the commands that the shell forwards to ARC and FEMINOS electronics: one thread per
active FEM (`task`), with the order of `sendto`, `cmd_sent++` and the polls of `waitForCmd` as in the code, and
the receivers' reply branch (`RecvReply`, `CountReply`). The futures are waited for in order; the first failure
sets `stopReceiver` and ends the program. A FEM (external) answers each command with one datagram that is not a data frame; the
history variables `sent` and `logged` hold the commands that were sent to, and answered by, each FEM.

**`RunDirectory`** is the abstract specification of the files, as a reader of the directory sees them: for each file
the run, the index and the events saved. A file appears without events, as the first of the next run or the
next of the same run; only the last file grows; nothing saved changes, moves or disappears.

**`RunFiles`** models the ROOT files: `files` is the directory, and `fileRoot` is its last file when
`open` holds. The number of the next run is read from the numbers of five digits found on disk
(`NextRun`); a file of the same name is recreated (`OpenRootFile`). The builder is reduced to
what it does to the file: it fills the tree, saves it (`SaveDue`), closes a full file and goes on
with the next one, and writes the times. Its events are external: an event has a time between the one before it
and now, and may arrive after `stopDAQ` took the end time. Events without a signal, and runs without
a file, change nothing of the files and are left out. `Kill` takes the rows of the open file that are not saved, of
which ROOT may have saved more than the program asked for. `Misuse` stands for the commands that use
`fileRoot` between `startDAQ` and `stopDAQ` while the builder does, a data race after which nothing is claimed.
It implements `RunDirectory` (`ImplementsDirectory`) with `dir <- SavedFiles`, the files with their rows up
to `saved`, until the run numbers of five digits are used up and `fopen` recreates files.

**`EventDisplay`** models the display next to a program that does any steps of `RunDirectory` (`DAQ`). One action is
one handler: the buttons and menus of the user and the two timers of live mode, `NextEvent`, which shows up to `StepSize`
more events, and `CheckForNewData`, which goes on with the next file of the run or the next run. `LoadDataFile`,
`CheckNewFile` and `ShowEvents` are what the handlers share; they take what `fEntry`, the maps and `shown` were, as a
handler may change them before. A file is its place in `dir`. An event is a number and its signals are the channels that
fired (`Fired`), which the decoding maps to a system, an axis and a position: that is all that decides which spectrum and
hit map an event fills, and with what (`Fill`). The contents of a histogram are kept as the sequence of the events filled, so that an event
filled twice, or with the channels of another decoding, shows. `entries` is what `fChain->GetEntries()` last returned, which is less than
the file has by now. Up to `MaxInvalid` entries cannot be read. `config` is the file in `/tmp` that `DoExit` writes and `Start` reads.
Reload Run with no open file dereferences a null `fChain` (`mode = "crashed"`). `shown` and `skipped` are history: the events shown since a run was loaded, and
those counted but not shown because the user reloaded a run in the middle of a file.

**`PacketStream`** follows the words of one FEM for the three electronics: an event becomes records,
frames hold records, the receiver puts frames into the buffer, the builder extracts and decodes events. `ARCPacket`,
`FEMINOSPacket` and `DCCPacket` are the pure functions of the files of the same name
(`TryExtractNextEvent`, `ParseEventFromWords`, `Arg12ToFecAsicChannel`, `AddSignal`); `EventWords` and
`FramedEvents` have what two or three of them repeat. The loops over an index are recursive functions, and
a decoded event is a set of channels with their samples rather than a sequence of effects. Words are numbers of
16 bits, those of the DCC in the order of the host. The encoding of an event is external and stated from what the
parsers accept: records are not split over frames, which fit in `buf_rcv` (`FrameWords`), a channel has one header per event, `scnt` counts all the
samples of a DCC packet, the runs of samples of a pulse follow each other and end by bin 512 (`IsPulse`), card, chip and
channel fit in the header of a record (`IsHit`), and the DCC counts events in 14 bits. That the DCC leaves out channels of
fixed pattern noise and short pulses that look empty is part of what an event means (`Real`, `Blank`). The card index of ARC is two bits further left than the parser looks,
with sixteen chips per card; the numbers agree up to card 7 (`Number`). `Meaning` is the reference
definition, in terms of hits rather than words. `EventBuilder` and `DccReadout` leave words out and treat a frame
or packet as one item; `EventsExact` is why they may.

`MCEventBuilder`, `MCRunControl`, `MCPacketStream` and `MCEventDisplay` hold the instances for TLC. `FrameProofs` (about `CreditFlow`
and `PacketStream`, the number of the data frames and their words), `EventBuilderProofs`, `RunControlProofs`, `DccReadoutProofs`, `CommandsProofs`,
`RunFilesProofs` and `EventDisplayProofs` hold the theorems; `DataFacts` has the facts that several of them need: the least and the largest of a set of numbers, and sequences that are
joined to one.

Definitions commented as mutants are variants of an operator with a plausible bug; nothing in the
specifications uses them. They are there to show that the properties can fail: replacing the
operator by its mutant makes the property listed with it in `PROJECT.json` fail.

## 3. What is checked

| Run | Instance | Shows |
|---|---|---|
| `credit_flow` | window of 5, requests of 2, two runs, 6 losses, 2 duplicates per run | `Conservation`, `NoOverrun`, `StallOnlyByLoss`, and under fairness `KeepsRequesting` |
| `event_merge` | two FEMs, one run, two events of two frames, trailer words, one loss | `InStep`, `EventsAligned`, refinement of `EventMerge`, and under fairness `EventuallyMerged`, `BuilderStops` |
| `event_runs` | two FEMs, all events with signals; one run of up to three events with two losses, or two runs of one event with one loss | `ScanResumes`, `QuietRunsPure`, `DrainsQuietData`, `ShiftedByLosses` |
| `run_control` | three FEMs, two send errors, SIGINT; a script of two runs with a limit of 3 of at most 5 events, or any four commands of a user with limits of events and time, or without limits | `NoPrematureEnd`, `NoRequestAfterStop`, `ScriptsClose`, `RunsDoNotOverlap`, and under fairness `RunsEnd` |
| `dcc_readout` | two runs, two triggers, two requests of two packets, one loss, one error, a limit, SIGINT | `EventsWhole`, `ReplyMatches`, `OneMoreEvent`, `QuietRunsPure`, `DrainsData`, and under fairness `AbortHonoured` |
| `commands` | two FEMs, three commands, one loss, one duplicate per FEM, one failure of `sendto` | `Lockstep`, `QuietAtPrompt`, and under fairness `SendCommandReturns` |
| `packet_stream` | each of the three electronics, two events, up to two hits at the first and last channels and around the gaps | `EventsExact` |
| `run_files` | three `fopen`, two runs, four events, a file checked every two and saved every three events, one kill | `FilesPartition`, `TimesBracket`, `KillLosesLittle`, refinement of `RunDirectory` (`ImplementsDirectory`) |
| `event_display` | up to three files with four events, two events per step, two decodings and one that cannot be read, an entry that cannot be read, any four steps of the user | `ShownInOrder`, `HistogramsMatch`, `CountsMatch`, and under fairness `FollowsOrWaits` |

`commands`, `run_files`, `event_display` and `packet_stream` also check the type invariant of their module. That of every module
is proved for all instances (section 4).

Three runs show that the program does not do what its README or its messages say. Each has a trace of a few steps:

* `run_residue`: a run stopped when one FEM has closed an event and the other has not leaves that
  FEM's signals in `sEvent`, and the next run stores them in its first event, although nothing was
  left in the network or in `tmpBuffer`.
* `shell_ctrl_c`: SIGINT arrives while the shell waits for a run (`InterruptedRun`). The senders leave, `startDAQ`
  returns, and the shell leaves its loop without `stopDAQ`; the destructor of a joinable thread terminates the program.
* `display_stall`: a display in live mode that goes on with the next file before the first events of that file
  are saved closes it and, although it says that it waits for the DAQ, neither timer does anything afterwards.
  `FollowsOrWaits` shows that this is the only way in which live mode stays behind.

### Seen while modelling

These follow from the code and are part of the modules, but no run is about them.

* When no FEM is active `startDAQ` returns at once; without limits `stopDAQ` then joins an update thread that nothing
  tells to end. `RunsEnd` is claimed only when a limit, an abort or a failure gives the run a reason to end.
* Reload Run uses `fChain` after a file without events was closed.
* Events saved since the entries of a file were last counted are not shown when the next file is already there by then:
  `ShownInOrder` therefore says of a file that it is shown from its first event without a gap, not that all of it is.
* A decoding file that cannot be read empties the decoding and leaves the histograms of the one before, which
  `HistogramsMatch` excludes.
* A run that starts while data of an earlier one still arrives may keep some of it: `tmpBuffer` is cleared without the lock.
  Both outcomes are in the modules; `QuietRunsPure` speaks of quiet starts only.

### Bounds, and why they are enough

The window and the threshold of `CreditFlow` matter only by which of `daq_credit`, `Window` and
`Thr` is larger; with 5 and 2 a run needs several requests, two requests' worth of credit can
accumulate, and 6 losses suffice to stall it. Two FEMs are the least that can be out of step,
one of them ahead of the other in either order; two frames per event let an event be split over two
passes of the builder, and two passes of drain distinguish an early end from the limit. Two losses of a
FEM's ends of event shift its events by two, and a third event shows it; `OneLongRun` keeps the second run for
what shorter ones leave behind. Two runs are enough for a run to meet what another left. In `RunControl` three FEMs let the failing FEM
come before or after those that still run; four commands allow two complete runs. In `DccReadout`
two requests of two packets make the end of a request, of an event and of a packet different
things. In `PacketStream` the first event has any hits and the second shows what the first left behind; time, count
and size words have the values of an end of event, and all ways to cut and batch are tried. In `Commands` a duplicate in the first command is still ahead in the third. In `RunFiles` the least numbers are used for which a check, a save by count, a save by age and a
rotation all fall at different events; with `LastRun = 1` three `fopen` use up the numbers, after which
nothing is claimed of what is overwritten. In `EventDisplay` four events in steps of two leave a batch that is whole, one that is
cut by the end of the file and a file that grew since it was counted; three files have a next file and a next run, in either
order; four steps of the user open a file, start live mode with Auto-load and change something, or close and start the display again;
the channels of the four events fill one axis, both, or a system that one of the decodings does not have. `TimesBracket` is claimed only for files that one run wrote: a second
run into the same file replaces its start time. What does not depend on
the bounds is proved (section 4). Bounds of the model (`MaxRuns`, `MaxLost`, `MaxEvents`, ...) are
named as such where they are declared; they appear in guards of external actions, of users or of
the event count only.

### Fairness

`CreditFlow`: the sender and receiver threads are scheduled, and the FEM keeps triggering, so that it
sends what it is allowed to; without triggers a run waits, as it should. No fairness is assumed of
starting or stopping a run, of losses or of send errors. `EventBuilder`: the builder and the
receivers are scheduled; triggers, users, stops and the network owe nothing. `RunControl`: the
main thread, the update thread and the senders are scheduled (all poll with short sleeps), time
passes, and the builder ends after it was told to, which is what `BuilderStops` shows of
`EventBuilder`. SIGINT, events and send errors are not owed. `DccReadout`: only the main thread is
scheduled, whose `recvfrom` has a timeout; the DCC need never answer. That the DCC answers within
the timeout of a command, if neither the command nor the reply is lost, is part of the model.
`Commands`: the main thread, the threads of a command and the receivers are scheduled; a thread that
polls for ever polls after its timeout, which is strong fairness of `TimeOut`, as each poll in between
disables it. Users, FEMs and the network owe nothing. `EventDisplay`: the timers of live mode fire (`NextEvent` while
`fIsRunning`, `CheckForNewData`); the user and the program that takes the data owe nothing.

## 4. What is proved

All proofs hold for every value of the constants under the named assumptions of the modules:
`WindowAssumption` (`0 < Thr <= Window`), `SizeAssumption` (at least one FEM, one frame per event,
one request, one packet and one pass of drain; sizes and counts of the files), `HitsAssumption`, `SetupAssumption`, `StepAssumption`, `FiredAssumption` and `DecodingAssumption`
(channels are naturals, the positions in a decoding integers), `InputAssumption` (what `PacketStream` assumes of a front end, see there), and
that the bounds are naturals.

* **`FrameProofs`, flow control**: `FlowTypeOK`, `Conservation`, `NoOverrun` and `StallOnlyByLoss` are invariants.
  `Conservation` alone is not inductive: between the runs it is not claimed, and the decrement is only safe
  because the thread at `charge` has seen `daq_credit >= Thr` and nobody else decrements it. The
  inductive invariant adds that fact; the other two properties then follow by
  arithmetic.
* **`FrameProofs`, words**: `EventsExact` and `TypeOK` of `PacketStream`, for any number of events, hits and samples, any values of
  times, counts and sizes, and any cut into frames and batches. The buffer is the concatenation of *units*: the records and
  packets, and the framing that the receiver takes along. A unit is something the scan steps over as a whole, because `Skip` of
  its first word is its length or because the words behind are those of a pulse, so that the scan only ever looks at
  first words (`ScanUnits`), finds the first unit that is an end of event (`ExtractFirst`), and otherwise ends at the end of the buffer
  (`ExtractNone`). Without the framing (`Strip`) the units are the records of the events not stored yet, in order; the first end cuts both
  at the same place (`FirstEnd`, `CutFirst`). The loop over the words of an event comes to the first words of its units
  and to no others, so that the channels it finds, their pulses, the time and the count are those of the event,
  whatever was parsed before it (`EventRead`, by `FramedParse` for ARC and FEMINOS and `PackedParse` for the DCC). The words of a pulse give back its
  bins and samples (`PulseRead`). The inductive invariant (`StreamInv`) says this of the state: for some units, in the buffer, in the frame and in no frame yet,
  and some number of events parsed. It quantifies over sequences of any length and is not for TLC, which checks what follows from
  it. The functions of an index that stand for the code's loops satisfy their recursive definitions because each step goes to a larger index (`UpwardExists`); what they
  return is proved by induction over the units, never over the data of a record.
* **`EventBuilderProofs`**: `TypeOK`, `ScanResumes` and `InStep`. The scan property needs that the
  first end of event past the index is found (`FirstEnd`, over the least element of a set of
  naturals) and that adding words to a buffer keeps its prefix (`ConcatPrefix`). `InStep` needs to
  know, in the middle of a pass, which FEMs were already visited and that `newEvent` holds only if
  every one of them has closed its event (`PassInv`). `QuietRunsPure` holds because all that is
  on its way to the events of a quiet run is of that run (`QuietInv`), `DrainsQuietData` because, in a pass during which nothing can arrive,
  the FEMs visited since the buffers were found empty stay empty (`CalmInv`). `FirstRunMerges` is the safety part of `ImplementsEventMerge`, for every value of the constants and as long as
  the first run lasts; no run checks it apart from that property. It is restricted to it because `run_residue` shows a later run that stores the signals of the run before. Closing an event of a FEM, merging and storing are
  steps of `EventMerge`; the rest is not seen, as long as `sEvent` holds the signals of the events that wait to be merged (`SignalInv`).
  `EventsAligned` needs that the words of a FEM in `buffer`, `tmpBuffer` and the network follow each other up to the next one the FEM sends
  (`OrderInv`, with chains of words that are joined and cut), and that they start with the event after the last one closed.
  `ShiftedByLosses` needs what is left of that order when frames are lost (`StreamsInv`): the words of a FEM from `buffer` to the network span
  its events from the one after the last closed (`Span`), and the label of a word is at least the event it is closed in and ahead of it by at most the losses
  (`Near`), since only a lost end of event joins two events. So what waits to be merged, and what is stored, is near the row it is merged
  into (`NumbersInv`).
* **`RunControlProofs`**: `TypeOK`, `NoRequestAfterStop`, `NoPrematureEnd` and the action property
  `RunsDoNotOverlap`, for any script or user. The strengthening says that outside of
  `startDAQ` no sender is on, that the builder is told to end only outside of it, and that `stopRun`
  has a cause in the limits of the present run. `ScriptsClose` is proved for every script that it speaks of, those that stop each run before they start
  the next one (`Paired`): threads are joinable only if the part of the script that was executed has left a run open (`ScriptInv`).
* **`DccReadoutProofs`**: `TypeOK`, `ReplyMatches`, `OneMoreEvent`, `QuietRunsPure` and
  `DrainsData`. `ReplyMatches` is not inductive: it says nothing of how much of an answer is still to
  come. The invariant adds that at most one command is out, and that only data packets that do not end their
  request come before another datagram (`Exchange`), which losses keep. `QuietRunsPure` needs that
  requests go out only after a trigger of the run (`AskInv`), so that what enters `tmpBuffer` is
  new, and that the buffers are new (`PureInv`). `EventsWhole` needs that the packets in the buffers are in order (`Ordered`), that the last one
  tells where the loop of `startDAQ` is (`Place`), and that what a run leaves behind is not split between the two buffers
  (`SplitInv`). Its theorem assumes more than one pass of the drain, and the code has 500: with a single pass TLC finds
  an event that is cut.
* **`CommandsProofs`**: `TypeOK`, `Lockstep` and `QuietAtPrompt`. A reply is in one of several places, on its way, received
  and not counted, or counted. The invariant (`FemInv`) compares, for each FEM, the copies of replies in all places (`Copies`)
  with the commands these replies are of (`Known`): there are no more than commands and duplicates, so that a thread that has counted as many
  replies as commands misses at most as many replies as there were duplicates (`Settled`).
* **`RunFilesProofs`**: `RunFiles` implements `RunDirectory`. Initially there are no files; a step is seen as the first file
  of the next run, as the next file of a run, as a save, or not at all. That a change of the open file is a save or nothing is a fact about
  sequences (`LastKept`): what was saved is a prefix of what is saved now. That `fopen` and the rotation
  add a file, and do not recreate one, needs the inductive invariant: the last file has the largest run and the
  largest index of that run (`Ordered`), and between closing a full file and opening the next one the main thread touches neither the file nor its
  number (`Control`). `MaxOfNumbers` says that the largest number found exists, and that `NextRun` follows the last file.
  `KillLosesLittle` needs two counts of the events that are not saved: there are at most as many as `storedEvents` is past the last multiple of
  `SaveEvery` (`Counting`, by the arithmetic of `%`), and they are no older than `SaveAfter` (`Spanning`). `TimesBracket` needs to know
  which files have their times and what the next event's time is at least (`Timing`). `FilesPartition` is about the
  concatenation of the rows of all files, a recursive function: that it exists, is unique, and grows with the last
  file is proved by the least counterexample (`JoinExists`, `JoinUnique`, `JoinedLast`). `TypeOK` needs the bounds on the number of rows (`Growth`).
* **`EventDisplayProofs`**: `TypeOK`, `CountsMatch`, `ShownInOrder` and `HistogramsMatch`. Each batch adds as many events to `shown` as to `fEntry` (`ShowCounts`); a file of the
  same run moves the place in the file left to the events counted before it and what was not shown to `skipped`, a
  new run starts from nothing (`LoadCounts`). It needs that the file shown, and the one in the configuration, stay on disk.
  `ShownInOrder` speaks of the files as they are now; what is inductive is that the events shown are joined from beginnings of
  the files up to the one shown (`Viewed`), which files that grow do not change (`ViewedGrown`). That the next number of the run is the
  next file on disk, and that no event is in two files, is an invariant of the disk (`Arranged`) that `RunDirectory` keeps (`DiskStep`); from it, what
  is shown of a file is its own beginning (`OwnBeginning`). `HistogramsMatch` is strengthened to histograms
  that hold the end of what the events shown fill (`Matches`), for the decoding loaded last: a reset starts a new end, further events make
  it longer (`FillMatches`), and a decoding that cannot be read only suspends the claim, because loading it keeps the maps and `fLastDecoFile`.

Model-checked only: everything under fairness (liveness is out of the prover's reach), and with it the refinement
of the liveness of `EventMerge` (`ImplementsEventMerge`). Every invariant of the passing runs is proved.

## 5. Not modelled, and the plan

What the next steps would be, in order:

1. The TCM client and the log files; the order of one blocking command is already that of `Commands` and `DccReadout`.
2. A proof that `EventBuilder` and `DccReadout` may take a frame for its words, from `StreamInv`; at present the
   modules share no definition that would relate them.

The `pedestals` command of the DCC is a further sequence of the same commands and is left out, and so are the
TCM's and the shell's single commands. Of the files, the logs, a ROOT file that cannot be opened, and the
builder of the DCC, which does not raise the end time to that of the last event, are left out.

Outside of the models: formatting and printing of packets, the configuration file, the prompt for
metadata, the metrics server, the socket wrapper and the macros that read a finished file once and plot it
(`AnalyzePulses`, `DrawPulses`): floating-point parameters of pulses and drawing. Of the event display, the rate graph, the pulse
parameters and the threshold that decide which channels have a signal, the ranges, the step size chosen by the user, and what is drawn are left out. A DCC packet of size zero, at which the loop of `ParseEventFromWords` would not
advance, is not sent by the front end of `PacketStream` (`InputAssumption`); `Packets` steps over one. `sleep`, `verbose`, `exec`
inside a script and the commands that are forwarded to the FEMs change nothing that the
present modules keep. Socket errors of `recvfrom`, which terminate the program from a receiver thread, and
the counters' widths (a `uint32_t` that the proofs show stays between zero and a few windows) are not
modelled either.
