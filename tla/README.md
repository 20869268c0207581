# Inferno: models and proofs of the hosted kernel and the Dis virtual machine

TLA+ specifications of the concurrent core of Inferno's emulator `emu`: who may run the
Dis virtual machine, how Limbo threads communicate and their memory is collected, the
locks, sleeps, interrupts, rendezvous and queues everything else stands on, and the two
ends of a remote file system: the mount driver and the export of a name space. The modules
are translated from `emu/` and `interp/`; PROJECT.json maps each definition to its lines.

Where the code has a flaw that a property meets, the model has the flaw too. Such a step is
recorded in a history variable (`lost` in Qio; `fault`, `quiet` and `cut` in MountDrv), and
the property says that nothing else goes wrong: it is an invariant with a named exception,
not one checked after the step has been ruled out.

## 1. The system

Inferno runs Limbo programs, compiled for the Dis virtual machine, over a small kernel that
presents every resource as a file. It exists as a native kernel (`os/`) and as a process of
a host system (`emu/`); both share the interpreter (`interp/`). The hosted one is modelled.

`emu` is a set of host processes (kprocs) sharing memory. At any time one of them, the
owner, interprets Limbo threads ("progs") in turn. A prog that enters a system call takes
its kproc out of the VM, so that the host call can block; when it is done the kproc asks
for the VM back.

| Component | State | Operations | Interaction | What is hard | What makes it correct |
|---|---|---|---|---|---|
| VM ownership, `emu/dis.c` | `isched`: idle, yield, vmq, irend | acquire, release, iyield, startup, vmachine | every system call; Sleep, Wakeup, rendezvous | hand-over after the unlock, wake-up of an idle owner | one owner, nobody forgotten, no wake-up lost |
| Channels and threads, `interp/alt.c`, `xec.c`, `emu/dis.c`, `inferno.c` | run queue, Prog, Channel | send, recv, alt, nbalt, csendq, crecv, spawn, kill, hangup, freechan | runs under the VM; cblock sleeps outside it | every way out of a wait must undo all of it | lists, marks and states agree; synchronous channels |
| Sleeping locks, `emu/lock.c` | QLock, RWlock | qlock, canqlock, qunlock, rlock, runlock, wlock, wunlock | rendezvous | hand-off, an ignored `canqlock` | exclusion, service |
| Sleep and interrupts, `emu/proc.c` | Proc.r, swipend, syscall, intwait, Rendez.p | Sleep, Wakeup, swiproc, osenter, osleave | signals of the host, kill of a prog | a wake-up, an interrupt and a signal for one process at once | no lost wake-up, one waker, no stray signal |
| rendezvous, `emu/os-Linux.c` | Tag, hash table, free list, semaphores | rendezvous | everything that blocks | the post comes after the Tag may have been reused | two processes meet, exchange values and return |
| Byte queues and pipes, `emu/qio.c`, `devpipe.c` | Queue: blocks, len, state, rlock, wlock, rr, wr; Pipe | qbread, qbwrite, qproduce, qiwrite, qclose, qhangup, qreopen; open, close | Sleep, Wakeup, QLock | flags outside the lock, a block split in two sections, closing | order, length, limit, nobody sleeps on |
| Mount driver, `emu/devmnt.c` | Mnt, Mntrpc queue, `rip`, flush tags | mountio, mountmux, mntgate, mntflush | Styx over any channel | replies out of order, flushes, reuse of requests | each caller gets its own reply, somebody reads |
| file2chan, `emu/devsrv.c` | SrvFile, its two Limbo channels | srvread, srvwrite, srvclunk, freerdchan | channels, VM, `dev.l` | VM given up inside a free | no use of a dead channel, no deadlock |
| Exporting, `emu/exportfs.c` | Exq, Export, Fid | exslave, flush | Styx in, name space out | flush of a request being served | one reply or none, work is taken |
| Collector, `interp/gc.c`, `heap.c` | colours, reference counts | rungc, rootset, Setmark, destroy | runs between quanta | scanning in pieces while threads move pointers | nothing reachable is freed |
| Debugger, `emu/devprog.c` | Pdebug, Pbroken | start, stop, step, kill | run queue | stopping a blocked prog | as for threads |
| Others | | | | | see section 7 |

## 2. Modules

* **VMSched**: kernel processes and the VM. A program counter per process stands for its
  place in acquire, release, iyield, startup or vmachine; a section under `isched.l` is one
  step, a rendezvous is one step of both parties. What progs do is reduced to how many are
  ready (`nrun`) and blocked (`nblk`).
* **DisChan**: Limbo channels, one action per instruction or per stretch of a built-in call
  between acquire and release (all run with the VM held, which VMSched justifies). `blk` is
  where the kproc behind a prog stands, so that killing a prog blocked in a system call, and
  meeting one that has been interrupted but is not yet back, are steps of their own. In cblock
  "block" is the window between release and Sleep: a kill that comes there is found, since
  killprog sets p->kill and cblock looks at it; a hangup is not (section 5).
  Reference counts are abstracted: a channel may die at any time. `moved` names the message
  the last step moved.
* **ChanAbs**: what channels promise: threads with standing offers, meetings that take one
  offer and withdraw the rest, a bounded queue, death of a channel. DisChan is shown to
  implement it, reading the offers off wait lists and alt marks.
* **RWLock**: the RWlock of lock.c with its two QLocks `x` and `k`, the spin locks `k.use`
  and `l`, and the hand-off of qunlock as its own step (`hand`).
* **EmuProc**: one process that sleeps on Rendez structures and makes host calls, wakers,
  and the owner of the VM calling swiproc. Wakeup and swiproc hold the Rendez's lock
  across rendezvous and so are two steps each. The host call is external.
* **LinuxRendez**, **RendezAbs**: rendezvous on Tag structures and System V semaphores, and
  its promise. The window between `unlock(&hlock)` and `semop(+1)` is a state (`post`).
* **Qio**: a Queue under one direction of a pipe, or under a device. Bytes are numbered as
  they enter and a Block is an interval of numbers, so order, loss and repetition can be
  told. Sleep and Wakeup are one step each here; EmuProc has their inside. The load and the
  store of `q->state |= Qflow`, done without the lock, are two steps, and `lost` keeps the
  flags that are in force though `q->state` does not show them. `kind`, chosen at the
  start, says whether the queue is a pipe's (writers that block, ends opened and closed) or a
  device's (producers that do not block).
* **MountDrv**: processes calling over one mounted connection. `pc` is a process' place in
  mountio, mntrpcread, mountmux, mntgate or mntflush; a section under `m->r.l` is one step,
  and what is done after dropping the lock (completing another's request, waking it) is
  another. The server answers in any order; once it has answered a flush it no longer answers
  the request; or it answers the request alone, as exportfs.c does. A process may be
  interrupted and the connection end at any time. A Tflush whose write is interrupted counts as
  sent, gone or not, or fails: a pipe turns the Eintr into Ehungup (`emu/devpipe.c:296`).
  `fault` records a tag taken while it is in use, an Mntrpc filled in for its next owner, and
  a reader's role dropped; `quiet` whose last flush is not answered; `cut` an interrupt that made
  the write of a Tflush fail.
* **ExportFs**: exportproc, the list `exq`, the pool of slaves, the Fid table and one client.
  What is freed is not taken again for another request; the one read of a freed Exq, of
  `q->slave` before oshostintr, may find any slave there.
  What a device does is one step that may fail. `client` is what the client may conclude
  from the replies it has got, so that the two ends' views of the fids can be compared.
* **Collector**: reference counts and the incremental collector over one arena. A location
  is a root, a field, or a temporary of an instruction; a call of rungc is a sequence of
  visits during which no thread runs; between calls threads do anything. Free blocks join
  as in poolfree, so that the collector's place may lose its header between calls.
* **VMSched_proofs**, **RWLock_proofs**, **Qio_proofs**, **Collector_proofs**,
  **DisChan_proofs**, **MountDrv_proofs**, **ExportFs_proofs**: the proofs of the module each
  is named after, with the lemmas on lists that it needs. **Rendezvous_proofs**: the proofs of
  the two layers in which a process waits, LinuxRendez and EmuProc (whose names are kept
  apart: SleepInit, SleepNext, SleepTypeOK).
* **MCDisChan**, **MCMountDrv**, **MCExportFs**, **MCCollector**: symmetry sets, and the bound
  on reference counts. The other modules are instantiated directly by their .cfg files.

The layers fit together as follows: LinuxRendez implements the two-sided rendezvous that
VMSched, RWLock and EmuProc use as one step; EmuProc's Sleep and Wakeup (NoLostWakeup,
OneWaker, Woken) justify the single steps of VMSched and Qio; RWLock's QLock justifies
that Qio takes `rlock` and `wlock` in one step and fairly; VMSched's OneOwner justifies
that DisChan's instructions are atomic, and Collector's; EmuProc and RWLock justify the
single steps of Sleep and of `qwait` in MountDrv and ExportFs.

Mutated forms of operations (`Wakeup_keeps`, `ReadSplit_tail`...) stand in the modules next
to the definitions they alter. They take part in no specification: PROJECT.json pairs each
property with one that must break it.

Normalisations: where the code leaves a stale pointer that nothing reads before it is
overwritten (`p->chan`, the alt table of a thread that does not wait, the value and
semaphore of a free Tag) the model clears it. `eof` stops at 4 (only `> 3` is tested).
When a pipe is reopened the numbering of bytes starts again with those left in it.

## 3. Runs

| Run | Instance | Shows |
|---|---|---|
| `channels` | 3 threads, 2 channels, alts of up to 2 entries, queue limit 2 | RunqConsistent, WaitConsistent, AltMarksExact, NoMissedMeeting; refinement of ChanAbs |
| `chan_array_store` | 2 threads, 2 channels | AltRefsRemoved violated (finding 1) |
| `vm` | 3 interpreters, 2 other kprocs, 2 progs | OneOwner, NobodyForgotten, NoLostWakeup; AcquireServed |
| `rwlock` | 4 processes | Exclusion, ReadersCounted, WritersKeptOut; Served |
| `proc` | 1 sleeper, 2 Rendez, 2 wakers, 1 interrupter | NoLostWakeup, OneWaker, NoStraySignal; Woken |
| `proc_pull_out` | the same | PulledOut violated (finding 2) |
| `rendez` | 3 processes, 2 tags, 2 values | TagsOwned, PostComes; refinement of RendezAbs; MetReturns |
| `qio` | 2 readers, 2 writers or 2 producers, limit 2, blocks of 1 or 3 and reads of 1 or 2 bytes | InOrder, ReaderWoken, WriterWoken; HangupReleases |
| `qio_big_block` | 1 reader, 1 writer, limit 4, blocks of 1 or 5 bytes | FlowRestarts violated (finding 3) |
| `mount` | 3 processes, 3 Mntrpc, 1 flush tag, 3 calls, 2 interrupts, a hang-up | OwnReply, QueueExact, NobodyStuck |
| `export` | 3 slaves, 3 requests, 2 fids | OneReply, RefsExact, FidAgree, WorkTaken |
| `export_lost` | the same | WorkListed violated (finding 4) |

Every passing run also checks its module's TypeOK.

Collector has no run of its own among these: its safety is proved (section 4). MCCollector
instantiates it for a check by hand, `tlc -config MCCollector.cfg MCCollector` (3 blocks of
one field, 2 roots, quanta of 2 blocks, counts up to 4; 725,738 states) for NoDangling and
RefsCover, and `MCCollectorLive.cfg` (one root) for Collected: when threads leave pointers
alone, whatever they cannot come to is freed.

**Bounds.** Three threads are a waiting pair and a third that meets, kills or hangs up in
between; two channels are the least with which an alt has an entry to withdraw; queued
sends are confined to one channel (`QChan`), two deep, so that their order shows. Three
interpreters are one more than the progs: at most one prog per interpreter is away, so
`release` always finds an unborn one. `MaxYield` caps `isched.yield`, which the code
lets grow; at 5, the number of processes, it exceeds the number that can wait at once and
leaves room for it to drift above the number of waiters. Four processes fill each of
the RWlock's queues behind a reader and a writer. A process waits on one Tag, so `NTag` is
the number of processes, and TagsOwned shows that none is lost. With limit 2 and blocks of 3
a single write overfills the queue, a split leaves one or two bytes, which fills it again or
does not, and the writer's restart threshold `limit/2` is 1; six bytes let it fill, drain and
fill again. The three exceptions of the properties (`lost` holding Qstarve, Qclosed or Qflow)
are all reached. `Limit >= 2` is
assumed because `len < limit/2` can never hold with limit 1 (no queue in emu has it).
Three processes on a connection are one that reads, one asleep and one between the two;
as many Mntrpc as processes is the least the code allocates, so that each is reused at once;
one flush tag comes round with the second flush, which two interrupts allow. All the faults
are reached, and so is an unanswered flush. Three requests are one that makes a fid,
one that uses it and one that clunks or flushes; a slave for each lets all be in progress,
and fewer busy ones leave requests on the list.

**Deadlock** is checked except in the channel runs (threads may all be blocked for ever,
or all be gone), the export runs (the client may stop), the mount run (a call whose flush is
never answered waits for ever) and the EmuProc runs (finding 2 is a deadlock, which `proc`
would otherwise report in place of its properties).

**Fairness.** Weak fairness of a process' steps inside a call says only that the host keeps
scheduling it; nobody is obliged to make a call, host calls need not end (`acquire` after
one is not fair), signals need not come. Strong fairness is assumed of spin locks in
EmuProc (a lock that is free again and again is got in the end: `lock` is a test-and-set
loop with osyield). In Qio only the steps of the process that closes or hangs up are fair:
HangupReleases needs nothing else. MountDrv and ExportFs assume no fairness: NobodyStuck
and WorkTaken are invariants that say what may not be the case when no step of theirs is
left but new requests. Collector's is that of destroy, which is part of an instruction, and
of rungc, which vmachine and execatidle call again and again. AcquireServed says that somebody is served, not everybody:
acquire pushes on the head of `vmq` and release pops from it, so a waiter can be overtaken.

## 4. Proofs

Checked by TLAPS, for any number of processes:

* **VMSched_proofs**: TypeCorrect; MutualExclusion (`[]OneOwner`), WakeupsReachTheOwner
  (`[]NoLostWakeup`), NoProcessForgotten (`[]NobodyForgotten`). OneOwner is not inductive
  alone: Wakeup turns the process in `irend` into a running owner, so one must know that it
  already was one, asleep; and that no second process sleeps there follows from OneOwner.
  The conjunction OwnerInv is inductive. NobodyForgotten is inductive on top of it, with
  the lemmas on linking at head and tail and unlinking the head.
* **RWLock_proofs**: ReadersWriterExclusion, ReadersCount, FirstReaderLocks. IInv consists
  of the holders of the three short locks (XInv, LInv, UInv), the two queues and the process
  being handed a lock (XQInv, KQInv), ReadersCounted and KInv. The argument: a reader tries
  `canqlock` while holding both `x` and `l`; whoever else touches `k.use` is a writer, who holds
  `x`, or the last reader leaving, who holds `l`; so the try never fails because of the spin
  lock. If it fails because `k` is locked, `k` stays locked, since its holder is a reader.
  Hence `k` is locked while there are readers, and a writer inside means `readers = 0`.

* **Collector_proofs**: NothingReachableFreed (`[]NoDangling`) and CountsNeverShort
  (`[]RefsCover`), for a heap of any size, any roots and fields and any quantum. A location is
  Good unless it is a field of a block of the sweeper's colour; NoDangling says that a Good
  location never points to a free block nor to one of the sweeper's colour. It rests on the
  counts (destroy frees a block when its count says nobody points to it) and on the
  colours, and they on it; the inductive invariant adds that roots and blocks already
  scanned point only to what is marked (RootsMarked, ScannedMarked: the work of Setmark in
  movp), that behind `ptr` nothing has the sweeper's colour and, unless `nprop` is set,
  nothing is left to scan (Behind), that free blocks are empty, and that a pass that ends
  has reached the end of the arena. At a change of colours all allocated blocks therefore are
  of the mutator's or the marker's colour, and no block of the first points to one of the
  second, which becomes the sweeper's. The counting lemmas say how the set of pointers
  into a block changes in movp, new and destroy.

* **Rendezvous_proofs**, of EmuProc, for any number of Rendez structures and wakers: SleepTypeCorrect,
  WakeupNotLost (`[]NoLostWakeup`), SleepHasOneWaker (`[]OneWaker`), SignalsFindTheirCall
  (`[]NoStraySignal`). OneWaker says that Wakeup and swiproc never both wait to meet the
  sleeper; inductive is what each has taken when it does: who is at `rendezvous` holds the
  lock of the Rendez `up` sleeps on and has cleared `up->r` (Meets), and `d->p` names `up`
  only while `up` is asleep on `d` with `up->r` still set (Sleeps). Interrupts says in which
  places of a host call `intwait` and `swipend` may be set.
  Of LinuxRendez, for any number of processes, tags and values: TypeCorrect,
  TagsHaveOneOwner (`[]TagsOwned`), PostsCome (`[]PostComes`) and RendezvousImplemented, the
  refinement of RendezAbs. The invariant says where every Tag is (in the table with its one
  waiter, taken off it with a waiter yet to return, or free, once) and that one key has one
  Tag. Of the steps, Match is the abstract meeting, Setup an arrival, Post and Return the two
  departures, and the loop around `semop` stutters, however many stray posts it sees.
* **Qio_proofs**, for any number of readers, writers and producers, any limit and any sizes of
  blocks and reads: TypeCorrect, StreamInOrder (`[]InOrder`), ReadersAreWoken (`[]ReaderWoken`)
  and WritersAreWoken (`[]WriterWoken`). Run(s, lo, hi) says that the blocks of `s` are the
  bytes after `lo` up to `hi`; its lemmas say what taking the first block, putting a rest back,
  appending a block and renumbering do to it. IInv joins it (Order) with who holds `rlock`
  and `wlock` (RHold, WHold), who may be at a closed end (Ends), and what a sleeper relies on: a
  reader on `Qstarve` staying set while the queue is empty, with whoever fills or closes the
  queue on its way to wake; a writer on `Qflow` staying set while the queue is not less than
  half full. Each of the two has the way to lose its flag that the code has, and only that one:
  the store of a writer that had loaded `q->state` before `Qstarve` was set, and the rest of a
  block that fills the queue again behind a cleared `Qflow` (finding 3).

* **DisChan_proofs**, for any number of threads and channels, alts of any size and any limit of
  the queue: TypeCorrect, RunqAgrees (`[]RunqConsistent`), MeetingsNotMissed
  (`[]NoMissedMeeting`), WaitsAgree (`[]WaitConsistent`), AltMarksAreExact
  (`[]AltMarksExact`) and ChannelsImplemented (`Spec => ImplementsChannels`, the refinement of
  ChanAbs). The four invariants need each other, and two facts more: where the
  kernel process behind a thread can stand in each state of the thread, with the process inside
  a call at the head of the run queue (Places), and that nobody is in two receive lists
  (OneRecv); IInv is their conjunction, and TLC found it invariant on the instance of run
  `channels` before it was proved. Nearly every action is of one form: the threads of some
  set Q leave all lists and marks and stop waiting (Leaves), nothing a channel knows of changes
  for the others (Bystander). LeavesKeep proves that such a step keeps channels and threads in
  agreement, with Q empty for a step that touches no channel, the partner for a meeting, the
  victim for a kill, everybody on the channel for a hangup. What is left is to show that
  TakeReceiver, TakeSender, Delcomm, acquire and freechan do make exactly Q leave, which is
  where the marks being exact is used, and the three ways to begin a wait (JoinSend, JoinRecv,
  StepAltBlock), where not having found a partner is. An alt that fails or finds nothing puts
  back what it marked (AltUndo); one that communicates makes the meeting of the plain
  instruction. The refinement rides on the same lemmas: the offers of a thread are read off the
  lists and marks (OffersOf), so Leaves with Q empty, one thread or everybody on a channel is
  Else, Withdraw or Meet, or Close of ChanAbs (AbsElse, AbsWithdraw, AbsMeet, AbsClose), a new
  wait is Post because nobody waits at the other end (AbsPost), and the queue of csendq gives
  Enqueue and Dequeue; each action's Step lemma proves both that IInv is kept and that the step
  is one of ChanAbs. The list lemmas say what append, push, tail, concatenation and RemoveFirst
  do to who is in a list.

* **MountDrv_proofs**, for any number of processes, Mntrpcs, flush tags, calls and interrupts:
  TypeCorrect; FaultsAreRare (`[]Rare`); ReplyCorrect, QueueCorrect and NobodyIsStuck (the three
  properties of run `mount`). Rare says what a fault takes: an interrupt, and after it the end
  of the connection, a Tflush that another interrupt has made fail, or more interrupts than flush
  tags. The invariant has three layers. Struct holds always: who owns which Mntrpc, what is
  free, who reads. IInv holds as long as no tag is in use twice and no Mntrpc is torn. Counted is
  about flush tags. IInv accounts for every message that the server, the stream or the reader has
  (Messages): an answer is to a request on the queue whose owner still waits, or, once an
  interrupt has met the end of the connection or of its Tflush (Met), to a call that has given up
  and whose tag nobody has taken again; the answer to a flush is to a call that is flushed or
  over, and nobody else has its tag; a request has one answer (Once), and none follows the answer
  to its flush (Order, which is the server's promise). So whatever request a reply fits when mountmux
looks for one, it is for (MuxRight), which is OwnReply from the moment a call is done (Right,
  Filling), and a request leaves the queue only with its answer (Linked). For NobodyStuck: who
  sleeps though it is done is about to be woken (DoneWoken); when nobody reads and somebody
  sleeps, somebody is on the way to the gate (SomeMover, where mntgate having chosen somebody
  still asleep matters, and a process woken or interrupted in between goes to the gate itself);
  and a call that has sent all it has to send has an answer on its way, unless its flush has
  not gone or is not answered (AnswerComes). Each part has a lemma for its step; each uses the
  whole of the invariant before it. FirstFault reads off IInv where the first fault can come
  from: a tag taken while it is on its way is that of an answer to a call that has given up, a
  torn Mntrpc is one whose owner has, and the reading is dropped by a process that was to read
  and whose Tflush failed. For flush tags it counts (Counted): the tags given out and the
  processes about to take one are no more than the interrupts, so that a tag comes round only
  with more interrupts than there are tags.

* **ExportFs_proofs**, for any number of requests and fid numbers and any number of slaves that
  is enough for the requests: TypeCorrect, RepliedOnce (`[]OneReply`), CountsExact
  (`[]RefsExact`), FidsAgreed (`[]FidAgree`) and WorkIsTaken (`[]WorkTaken`), all from one
  invariant. Its parts: the list (Lists: what is linked is untaken, later than what it is
  linked to, and linked once; `exq.tail` may be a flushed request, as in finding 4, and nothing
  here needs more of it), so that a request taken or unlinked is not found again and is
  answered once (Replies); the slave of a request, which `Exq.slave` names until the request is
  freed (Owners, Working); an interrupt that comes later finds any slave, and
  can only fail its call; the Fids that a slave has at each point of its call
  (Places), with the Fid a request is to make untouched until it makes it (Unused). RefsExact
  is a part itself: when the count of a Fid comes to zero nobody else has it, which is what
  makes freeing it safe. FidAgree needs that a live request has to itself the numbers
  it makes or clunks (Claimed), so that of the calls that cross on a Fid none but its maker
  touches it before the client is told of it (Named, Made, Distinct, Agreed). WorkTaken needs
  who holds `exq.qwait` (Locks), that whoever sleeps while something is listed is about to be
  woken, and that a slave exists once a request has been read (Wakes). Each part has a lemma
  for its step; HandOver says what qunlock does to all of them and Interrupted what a flush or
  a shutdown that meets a slave does.

Assumptions: the constants' (nil is no process, processes are a finite set for the counts and
for the order in which a hangup queues its threads, `NProg` and `MaxYield` positive,
`Limit >= 2`), evaluated by TLC in every run; for Collector, that roots and fields are finitely many and that a root is not a field (HeapAssumption, a
hypothesis of its theorems); for ExportFs, that there are as many slaves as requests, since the
code starts a slave whenever nobody waits in `exq.qwait`, and that the client keeps to the
protocol of fids as the module says. MountDrv and Qio need nothing more.

Only model-checked: all liveness (AcquireServed, Served, Woken, MetReturns, HangupReleases,
Collected), which is out of the prover's reach. Each invariant that a passing run checks is
also a theorem.

## 5. Findings

1. `interp/alt.c:46`: altunmark cancels the marks of the channels an array holds at the end
   of an alt, not of those marked at its beginning. A store into the array in between leaves
   a channel whose `recvalt` names a thread that no longer waits, or has been freed.
2. `emu/proc.c:9`: Sleep sets `up->r` before it has `r->l`. swiproc, taking the lock in
   between, waits in rendezvous for a process that waits for that lock, for ever, and with the
   VM held.
3. `emu/qio.c:676`: qbread restarts a writer, clearing `Qflow`, because the queue is less than
   half full without the block it is splitting, and then puts the rest of the block back. If
   that fills the queue again (a pipe's limit is 32k, a block may have 128k), a writer that
   had set `Qflow` but was not yet asleep sleeps with it clear, and no read wakes it any more,
   even one that empties the queue. WriterWoken says that this is the only way a writer is
   forgotten.
4. `emu/exportfs.c:256`: exflush takes a queued request off `exq` and leaves `exq.tail`
   pointing at it when it was the last. The next request is linked behind the one that is
   gone: if another is still queued, the new one is on no list and is never served.

Behaviour worth knowing. A hangup that comes while a receiver is in cblock between release
and Sleep (`emu/dis.c:344`) is lost: killcomm clears `p->ptr` and calls swiprog, which does
nothing to a process that is neither asleep nor in a host call, and sets no `p->kill`; the thread
then sleeps on no list until it is killed. The unlocked `q->state |= Qflow` of qbwrite
(`emu/qio.c:768`) can wipe out the `Qstarve` a reader sets meanwhile, the "flag requesting
producer to wake me", or `Qclosed`: `tlc -config MCQioRace.cfg Qio` shows a reader that sleeps on
with data in the queue. An interrupt that comes between osenter and the host call, or just before
Sleep, is lost (the code says "Maybe pull out"), and killprog does not repeat it; a pipe both
of whose ends are closed is reused with what an unopened end left unread in it. In the mount
driver an owner whose Tflush fails, because the connection has ended or because a pipe makes its
Eintr an Ehungup, frees its Mntrpc, though mountmux may be filling it in and the server may still
answer its tag; it may also be the one that mntgate had chosen to read next, and nobody reads on.
mntflush interrupted before its Tflush has gone waits for an answer nobody will send, and so does
one whose server, like exportfs.c, answers no flush of a request it does not have. The properties
of run `mount` have exactly these exceptions. mntrdwr looks at the count of an Mntrpc it has freed. exportfs never
answers a flush with an Rflush, and ignores an error in the write of a reply, which an interrupt meant for an earlier request of
the slave can cause. An exclusive attach frees fids in use; a failed clone leaves a fid with
a nil channel. Two removes of one file2chan file take the directory's reference twice
(`emu/devsrv.c:250`), and a file removed between devwalk and `qlock(&dev.l)` makes srvwalk
panic. A free function that gives the VM away lets rungc go on while another thread is half
way through a destroy. A debugged thread blocked on a channel is in state Prelease, so
killprog interrupts it and leaves it in the channel's list (`emu/devprog.c:1222`).

## 6. Plan

Done: VMSched, DisChan, RWLock, EmuProc, LinuxRendez, Qio, MountDrv, ExportFs, Collector.

1. SrvFile (`emu/devsrv.c`): acquire and release, `dev.l`, a channel's death, and the
   reference counts of a file; invariant: no SrvFile is freed while a channel, an entry or a
   fid names it.
2. Collector with free functions that give the VM away, and with several arenas.
3. Pdebug in DisChan (`emu/devprog.c`).

## 7. Not modelled

The debugger's states, data movers and the other Dis instructions; in the collector,
several arenas, marklist's re-marking of the tail of a list, the leak when more than 64
destroys are nested, free functions that give the VM away, type descriptors and the freeing
of modules; in the mount driver, attaching and sharing a connection, the wrappers that make
each message and the loop of mntrdwr; in pipes, the exception that a failing write raises in
the writing prog (`r->kill`); in exportfs, the loop of Exread that seeks in a directory, which is
one step of the device, exclusive exports and several exports on
one `exq`; file2chan; `qget`, `qconsume`, `qdiscard`, `qpass`, `qcopy`,
`qflush`, `qnoblock` and `qsetlimit` (no caller in emu) and message queues (only in devprog); attach, walk and stat of devices. Memory pools, loader, JIT compilers, Styx
encoding, graphics, Tk, security and the host devices are sequential, pure I/O or out of a
model checker's reach. Other host ports implement the promise of RendezAbs with their
host's primitives. The native kernel `os/`, the file server `kfs/`, the Limbo compiler, the
applications and the compilers under `utils/` are programs of their own. PROJECT.json
lists each with its reason.
