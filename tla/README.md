# TLA+ models of the bhyve/vmm tree in `src/bios`

The repository is a copy of FreeBSD's hypervisor, with a small BIOS of its
author added: the kernel module `vmm` (`src/bios/vmm`), the user-space device
models and vcpu threads of `bhyve` (`src/bios/bhyve`), and a boot ROM that talks
to bhyve through I/O port 0x100 (`src/bios/microboot`). This directory holds TLA+
models of it, the TLC configurations that check them on small instances, and
TLAPS proofs of the most important safety properties for every instance.

    tlc -workers 2 -config MCStorage.cfg MCStorage     # one run
    tlapm VmmProofs.tla                                # one module's proofs

`PROJECT.json` lists the runs, the correspondence between definitions and source
lines, the mutations that show that each property can fail, and the hazards the
properties are aimed at.

## 1. Inventory

| part | state it keeps | operations | hard behaviour | what makes it correct |
|---|---|---|---|---|
| vmm core (`vmm.c`, `vmm_dev.c`) | per vcpu: run state, reqidle, pending NMI/ExtINT/exception; per VM: active, suspended, halted and debug sets, rendezvous function and its request/done sets | VM_RUN, VM_SUSPEND, VM_SUSPEND_CPU/RESUME_CPU, VM_REINIT, injection, `vm_smp_rendezvous`, ioctls that freeze one or all vcpus | one thread per vcpu plus ioctl threads; sleep/wakeup and IPIs; barriers that wait for all vcpus | one owner per vcpu; no event is lost between the last check and guest entry or sleep; barriers hold and end |
| Intel/AMD back ends (`vmx.c`, `svm.c`) | VMCS/VMCB | the entry loop: inject, check, enter, exit | order of injection and checks; an exit in the middle of a delivery | a pending request always causes an exit; an event is delivered once |
| local APIC (`vlapic.c`), I/O APIC, 8259 | IRR/ISR/TMR, timers, redirection table, pins | accept, deliver, EOI, register access, IPIs | level-triggered redelivery; timer callout against register writes | highest priority first; no lost level interrupt |
| timers (`vatpit.c`, `vhpet.c`, `vrtc.c`) | counters, callouts | register access, callout | callout racing with reprogramming | armed for the moment the registers say |
| instruction emulation (`vmm_instruction_emul.c`, `task_switch.c`) | the decoded instruction, page-table entries, TSS links | decode, emulate, walk, copy, switch | another vcpu rewrites page tables; a fault half-way | the architecture's rule, and nothing half done |
| memory and pass-through (`vmm.c`, `ppt.c`, `iommu.c`, `vtd.c`) | segments, mappings, domains, assigned devices | map, assign, map MMIO, set up MSI | two VMs and one device | a device reaches its VM's pages only |
| vcpu threads (`bhyverun.c`), debugger (`gdb.c`), checkpoints (`snapshot.c`) | set of running vcpus, stop and step state, image files | start, stop, step, pause, save, restore | vcpu threads against the gdb and checkpoint threads | a stopped vcpu does not run; a stop is reported once; a restore gives what was saved |
| event loop (`mevent.c`) | registered events, change list, wakeup pipe | enable, disable, dispatch | changes against a blocked `kevent()` | a change takes effect |
| block backend (`block_if.c`) | elements on three queues, worker threads, cancellation entries, pause and close flags | request, cancel, pause, resume, close, worker loop | worker pool, chained requests, signals, shared locks | one element per request; no leak; everything submitted completes |
| disks: AHCI, NVMe, virtio-blk, virtio-scsi | command slots, queues, rings, port state | register access, doorbells, completions, resets | completion threads against register writes | a command completes once, after its last transfer; none is moved after it was taken back |
| virtio transport, virtio-net, `net_backends.c` | ring indices, flags, owner threads | get, return, release, end chains; kicks; reset; receive, transmit | shared memory without locks; three mutexes, three threads | chains are conserved; no lost kick or interrupt; delivery |
| virtio console, UART, keyboard controller, PS/2, RFB | FIFOs, IRQ lines, ports, checksums | guest access, host input | host thread against guest access | nothing lost or doubled below capacity; IRQ level matches state |
| xHCI and USB, e82545, HD audio | event, command and transfer rings, streams | commands, doorbells, register access | rings shared with a guest, threads of their own | order kept, position exact, quiet when disabled |
| PCI bus, IRQ routing, `mem.c`, `inout.c` | configuration space, BAR trees, handler tables, lookup hints, INTx counts | configuration access, (un)register, dispatch, route | cached lookups, moves during a dispatch | a handler is called inside its BAR; lines agree with their causes |
| firmware control, power management | request state, PM registers | word-wise port access, button, SIGTERM | signal thread against register writes | sides in step; a press is not lost |
| BIOS (`microbios.c`, `memdisk.c`, `microboot/`), firmware tables, user-space pass-through | shared page, static data, the real device | | | not modelled (section 8) |

Interactions: a vcpu thread of bhyve calls VM_RUN (vmm); an exit that vmm cannot
handle returns to the thread, which calls a device model through `mem.c`,
`inout.c` or `pci_emul.c` with the device's own lock. Device models answer from
the event thread, from worker threads (`block_if.c`, the virtio-net transmit
thread, the audio thread) and interrupt the guest through vmm ioctls, which end in
`vcpu_notify_event()`. So the chain a guest request takes is
queue - device model - backend - interrupt - vcpu wakeup, and each link is a
place where a wakeup can be lost. The models cover that chain link by link.

## 2. Modules

A module models one device or one mechanism. Large components have their state in
several variables; a small device keeps it in one record (`sc`, or a name of its
own where a module holds two devices), after the `softc` of the code: an operator on
the record is a function of the source, an action is a handler under the device's lock.

| module | source | what it is |
|---|---|---|
| `Vmm`, `VmmProofs` | `vmm.c`, `vmm_dev.c`, `vmx.c`, `svm.c` | vcpu states, VM_RUN and the other ioctls (section 3) |
| `VcpuEvents` | `vmm.c`, `vmx.c`, `svm.c` | one vcpu's events on their way into the guest, with the exits that interrupt a delivery |
| `Vlapic`, `Vioapic`, `LapicTimer`, `PlatformProofs` | `vlapic.c`, `vmm_lapic.c`, `vioapic.c` | interrupt controllers (section 3) |
| `Vatpic` | `vatpic.c` | both 8259 chips |
| `TimerChips` | `vatpit.c`, `vhpet.c`, `vrtc.c` | 8254 (`pit`), HPET (`hpet`), RTC (`clk`) and its date formats (`conv`) |
| `Vie`, `GuestMemory` | `vmm_instruction_emul.c`, `vmm.c`, `task_switch.c` | execution (`emul`) and decoding (`dec`) of an instruction; page walk (`walk`), stack access through segments (`acc`), hardware task switches |
| `Passthru` | `vmm.c`, `ppt.c`, `vtd.c` | memory segments, mappings, IOMMU domains and assigned devices of two VMs |
| `VcpuLoop` | `bhyverun.c`, `spinup_ap.c`, `snapshot.c`, `pm.c` | vcpu threads from start to exit, and checkpoints |
| `SnapshotImage` | `snapshot.c`, `pci_emul.c` | checkpoint files and their restore |
| `Gdb` | `gdb.c` | stops, steps and breakpoints (`srv`), packets and memory access (`conn`) |
| `BlockIf`, `BlockIfProofs` | `block_if.c` | block backend (section 3) |
| `CommandService` | | abstract: what a disk controller promises about a command |
| `Ahci`, `DmaLists`, `StorageProofs` | `pci_ahci.c`, `pci_nvme.c` | an AHCI port; cutting of PRDT (`cut`) and PRP lists (`prp`); proofs about the port and about all disks together |
| `Nvme`, `NvmeAdmin`, `NvmeProofs` | `pci_nvme.c` | controller and I/O queue pair; the admin queue |
| `VirtioDisk`, `VirtioDiskProofs` | `pci_virtio_block.c`, `pci_virtio_scsi.c` | `blk` over the block backend, `scsi` with its worker threads |
| `VirtioNet`, `VirtioNetProofs` | `virtio.c`, `virtio.h`, `pci_virtio_net.c`, `mevent.c`, `net_backends.c` | virtqueues and the network device (section 3) |
| `VirtioConsole` | `pci_virtio_console.c` | a socket port |
| `PciIntx`, `Dispatch` | `pci_emul.c`, `pci_irq.c`, `mem.c`, `inout.c` | INTx, MSI and the router; BARs and dispatch (`bus`), string I/O (`str`) |
| `XhciEvents`, `Xhci` | `pci_xhci.c`, `usb_emul.c`, `usb_mouse.c` | event ring and ports; slots and endpoints; transfer ring with the tablet (`ring`), control requests (`ctl`) |
| `E82545` | `pci_e82545.c` | interrupts, rings and threads; segmentation (`nic`), EEPROM (`eeprom`) |
| `Hda` | `pci_hda.c`, `hda_codec.c` | an output stream with the codec's thread (`strm`), command rings (`ctlr`) |
| `LegacyIo` | `uart_emul.c`, `atkbdc.c`, `ps2kbd.c`, `ps2mouse.c` | UART (`uart`), keyboard and mouse (`kbd`) |
| `Rfb` | `rfb.c` | screen updates of the VNC server |
| `Firmware` | `fwctl.c`, `pm.c` | firmware control channel (`fw`), power management (`pm`) |
| `DeviceProofs` | | proofs about `Passthru`, `VcpuLoop`, `PciIntx` and `VcpuEvents` |

The runs of one component take its module as it is (`Vmm`, `BlockIf`, `VirtioNet`); the
few definitions made for them stand at its end (`LiveSpec`, the symmetry of `BlockIf`, the mode sets of `VirtioNet`).
`MCVmmSafety` gives `Vmm` two scenarios. `MCPlatform`, `MCStorage` and `MCDevices` hold several that share no state: the
variable `part` is chosen by the initial state and names the one that
runs, so that the state spaces add instead of multiply, and a property is a
conjunction with one implication per part. The constants of each part are given in the
`INSTANCE` of the MC module.

## 3. The components with several variables

### Vmm - vcpu run states

One thread per vcpu loops over VM_RUN; `Others` issue the remaining ioctls.
`pc[t]` says where a thread is, `sleeping` who is blocked in
`msleep_spin()`/`mtx_sleep()`. A section under one vcpu lock or under
`rendezvous_mtx` is one step; the loops that notify the vcpus one after the
other, and the places where a lock is dropped, are steps of their own.

| actions | code |
|---|---|
| `LockedIoctl`, `LockGrant`, `LockRequest`, `LockWake`, `UnlockOne` | `vcpu_lock_one()`, `vcpu_lock_all()`, `vcpu_set_state_locked()` and their inverses, one vcpu at a time |
| `VmRun`, `RunBody`, `Enter`, `DisableIntr`, `Inject`, `CheckExit`, `CheckPass` | `vm_run()` and the entry loop; `AfterDisable` gives the order of the Intel or the AMD back end |
| `HandledExit`, `GuestExit`, `HostIpi`, `TripleFault` | the guest leaves; which exits happen is a constant |
| `HandleHlt`, `HltWake` | `vm_handle_hlt()` |
| `VmSuspend`, `HandleSuspend`, `SuspendLoop`, `SuspendWake` | `vm_suspend()`, `vm_handle_suspend()` |
| `SmpRendezvous`, `HandleRendezvous`, `RendezvousWake`, `ExitRendezvous` | `vm_smp_rendezvous()`, `vm_handle_rendezvous()`, `vm_exit_rendezvous()` |
| `VmSuspendCpu`, `VmResumeCpu`, `InjectEvent`, `ActivateBody`, `AccessBody`, `ReinitBody` | the other ioctls |
| `NotifyNext` | `vcpu_notify_event()` in the loops of its callers |
| `Timeout` | sleeps that have a timeout (`hz`) |

`Budget` bounds the number of ioctls other than VM_RUN in a behaviour; everything
else is finite by itself. Two ioctls are enough to interleave one request with
another that races with it; two vcpus are enough for "the last one" and "some
other one".

### BlockIf - block backend

Elements with `be_status`, workers with their place in `blockif_thr()`, the
canceller with the signal it waits for, and the pause and close flags. The order
of `bc_pendq` is kept as the relation `ahead`. The device model calls request
and cancel with its own lock, which its callback takes too (AHCI): `canceller`
stands for both locks. Requests, workers and elements are interchangeable
(symmetry in `blockif_safety`). `Elems` is `Reqs + Workers`, as
`BLOCKIF_MAXREQ` is. Two offsets are enough for chained and independent
requests. The backend may stop for good after a close, hence no deadlock
check; `StopsCleanly` says that such an end is a proper one.

### VirtioNet - virtqueues and the network device

A queue is a record (device indices, the avail and used rings
and their flags) and the operations of `virtio.c` are operators on it. Indices
wrap at `IdxMod` (2^16 in the code). Around it are the vcpu thread in
`vi_pci_write()` with `vsc_mtx` held, the transmit thread, and the event thread
with `mevent`'s change list and pipe. A look at the ring, the enabling of
kicks and the second look are separate steps, because the guest runs in between.

| actions | code |
|---|---|
| `QNotifyTx`, `PingTx`, `QNotifyRx`, `PingRx` | kicks: `vi_pci_write()`, `pci_vtnet_ping_txq()`, `pci_vtnet_ping_rxq()` |
| `Reset`, `ResetRx`, `ResetTx`, `ResetSleep`, `ResetSpin`, `Setup` | `pci_vtnet_reset()`, `vi_reset_dev()`, `vi_vq_init()`, `pci_vtnet_neg_features()` |
| `TxLock` ... `TxIntr` | `pci_vtnet_tx_thread()`, `pci_vtnet_proctx()` |
| `RxLock` ... `RxIntr` | `pci_vtnet_rx_callback()`, `pci_vtnet_rx()`, the tap backend |
| `Build`, `Poll`, `MeventUpdate` | `mevent_build()`, `mevent_dispatch()`, `mevent_update()` |
| `Post`, `PostDone`, `Interrupt`, `Reap`, `Recheck`, `Arrive` | external: a driver that keeps to the virtio protocol, and the network |

Bounds: a ring of two entries whose index wraps at four, so that the wrap and a
full ring both happen; one packet waiting in the tap device; packets of one
or two buffers, so that one packet may need more buffers than there are;
`MaxBatch` chains used between two calls of `vq_endchains()`. `Modes` are the ways
a driver may set the device up: mergeable buffers, NOTIFY_ON_EMPTY, MSI-X or
legacy interrupts, chains too small for the header.

### Vlapic, Vioapic, LapicTimer

`Vlapic` gives a local APIC as a record and the functions of `vlapic.c` as
operators on it: bitmap registers are sets of vectors, a priority class has
`ClassSize` vectors (16 in the code), of which class 0 is illegal. The vcpus
write their registers and send IPIs while other threads raise
interrupts; VM entry looks at the IRR and accepts a vector in two steps.
`Vioapic` adds the I/O APIC, whose entry writes drop the lock for a rendezvous,
and the way of an EOI back to the pins. `LapicTimer` is the callout of one timer; its
times are relative to now, so that the state space is finite.

| actions | code |
|---|---|
| `TprWrite`, `EoiWrite`, `LvtRegWrite`, `EsrRegWrite`, `SvrWrite`, `SvrMask` | `vlapic_write()` and the handlers it calls |
| `FixedIpi`, `NmiIpi`, `InitIpi`, `StartupIpi` | `vlapic_icrlo_write_handler()`, with `vlapic_calcdest()` as `CalcDest` |
| `MsiIntr`, `TriggerLvt` | `lapic_intr_msi()`, `lapic_set_local_intr()` |
| `InjectEvent`, `AskPending`, `Accept`, `CantInject` | the injection at VM entry of either back end |
| `AssertIrq`, `DeassertIrq`, `PulseIrq` | `vioapic_set_irqstate()`, `vioapic_set_pinstate()`, `vioapic_send_intr()` |
| `EntryWrite`, `UpdateTmr`, `EndWrite` | `vioapic_write()` before, during and after the rendezvous |
| `Eoi`, `IoapicEoi` | `vlapic_process_eoi()`, `vioapic_process_eoi()` |
| `IcrWrite`, `DcrWrite`, `TimerLvtWrite`, `TimerSvrWrite`, `SvrStop`, `SvrMaskTimer`, `SvrStart` | the timer's registers |
| `Expire`, `Handler`, `Tick` | callout(9) (external) and `vlapic_callout_handler()` |

What is assumed of the guest of `Vioapic`: it serialises its entry writes, and
changes an entry apart from its mask only while the entry is masked and
REM_IRR is clear. Without the second assumption an EOI does not find the pin
that waits for it, on real hardware as well. Device models deassert only
what they have asserted (`acnt` is a count).

Bounds: two vcpus; eight vectors in four classes, so that one class is illegal and
the vectors of the IPIs and pins (2, 4, 5, 6) lie in the three others, so that interrupts nest three
deep; `ApicOps` register writes and raised interrupts;
two pins that may share a vector, asserted by up to `MaxAcnt` devices, with
`PinOps` pin events and entry writes. Deasserts, EOIs, injections and the
rendezvous are not counted. A write, an assert inside its
window and one more assert are within three events. The timer gets `TimerOps`
register writes, counts up to two and two divisors, and a callout that is at
most `MaxLag` late: more than the shortest period and less than the longest, so
that both branches of the rearming happen. Nothing is left to do when the counted
operations are used up and everything is served, hence no deadlock check.

## 4. The abstract command service

`CommandService` says what a guest may rely on for one command of a disk
controller: it is submitted to a running controller, its backend transfers are made,
it is reported complete only when the last one was made, it completes or fails but
not both, and it is taken back without an answer only when the guest has stopped the
controller and none of its transfers is in progress. A reset of the controller with commands out
loses them: neither `ahci_reset()` nor `pci_nvme_reset_locked()` waits for the backend or cancels its requests, and
the service promises nothing of a lost command but that it is one until its requests are gone. Steps of different
commands may coincide (a port stop takes several commands back), hence the
universal quantifier in its `Next`.

`MCStorage` maps the AHCI port, the NVMe queue pair and both virtio disks to it
(`ChainStatus`, `ChainWork`, `ChainsMoving`, `ControllerRuns`, from operators
`Status`, `Work`, `Moving`, `Running` of each module) and checks
`CommandsImplement == CS!Spec`. The virtio disks always run: nothing of theirs is ever aborted or
lost, and a chain returned before its last transfer is refused.

What is assumed of the guest. AHCI: ST is set with FRE set and once CR is clear, a device left busy is
overridden with CLO, and a software reset is sent alone. A port may be stopped (with FRE cleared or not), given a COMRESET
or reset with the controller at any moment; slots in use at a controller reset are `stale` until their requests
are gone and `Status` gives them as lost. NVMe: the driver deletes the submission queue first, rings no doorbell
of a controller it disables or of a queue it deletes, and makes a queue once between two resets, because
`pci_nvme.c` keeps the indices of a deleted queue. Both happen with requests in flight:
a completion after a reset goes to the admin queue (`stray`, the command is lost), one after a deletion meets the
assertion of `pci_nvme_set_completion()` (`dead`, section 7).

## 5. Runs

| run | instance | checks |
|---|---|---|
| `vmm_safety` | two vcpus, a device-model thread, two ioctls; part `events` on Intel (suspend, debug stop, NMI, interrupt, HLT, triple fault, I/O APIC writes), part `ioctls` on AMD (ioctls that freeze one or all vcpus, activation, reset, thread suspension) | one owner per vcpu, whole-VM ioctls find every vcpu frozen, a suspended vcpu never runs, no wakeup (`NoLostWakeup`) and no IPI (`NoLostKick`) is lost, the VM is found halted only when it is (`HaltDetectionExact`) |
| `vmm_live` | two vcpus that suspend, stop, resume, inject and rendezvous with each other. `LiveNext` names the steps of this scenario | the rendezvous barrier, and that suspension, rendezvous and HLT end |
| `vmm_halted_assert`, `vmm_lockall_rendezvous` | | violations, section 7 |
| `blockif_safety` | two requests, two workers, two offsets; cancel, pause, close | one element per request, no element leaked, no queued request left behind, pause and close return only when quiet and do return |
| `storage` | block backend with two requests; AHCI with two slots and a polling driver, or one slot and any of the three ways to interrupt; both with a guest that may stop or reset once (`GuestOps`; the proofs are for any number); NVMe with two tags, a completion queue of three (so that the phase turns over), one backend request; its admin queue; virtio-blk and -scsi with two chains and two workers | refinement of the command service, accounting of every command, completions announced, every command ends |
| `vtnet_tx` | transmit queue, kicks, suppression, index wrap, reset at any moment | chains conserved, every chain comes back, every reset ends |
| `vtnet_rx` | receive queue in all modes | chains conserved, also when a packet is given up half-way; no lost kick or interrupt; delivery with MSI-X. Legacy mode can stop for good (section 7), hence no deadlock check |
| `vtnet_stale`, `vtnet_legacy` | | violations, section 7 |
| `platform` | local APICs, I/O APIC, timer | nested interrupts keep the ISR stack ordered; REM_IRR stands for an interrupt somebody will end, trigger modes match outside the write window and an asserted level pin is not forgotten (`LevelsTracked`); an EOI is swallowed only in the window; no timer interrupt early or after a stop, callout and count agree (`TimerExact`); requests get into service and an armed timer fires |
| `devices` | 36 parts, constants in `MCDevices`; among them all PRDT lists of up to four entries and all PRP lists of up to eight bytes | `LinesAgree`: a cause raises its interrupt line, and for most devices only a cause does; `TimersAgree`: callouts follow registers; `RingsInOrder`: what travels through rings and FIFOs arrives once and in order and is not stuck; `ConversionsExact`: decoders, formats, segmentation, images; `ProtocolKept`: debugger stops, page walks, task switches, event delivery, checkpoints, dispatch, slots, assignment |

Every bound is a constant. Those named `...Ops`, `Max...`, `Switches`, `Inputs` count the guest's
or the host's free choices and cap them so that a behaviour is finite; what the code
does in response is not counted. The sizes are the smallest at which the interesting cases
happen: a ring of three or four entries wraps and fills within the counted operations;
two devices or more share a line or a pin; two vcpus race and a third comes up late
(`Gdb`, `VcpuLoop`); a count of time covers two periods and a late callout; a
"byte" of `Vie` has one bit and one of `TimerChips` two values, so that operand sizes and
carry between bytes keep their ratios. No branch of the models in `MCDevices` stays
unvisited, save an early return of `ConfigEp` whose guard excludes it.
`MCDevices`, `MCStorage` and `MCPlatform` are not checked for deadlock: when the
counted operations are used up nothing is left to do. That nobody is stuck then is part of the
properties (`TxNotStuck`, `ReportNotStuck`, `PauseIsWoken`, `ExitIsReached`, `DebuggerNotStuck`...).

Fairness:

* `Vmm`: kernel threads are scheduled, IPIs are delivered, and a
  vcpu thread of bhyve calls VM_RUN again. The guest never has to exit by itself.
  No fairness is assumed of an ioctl being issued.
* `MCStorage`: the backend's workers run and transfers finish; a worker that waits
  for a mutex that is released again and again gets it (strong fairness); the
  signal handler and the loop of a canceller run; callbacks and device threads run;
  the guest's interrupt handler runs once the interrupt is raised, and a driver that has set
  the SACT bit of a queued command issues it. Nobody need submit, cancel, stop or reset.
* `VirtioNet`: the threads are scheduled, a driver that has begun a step of the
  protocol finishes it, packets keep arriving. A thread that waits for a mutex
  released again and again gets it (strong fairness, of the vcpu and the transmit
  thread). The driver never has to post or reset.
* `MCPlatform`: vcpus run, take part in a rendezvous and end a register write; time
  passes and due callouts are called; the guest ends its interrupts, releases the
  device that raised them, and does not keep interrupts disabled forever
  (strong fairness of `Accept`).

## 6. Proofs

A module `XProofs` proves properties of the components it extends for every value
of their constants that satisfies the named assumptions of those modules. Each
proof finds an inductive invariant, shows it of `Init`, shows that every action
preserves it (one lemma per action or group of actions, and frame lemmas such as
`QuietStep`, `PlaceOwn`, `StackFrame` or `LapicOnlyInv` for steps that leave a part alone),
and derives the property. The storage and device modules state what the code fixes about their
constants as a definition (`Params`, `LoopParams`, `IntxParams`...), a hypothesis of their
theorems that the configurations satisfy: sets of devices and tags are finite, a
queue has entries, a name that stands for nobody is not the name of somebody. Hypotheses beyond
these are given below with the reason in the code.

**Vcpus (`VmmProofs`)**, for any number of vcpus and ioctl threads and either
back end:

* `TypeCorrect`: `Spec => []TypeOK`;
* `SingleOwnerAlways`: a vcpu is idle exactly when no thread holds it and has
  never two owners. `SingleOwner` is not inductive: that a thread releases
  only what it holds depends on where it is. `OwnerInv` adds that holders are
  disjoint, that a thread inside VM_RUN holds its vcpu, that what an ioctl
  holds and still wants covers what it needs (`LockCovers`), and that a
  vcpu's state agrees with the place of its thread (`StateMatchesPc`);
* `WholeVmExclusiveAlways`: in the body of a whole-VM ioctl every vcpu is
  frozen: a consequence of `LockCovers` and `StateMatchesPc`;
* `RendezvousBarrierAlways`: no initiator passes a rendezvous that a target
  still owes. `RdvInv` adds to `OwnerInv` that what is owed lies within the
  requested, not yet done and active vcpus while the initiator waits (`Owed`), and that the
  set an initiator has sampled stays active: a reset would clear it, and
  needs all vcpus frozen, which is where `OwnerInv` comes in;
* `SuspendedNeverRunsAlways`: `PlaceInv` adds to `OwnerInv` where the
  subroutines of a vcpu's thread return to and that a suspended vcpu inside VM_RUN is
  inside `vm_handle_suspend()`;
* `NoLostWakeupAlways` and `NoLostKickAlways`: `EventInv` adds that a vcpu which
  has passed its checks, or sleeps, and has a reason to stop has a notifier
  that will still look at its state (`Heard`). The notifiers set the reason before they
  look, the vcpus show their state before they look: neither order can be
  given up. `NoLostKickAlways` assumes `ChecksLast`: on Intel `vmx_run()` checks after
  it injects; `svm_vmrun()` checks first, so that a triple fault in its own
  injection takes a vcpu into the guest once more;
* `HaltedAssertAlways`, `HaltDetection`: the assertion of `vm_handle_hlt()` and the
  exactness of its halt detection, assuming that `thread_check_susp()` reports no error
  (`~SuspChk`). Without that hypothesis `vmm_halted_assert` refutes the assertion.

**Block backend (`BlockIfProofs`)**, for any number of elements, workers and
requests: `BlockTypeCorrect`, `OneElementPerRequestAlways`, `NoOverrunAlways`,
`NoStuckQueueAlways`, `StopsCleanlyAlways`. `BlockInv` says which worker holds which
element of `busyq` (`Held`), that `pendq` is an order (`QueueOrder`), that a blocked
request is blocked by one in flight or ahead of it (`BlockedForCause`) and how the flags of
`blockif_pause()` and `blockif_close()` go with the workers (`Control`).
`NoOverrun` counts: elements not free are those of outstanding requests and one per
worker that is past its callback. `NoStuckQueue` needs in addition that a runnable
request has an awake worker (`Attended`), which survives because a worker that
sleeps has found nothing to run.

**virtio-net (`VirtioNetProofs`)**, for any queue size, index width and packet
lengths:

* `NetTypeCorrect`, without a hypothesis;
* `ChainsConservedAlways`: `NetInv` describes the rings as sequences that wrap
  (`RingOk`): the entries of the avail and used rings are distinct, disjoint from the
  chains the device holds, together they are what the driver gave away, and the
  chains `pci_vtnet_rx()` holds are still in the slots it took them from, so that
  `vq_retchains()` may give them back (`ChainsKept`). It assumes `NoRxReset`: a receive
  callback outlives a reset of the device in this code, and then the rings it works
  on are not the driver's any more (run `vtnet_stale`);
* `NoLostNotificationAlways`: `NoteInv` adds, for kicks, that a thread that sleeps has
  allowed them and, if there is work, one is on its way, and for interrupts that a
  driver that waits has allowed them and one is pending, about to be raised, or
  owed by the thread at work. It assumes `BatchFits` beside `NoRxReset`: `vq_endchains()`
  compares 16-bit indices and would see no progress after a multiple of 2^16 chains
  used between two calls.

The configurations of the runs satisfy these two hypotheses and those of `VmmProofs` (`vtnet_rx` for the receive queue,
`vmm_safety` for `ChecksLast`; its first scenario for `~SuspChk`).

**Interrupt hardware (`PlatformProofs`)**:

* `TimerExactAlways`, for all counts, divisors and delays. `TimerInv` relates the
  callout's flags to the history of the arming (`Callout`), the time left to the
  initial count (`Countdown`), and the SVR write in progress to the callout (`Periodic`);
* `IsrStackOkAlways` (and `IoapicIsrStackOkAlways` for the local APICs under the
  I/O APIC), for any number of vcpus, vectors and classes. `StackInv` strengthens the order
  of neighbours to that of all pairs, from which the top of the ISR is the last vector of
  the stack, and says that the vector a vcpu has looked up but not accepted is above the
  stack still: other threads only add to the IRR, and the vcpu's own thread is the one that
  looked;
* `LevelsTrackedAlways` and `SwallowedOnlyInWindowAlways`, for any number of pins and
  vcpus. `IoapicInv` says of every vcpu that its trigger modes match the table or that
  it has yet to take part in the rendezvous (`Tmrs`), that REM_IRR is set in
  level-triggered pins only, and that the interrupt it stands for is at a vcpu of the
  pin's own destination (`Tracked`): the end of an interrupt of the same vector at any
  other vcpu says nothing about the pin. `IoapicAssumption` says that pins have legal vectors and
  destinations that name a vcpu; a pin aimed at nobody keeps REM_IRR forever;
* `PlatformTyped`: `TypeOK` of the whole run. `PlatformInv` joins the invariants above with the
  ranges of the registers they do not mention; the ranges of the I/O APIC's counts and REM_IRR need `IoapicInv`.

**Disks (`VirtioDiskProofs`, `NvmeProofs`, `StorageProofs`)**. Each device has its own specification,
invariant and refinement of `CommandService`; `StorageProofs` puts them together for the
properties of the run:

* virtio: `BlkImplements`, `ScsiImplements`, with `...Accounted` and `...Announced` beside them. `BlkInv` and
  `ScsiInv` say where a chain is (avail ring, request list, one worker, backend, used ring), that rings and lists repeat
  nothing, and that what was returned is announced. The SCSI theorems need a worker, as `pci_virtio_scsi.c`
  starts `VTSCSI_THR_PER_Q` of them for a queue: without one nothing is ever served;
* NVMe: `NvmePhasesAlways`, `NvmeAnnouncedAlways`, `NvmeAccountedAlways`, `NvmeImplements` and, for the admin queue,
  `AdminQueuesAlways`, `AdminAnnouncedAlways` (a queue of more than one entry). `Inv` relates
  the posted entries and their phases to the head the guest has reached and the head the controller has been told
  (`Queue`), and the semaphore, the free list and `pending_ios` to the requests in use.
  `NvmeQueueHandled` assumes `Locked`: the guest rings a queue's doorbell under a lock of its own. Without it the
  `busy` flag, cleared after the last look at the tail, loses a doorbell;
* AHCI: `AhciImplements`, `AhciAccountedAlways`, `AhciAnnouncedAlways`. `Fine` says which slots are issued, pending, and at
  the backend, how `busy`, `reset` and `waitforclear` go with them, and that a cause the guest enabled is raised.
  `ahci_handle_port()` goes over the slots in a loop, a recursive function of the model: one turn
  preserves the invariant and the simulation (`Turn`), and a least turn after which it failed
  does not exist;
* `StorageAccounted`, `StorageAnnounced`, `StorageImplements`: the invariants and the refinement of the run `storage`,
  for any number of AHCI slots and of transfers to a command; the other sizes are those `MCStorage` gives its
  instances. The refinement assumes two slots and a transfer or more, because the run compares all disks on
  the same two commands.

**Pass-through, vcpu threads, INTx, events of a vcpu (`DeviceProofs`)**:

* `PassthruSpace`, `PassthruPages`, `PassthruConfined`, for any number of VMs, devices, segments, mappings and pages.
  `Good` has the types, and what holds until the race of two assignments or the panic of `vtd_add_device()`: mappings lie
  inside their segments and do not overlap, the address space holds their pages and those of the MMIO windows and no other, a domain
  holds the pages of the mappings marked as given to it and the host the rest, and a VM with marked mappings has a device or is
  getting one (`Fine`). Unassigning all devices and freeing all mappings are loops; their
  results are defined and correct by the least-counterexample argument;
* `CheckpointSafe`, `ShutdownSafe`, for any number of vcpus. `LoopInv` says of every thread, from the place it is
  at, in which of the sets (`cpumask`, `vcpus_active`, `vcpus_suspended`, active in the kernel) it is (`ThreadOk`), what only
  the boot processor does (`BootOk`), and what the stage of the checkpoint implies about all (`CheckpointOk`);
* `IntxLines`, for any number of devices, slots and pins. The counts of the property are inductive together with
  "an idle line is one nobody wants", which holds also while a configuration write is half done. That start-up gives
  every device a router pin and an I/O APIC pin needs an interrupt the router may use: without one
  `pirq_alloc_pin()` asserts;
* `EventsDelivered`, for both back ends and any number of events and instructions. `EventInv` adds to the properties where an
  event can be at each place of the vcpu (`OnePlace`), why no NMI comes while one is handled (`NmiBlocked`: NMIs are blocked, or
  the intercepted IRET is being restarted in a shadow that the next entry keeps because `rip` has not moved), why what
  is saved at an exit can be injected again (`Acceptable`: an NMI that comes back from VT-x finds NMIs
  unblocked, an interrupt still finds them enabled), and, between an entry and the next kick, which window waits for what
  is pending (`Windows`). The steps before an entry are taken one by one (`EvPending`, `EvVmxNmi`, `EvVmxIntr`, `EvSvmNmi`,
  `EvSvmIntr`), so that each shows its own part of `Windows`.

Model-checked only:

* liveness: the prover has no ENABLED and no reasoning about fairness. For the same reason `CommandsEnd`
  and the other temporal properties stay with the runs;
* what recursive functions compute, beyond the loops above: the library's induction theorems take an operator and cannot be
  used, so each loop needs its own argument by a least counterexample. It was made where an invariant
  depends on it, and not for page walks, string instructions, list cutting and formats, where the function is the whole
  content (`ConversionsExact`);
* the properties of `MCDevices`, each a conjunction over many small devices. Proved of their conjuncts are those of
  `Intx` and `Ev` in `LinesAgree` and of `Loop`, `Ppt` and `Ev` in `ProtocolKept`;
* the halt property `HaltDetectionExact` as the run states it, with its scenarios; its
  content is `HaltDetection`.

Only `XhciEvents` declares a RECURSIVE operator (`PortEvents`), which a proof about it
would have to replace by a fold. Wanted next: the ring invariants of `E82545` and the
lines of the UART and the HPET.

## 7. What the models found

Runs that end in a violation:

* `vmm_halted_assert`: a thread that leaves HLT because of a signal
  (`thread_check_susp()`) keeps its bit in `halted_cpus`, and the next HLT
  meets the assertion that the bit is clear.
* `vmm_lockall_rendezvous`: `vcpu_lock_all()` freezes vcpus one at a time. A
  vcpu already frozen never answers a rendezvous that another vcpu, not yet
  frozen, has begun and waits for: neither the ioctl nor the rendezvous ends.
  `RendezvousCompletes` holds without whole-VM ioctls (`vmm_live`). The same
  happens between `vcpu_lock_all()` and `SuspendCompletes`.
* `vtnet_stale`: a receive callback that was dispatched before a reset waits for
  `rx_mtx` and, after the reset, uses the old ring, since `vq_getchain()` does
  not look at VQ_ALLOC.
* `vtnet_legacy`: without MSI-X, `vq_interrupt()` takes `vsc_mtx`. The receive
  path does so with `rx_mtx` held; a kick takes the locks in the other order:
  deadlock. In the same mode a reset, which holds `vsc_mtx`, waits for a
  transmit thread that waits for `vsc_mtx` (`ResetCompletes` fails if `Resets`
  contains a legacy mode).

Behaviour the properties exclude or the models keep out, met while modelling:

* `Vmm`: a vcpu activated during a rendezvous may find `rendezvous_func` cleared where it
  asserts that it is set (`RendezvousAssert`, not a run). On AMD the checks come before
  event injection, which may suspend the VM (triple fault while injecting): the vcpu then
  enters the guest once more. An ioctl that waits for an idle vcpu competes with its
  VM_RUN thread without any order. An NMI that arrives after a halting vcpu's last look
  does not stop the others from declaring the VM halted.
* `VcpuEvents`: on AMD an NMI in an interrupt shadow waits for the interrupt window;
  an interrupt whose delivery faults is dropped with the fault in its place.
* `Vlapic`, `Vioapic`, `LapicTimer`: `vioapic_write()` publishes an entry, drops its lock and
  only then makes the vcpus recompute their trigger modes; an interrupt of a new vector in that window
  has its EOI swallowed and REM_IRR stays set (`SwallowedOnlyInWindow` shows that this is the only way).
  A vcpu activated, or given another LDR, after the last entry write keeps old trigger modes.
  `vlapic_get_ccr()` after a switch to a smaller divisor exceeds the initial count ("invalid ccr").
  `vlapic_intr_accepted()` announces "Update the PPR" and leaves it to the next `vlapic_update_ppr()`.
* `TimerChips`: an 8254 count of 0 loads no timer before it becomes 0xffff; a square-wave
  status without a count divides by zero. Setting the RTC back with the alarm enabled runs through every
  second; a broken time leaves the callout; a periodic rate of 0 silences the alarm; a binary century
  of 100 or more is accepted and meets an assertion in `rtcset()`.
* `BlockIf`: `blockif_resume()` broadcasts `bc_cond` ("kick the threads after restore")
  while paused workers wait for `bc_paused_cond`: a request queued before the
  pause waits for the next one. `NoStuckQueue` is claimed of a backend that has not been paused.
* `VirtioNet`: exactly 65536 chains used before `vq_endchains()` leave `vu_idx` unchanged and the
  interrupt is not sent (`MaxBatch = IdxMod`). A packet in the tap bounce buffer does not make the
  descriptor readable: it waits for another packet. The transmit thread is assumed to
  have reached its first wait before the first kick.
* `VirtioConsole`: `pci_vtcon_open_port()` tests `vsc_ready` without the lock; a closed socket is read once more.
* `PciIntx`, `Dispatch`: a message of a masked MSI-X vector is dropped ("XXX Set PBA bit"). A BAR moved over
  a range that is already registered is not registered and its next move asserts; an I/O BAR moved while
  another vcpu is in `emulate_inout()` leaves that vcpu without a handler.
* `Ahci`: a command whose FIS is not host-to-device is left in PxCI, so that the loop of `ahci_handle_port()` never ends, with
  the mutex held (`spin`; the properties claim nothing of a port in it). While FRE is clear a completion, or an error, is not
  shown. A callback of before a controller reset may complete the command the guest has issued in its slot since.
* `Nvme`: deleting the I/O queues while a request is at the backend clears `qbase`, and the completion meets
  `assert(cq->qbase != NULL)` (`QueueIsThere` fails of `NvmeSpec`). The thread that makes a transfer of more than
  NVME_MAX_BLOCKIOVS pieces waits for each part ("wait until req completes before cont") on a condition variable without
  a condition to test, and the callback signals without the mutex: a part that completes before the thread waits leaves it waiting
  for ever, with the queue's `busy` flag (`PartsGoOn` fails of `FairSpec`; `CommandsEnd` leaves out `Missed`). The error of a part is
  dropped; `br_iovcnt` is zeroed before the part is given to the backend, so that it moves nothing (`PrpTransferExact`
  claims what follows it). A DATASET MANAGEMENT without the deallocate attribute completes with an unset status.
* `XhciEvents`, `Xhci`: the tablet's thread has no lock. It and a vcpu may put two events into one entry (`raced`), and
  a command that takes the endpoint away between its test and its use leaves it a null pointer
  (the crash `late`). A full event ring overwrites unread events; enabling an interrupt
  after its event raises nothing; Reset Device leaves the slot disabled and transfers pending; the display thread and a vcpu
  may both read a ring position before either takes the transfer's lock; the tablet executes control requests twice.
* `E82545`: masking the last cause leaves the line up; a reset lowers it and keeps `esc_irq_asserted`; `tx_enable` does not wake the thread;
  FIN and PUSH are cleared in the header all segments share; an MSS of 0 loops; a last receive
  descriptor that is exactly full gets length 0.
* `Gdb`: a debugger that resumes before the stop of its attach is complete gets no report of it;
  a connection before vcpu 0 loses the wait; closing the connection leaves the trap capability on; a
  breakpoint exit that races with it goes to the guest; three bytes at an aligned device address wrap around the length.
* `GuestMemory`: a page-table entry changed and changed back can get a dirty bit without an
  accessed one; supervisor writes ignore CR0.WP; an operand that wraps is checked at wrapped offsets and
  copied linearly. `read_tss_descriptor()` returns 1 where the caller asserts 0 or an error; a fault
  while the new busy bit is written leaves the current task not busy. `tss32_restore()` loads the CS and SS selectors
  before it validates their descriptors ("This ensures that the VMCS state can pass the VM-entry checks"): a fault in between
  resumes the guest with selectors of one privilege on descriptors of another (`SelectorsFit` fails), which VM entry
  refuses on a processor without unrestricted guest.
* `Hda`: `hda_update_intr()` runs unlocked in two threads; a stream restarted while the thread moves words
  loses its position; tag 0 asserts; a reset clears 8 of 32 bytes; a write pointer beyond the ring loops.
* `LegacyIo`: the keyboard controller changes its status after the unlock, where one thread's change can undo the
  other's (`StsStore`): a mouse byte is then not marked as one (`AuxMarked` leaves it out; `InputShown` holds); a partial key sequence when the FIFO is full.
* `VcpuLoop`, `SnapshotImage`: a suspension during a checkpoint leaves both waiting; an early failure of `vm_checkpoint()`
  resumes what was not paused; of several devices of one name the first is saved; a failed checkpoint has
  truncated the earlier files. All of it is compiled only with BHYVE_SNAPSHOT.
* `Firmware`, `Rfb`: an answer whose size is no multiple of four loses its last bytes; `pm1_control` is read and
  written back without the lock; a screen cell drawn back to its old contents stays stale at the client.
* `Passthru`: a refused first assignment leaves a domain without a device; two VMs race between the
  test of the owner and the assignment; assigning a device twice to one VM panics in `vtd_add_device()`;
  memory mapped after an assignment is not in the IOMMU.

## 8. Not modelled

Firmware tables (ACPI, SMBIOS, MP table), option parsing, statistics, CPUID and MSR tables, the
encoding of VMCS and VMCB, translation hardware and its ACPI tables, pixel, text and audio data, the codec's
widget tables, descriptor contents: data without a protocol. User-space pass-through drives a real
device whose state it does not hold. The BIOS's host side answers one port write with one copy and keeps
nothing between calls; its guest side runs once, before the guest. Of the modelled parts: x2APIC mode and posted
interrupts (`Vlapic`), the descriptor walk of `vq_getchain()` and register decoding (`VirtioNet`), resets of the virtio disks (`pci_vtblk_reset()`, `pci_vtscsi_reset()`, which forget the rings and wait for nobody), adding and deleting
events (`mevent.c`), netmap and netgraph, USB streams, PHY and statistics registers of the e82545,
PCI capabilities and the MSI-X table. The notes of `PROJECT.json` say so per component.
The devices are checked one at a time; composed are the local APICs with the I/O APIC and the
event loop with the network device. The disks see the block backend as a step that starts and a step that
calls back, which is what `BlockIf` and the last property of `storage` establish of it.
