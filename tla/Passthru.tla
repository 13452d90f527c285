----------------------------- MODULE Passthru -----------------------------
(***************************************************************************)
(* Guest memory and passed-through PCI devices (vmm.c, io/ppt.c,           *)
(* io/iommu.c, intel/vtd.c): memory segments and their mappings into the   *)
(* guest address space, the IOMMU domain of a VM, and the devices assigned *)
(* to it with their MMIO windows and interrupts.  The ioctls of one VM are *)
(* serialised (vcpu_lock_all()), those of two VMs are not, and             *)
(* ppt_assign_device() resets the device between the test of its owner and *)
(* the assignment.                                                         *)
(*                                                                         *)
(* The virtual address space (vm_map), the PCI interrupt allocator and the *)
(* translation hardware are external: `space' maps a page of guest memory  *)
(* to what is mapped there, `alloc' is what pci_alloc_msi[x]() handed out, *)
(* `ctx' is the context entry of a device.  A page of host memory is named *)
(* by the segment it backs.                                                *)
(***************************************************************************)
EXTENDS Integers, FiniteSets

CONSTANTS Vms, Devs,
          Segs,       \* segment ident |-> number of pages
          Gpas,       \* guest pages
          MaxMaps,    \* VM_MAX_MEMMAPS
          MaxMmio,    \* MAX_MMIOSEGS
          Msgs,       \* messages of a device with MSI or MSI-X
          PptOps      \* bound: operations

VARIABLE sc

None == "none"
Host == "host"
Slots == 1..MaxMaps
NoMap == [len |-> 0]
PagesOf(v, s) == { <<v, s, k>> : k \in 0..(Segs[s] - 1) }

NewVm(st, v) == [st EXCEPT !.seg[v] = [s \in DOMAIN Segs |-> None],
                           !.refs[v] = [s \in DOMAIN Segs |-> 0],
                           !.maps[v] = [i \in Slots |-> NoMap],
                           !.space[v] = [g \in Gpas |-> None]]

NewDev == [attached |-> TRUE, vm |-> None, mmio |-> {}, msi |-> 0, startrid |-> 0,
           msix |-> FALSE, irqs |-> {}, alloc |-> None]

Init ==
    sc = [seg |-> [v \in Vms |-> [s \in DOMAIN Segs |-> None]],
          refs |-> [v \in Vms |-> [s \in DOMAIN Segs |-> 0]],
          maps |-> [v \in Vms |-> [i \in Slots |-> NoMap]],
          space |-> [v \in Vms |-> [g \in Gpas |-> None]],
          host |-> UNION { PagesOf(v, s) : v \in Vms, s \in DOMAIN Segs },
          iommu |-> [v \in Vms |-> FALSE], dom |-> [v \in Vms |-> {}],
          ctx |-> [d \in Devs |-> None],
          ppt |-> [d \in Devs |-> NewDev],
          assigning |-> [v \in Vms |-> None],
          panic |-> FALSE, raced |-> FALSE, failed |-> {}, ops |-> 0]

(* The VM's ioctls wait for the one that holds all its vcpus; a panic ends *)
(* the system.                                                             *)
Ready(v) == ~sc.panic /\ sc.assigning[v] = None /\ sc.ops < PptOps

Counted(st) == [st EXCEPT !.ops = @ + 1]

-----------------------------------------------------------------------------
(* Memory segments and mappings.                                           *)

(* An existing segment is EEXIST or EINVAL; either changes nothing. *)
VmAllocMemseg(v, s, sysmem) ==
    /\ Ready(v)
    /\ sc.seg[v][s] = None
    /\ sc' = Counted([sc EXCEPT !.seg[v][s] = IF sysmem THEN "sysmem" ELSE "devmem",
                                !.refs[v][s] = 1])

GpaRange(m) == m.gpa .. m.gpa + m.len - 1

Covers(m, g) == m.len # 0 /\ g >= m.gpa /\ g < m.gpa + m.len

SysmemMapping(st, v, m) == m.len # 0 /\ st.seg[v][m.seg] = "sysmem"

(* vm_map_remove(): the range is free again and drops its reference. *)
FreeMemmap(st, v, i) ==
    LET m == st.maps[v][i] IN
    IF m.len = 0 THEN st
    ELSE [st EXCEPT !.space[v] = [g \in Gpas |-> IF Covers(m, g) THEN None ELSE @[g]],
                    !.refs[v][m.seg] = @ - 1,
                    !.maps[v][i] = NoMap]

(* vm_map_wire() fails: vm_map_remove() undoes vm_map_find(), and the      *)
(* reference taken in between is the one the removal drops.                *)
WireFailed(v, m) ==
    /\ sc' = Counted(sc)

(* The first slot of length 0; vm_map_find() with VMFS_NO_SPACE refuses a  *)
(* range that is not free.                                                 *)
VmMmapMemseg(v, s, gpa, first, len, wired, wireFails) ==
    LET free == { i \in Slots : sc.maps[v][i].len = 0 }
        m == [gpa |-> gpa, len |-> len, seg |-> s, off |-> first,
              wired |-> wired, iommu |-> FALSE]
    IN
    /\ Ready(v)
    /\ sc.seg[v][s] # None
    /\ len > 0 /\ first + len <= Segs[s]
    /\ free # {}
    /\ GpaRange(m) \subseteq Gpas
    /\ \A g \in GpaRange(m) : sc.space[v][g] = None
    /\ IF wireFails THEN wired /\ WireFailed(v, m)
       ELSE sc' = Counted([sc EXCEPT
                    !.space[v] = [g \in Gpas |-> IF Covers(m, g) THEN "mem" ELSE @[g]],
                    !.refs[v][s] = @ + 1,
                    !.maps[v][CHOOSE i \in free : \A j \in free : i <= j] = m])

PptIsMmio(st, v, g) ==
    \E d \in Devs : st.ppt[d].vm = v /\ \E w \in st.ppt[d].mmio : Covers(w, g)

VmMemAllocated(st, v, g) ==
    \/ \E i \in Slots : Covers(st.maps[v][i], g)
    \/ PptIsMmio(st, v, g)

-----------------------------------------------------------------------------
(* The IOMMU domain of a VM.                                               *)

PageAt(v, m, g) == <<v, m.seg, m.off + g - m.gpa>>

IommuMapped(st, v) ==
    { i \in Slots : SysmemMapping(st, v, st.maps[v][i]) /\ st.maps[v][i].wired }

(* vm_iommu_map(): the wired system memory moves from the host's domain to *)
(* the VM's; the assertion is that none of it is there already.            *)
VmIommuMap(st, v) ==
    LET S == IommuMapped(st, v)
        gs == UNION { GpaRange(st.maps[v][i]) : i \in S }
        at(g) == CHOOSE i \in S : Covers(st.maps[v][i], g)
    IN
    IF \E i \in Slots : SysmemMapping(st, v, st.maps[v][i]) /\ st.maps[v][i].iommu
    THEN [st EXCEPT !.panic = TRUE]
    ELSE [st EXCEPT !.dom[v] = { <<g, PageAt(v, st.maps[v][at(g)], g)>> : g \in gs },
                    !.host = @ \ { PageAt(v, st.maps[v][at(g)], g) : g \in gs },
                    !.maps[v] = [i \in Slots |-> IF i \in S THEN [@[i] EXCEPT !.iommu = TRUE]
                                                 ELSE @[i]]]

(* vm_iommu_unmap(): what carries the flag goes back. *)
VmIommuUnmap(st, v) ==
    LET S == { i \in Slots : SysmemMapping(st, v, st.maps[v][i]) /\ st.maps[v][i].iommu }
        gs == UNION { GpaRange(st.maps[v][i]) : i \in S }
        at(g) == CHOOSE i \in S : Covers(st.maps[v][i], g)
    IN
    [st EXCEPT !.dom[v] = { q \in @ : q[1] \notin gs },
               !.host = @ \cup { PageAt(v, st.maps[v][at(g)], g) : g \in gs },
               !.maps[v] = [i \in Slots |-> IF i \in S THEN [@[i] EXCEPT !.iommu = FALSE]
                                            ELSE @[i]]]

AssignedDevices(st, v) == { d \in Devs : st.ppt[d].attached /\ st.ppt[d].vm = v }

-----------------------------------------------------------------------------
(* Assignment.                                                             *)

(* vm_assign_pptdev() up to the reset of the device: the domain is made    *)
(* for the first device; a device that is not there or belongs to another  *)
(* VM is refused after that.                                               *)
VmAssignBegin(v, d, created) ==
    LET first == AssignedDevices(sc, v) = {}
        mapped == IF ~first THEN sc
                  ELSE IF sc.iommu[v] THEN [sc EXCEPT !.panic = TRUE]
                  ELSE VmIommuMap([sc EXCEPT !.iommu[v] = TRUE], v)
    IN
    /\ Ready(v)
    /\ created \/ first
    /\ IF first /\ ~sc.iommu[v] /\ ~created
       THEN sc' = Counted(sc)                                        \* ENXIO
       ELSE IF mapped.panic THEN sc' = mapped
       ELSE IF ~sc.ppt[d].attached \/ sc.ppt[d].vm \notin {None, v}
       THEN sc' = Counted([mapped EXCEPT                      \* ENOENT, EBUSY
                             !.failed = IF first THEN @ \cup {v} ELSE @])
       ELSE sc' = Counted([mapped EXCEPT !.assigning[v] = d])

(* vtd_add_device() panics over a context entry that is present. *)
AddDevice(st, dom, d) ==
    IF st.ctx[d] # None THEN [st EXCEPT !.panic = TRUE]
    ELSE [st EXCEPT !.ctx[d] = dom]

RemoveDevice(st, d) == [st EXCEPT !.ctx[d] = None]

(* After the reset: the device is the VM's, whatever happened meanwhile. *)
VmAssignEnd(v) ==
    LET d == sc.assigning[v] IN
    /\ ~sc.panic
    /\ d # None
    /\ sc' = AddDevice([sc EXCEPT !.assigning[v] = None,
                                  !.ppt[d].vm = v,
                                  !.raced = @ \/ sc.ppt[d].vm \notin {None, v}
                                              \/ ~sc.ppt[d].attached], v, d)

PptUnmapMmio(st, v, d) ==
    LET gs == UNION { GpaRange(w) : w \in st.ppt[d].mmio } IN
    [st EXCEPT !.space[v] = [g \in Gpas |-> IF g \in gs THEN None ELSE @[g]],
               !.ppt[d].mmio = {}]

(* pci_release_msi(): refused while an interrupt resource is in use. *)
PciReleaseMsi(p) == IF p.irqs \cap ({"msi", "msix"} \X (1..Msgs)) = {}
                    THEN [p EXCEPT !.alloc = None] ELSE p

TeardownMsi(p) ==
    IF p.msi = 0 THEN p
    ELSE LET freed == [p EXCEPT !.irqs = { q \in @ : q[1] = "msix" }, !.msi = 0]
         IN IF p.startrid = 1 THEN PciReleaseMsi(freed) ELSE freed

TeardownMsixIntr(p, k) == [p EXCEPT !.irqs = @ \ {<<"msix", k>>}]

TeardownMsix(p) ==
    IF ~p.msix THEN p
    ELSE PciReleaseMsi([p EXCEPT !.irqs = { q \in @ : q[1] # "msix" }, !.msix = FALSE])

PptUnassignDevice(st, v, d) ==
    LET st1 == PptUnmapMmio(st, v, d)
        p   == TeardownMsix(TeardownMsi(st1.ppt[d]))
    IN [RemoveDevice(st1, d) EXCEPT !.ppt[d] = [p EXCEPT !.vm = None]]

VmUnassignPptdev(st, v, d) ==
    LET st1 == PptUnassignDevice(st, v, d) IN
    IF AssignedDevices(st1, v) = {} THEN VmIommuUnmap(st1, v) ELSE st1

Unassign(v, d) ==
    /\ Ready(v)
    /\ d \in AssignedDevices(sc, v)
    /\ sc' = Counted(VmUnassignPptdev(sc, v, d))

(* ppt_map_mmio(): the first free window of the device. *)
PptMapMmio(v, d, gpa, len) ==
    LET w == [gpa |-> gpa, len |-> len] IN
    /\ Ready(v)
    /\ d \in AssignedDevices(sc, v)
    /\ Cardinality(sc.ppt[d].mmio) < MaxMmio
    /\ GpaRange(w) \subseteq Gpas
    /\ \A g \in GpaRange(w) : sc.space[v][g] = None
    /\ sc' = Counted([sc EXCEPT !.ppt[d].mmio = @ \cup {w},
                                !.space[v] = [g \in Gpas |-> IF Covers(w, g) THEN "mmio"
                                                             ELSE @[g]]])

-----------------------------------------------------------------------------
(* Interrupts.                                                             *)

(* ppt_setup_msi(): the old vectors go first; `got' of the `n' vectors     *)
(* could be had and given a handler, fewer give everything back.  `legacy' *)
(* is a device without MSI, `short' an allocation refused or too small.    *)
PptSetupMsi(v, d, n, legacy, short, got) ==
    LET p    == TeardownMsi(sc.ppt[d])
        fail == ~legacy /\ (short \/ p.alloc # None)
        kind == IF legacy THEN "legacy" ELSE "msi"
        set  == [p EXCEPT !.startrid = IF legacy THEN 0 ELSE 1,
                          !.alloc = IF legacy THEN @ ELSE "msi",
                          !.msi = IF got < n THEN got + 1 ELSE n,
                          !.irqs = @ \cup { <<kind, k>> : k \in 1..got }]
    IN
    /\ Ready(v)
    /\ d \in AssignedDevices(sc, v)
    /\ got <= n
    /\ legacy => n <= 1
    /\ sc' = Counted([sc EXCEPT !.ppt[d] =
                 IF n = 0 \/ fail THEN p
                 ELSE IF got < n THEN TeardownMsi(set) ELSE set])

(* ppt_setup_msix(): the first use allocates the table and the vectors     *)
(* (`short': something could not be had); a vector is set up anew, or torn *)
(* down when it is masked or cannot be had.                                *)
PptSetupMsix(v, d, k, masked, short, got) ==
    LET p0    == sc.ppt[d]
        fail  == ~p0.msix /\ (short \/ p0.alloc # None)
        first == IF p0.msix THEN p0
                 ELSE [p0 EXCEPT !.msix = TRUE, !.alloc = IF fail THEN @ ELSE "msix"]
        torn  == TeardownMsixIntr(first, k)
    IN
    /\ Ready(v)
    /\ d \in AssignedDevices(sc, v)
    /\ sc' = Counted([sc EXCEPT !.ppt[d] =
                 IF fail THEN TeardownMsix(first)
                 ELSE IF masked \/ ~got THEN torn
                 ELSE [torn EXCEPT !.irqs = @ \cup {<<"msix", k>>}]])

-----------------------------------------------------------------------------
(* The driver comes and goes; a VM is reset or destroyed.                  *)

PptAttach(d) ==
    /\ ~sc.panic /\ sc.ops < PptOps
    /\ ~sc.ppt[d].attached
    /\ sc' = Counted(RemoveDevice([sc EXCEPT !.ppt[d] = NewDev], d))

PptDetach(d) ==
    /\ ~sc.panic /\ sc.ops < PptOps
    /\ sc.ppt[d].attached
    /\ sc.ppt[d].vm = None
    /\ sc' = Counted(AddDevice([sc EXCEPT !.ppt[d].attached = FALSE], Host, d))

(* ppt_unassign_all() in list order; the result does not depend on it. *)
UnassignAll(st, v) ==
    LET D == AssignedDevices(st, v)
        F[S \in SUBSET D] ==
            IF S = {} THEN st
            ELSE LET d == CHOOSE x \in S : TRUE
                 IN VmUnassignPptdev(F[S \ {d}], v, d)
    IN F[D]

FreeMaps(st, v, S) ==
    LET F[i \in 0..MaxMaps] ==
            IF i = 0 THEN st
            ELSE IF i \in S THEN FreeMemmap(F[i - 1], v, i) ELSE F[i - 1]
    IN F[MaxMaps]

(* vm_cleanup(): devices, domain, then the mappings: all of them when the  *)
(* VM is destroyed, those of device memory when it is reset.               *)
Cleanup(v, destroy) ==
    LET un  == UnassignAll(sc, v)
        st  == [un EXCEPT !.iommu[v] = FALSE, !.dom[v] = {}]
        out == { i \in Slots : destroy \/ ~SysmemMapping(st, v, st.maps[v][i]) }
    IN FreeMaps(st, v, out)

VmReinit(v) ==
    /\ Ready(v)
    /\ sc' = Counted(Cleanup(v, FALSE))

VmDestroy(v) ==
    /\ Ready(v)
    /\ sc' = Counted(NewVm(Cleanup(v, TRUE), v))

-----------------------------------------------------------------------------
Next ==
    \/ \E v \in Vms :
         \/ \E s \in DOMAIN Segs, b \in BOOLEAN : VmAllocMemseg(v, s, b)
         \/ \E s \in DOMAIN Segs : \E g \in Gpas, f \in 0..(Segs[s] - 1), n \in 1..Segs[s], w, x \in BOOLEAN :
               VmMmapMemseg(v, s, g, f, n, w, x)
         \/ \E d \in Devs :
              \/ \E b \in BOOLEAN : VmAssignBegin(v, d, b)
              \/ Unassign(v, d)
              \/ \E g \in Gpas, n \in 1..Cardinality(Gpas) : PptMapMmio(v, d, g, n)
              \/ \E n \in 0..Msgs, got \in 0..Msgs, l, s \in BOOLEAN :
                    PptSetupMsi(v, d, n, l, s, got)
              \/ \E k \in 1..Msgs, m, s, g \in BOOLEAN : PptSetupMsix(v, d, k, m, s, g)
         \/ VmAssignEnd(v)
         \/ VmReinit(v)
         \/ VmDestroy(v)
    \/ \E d \in Devs : PptAttach(d) \/ PptDetach(d)

-----------------------------------------------------------------------------
Trusted == ~sc.panic /\ ~sc.raced

(* vm_mem_allocated() answers for exactly the pages that are mapped into   *)
(* the guest: a page it denies would be emulated as MMIO although memory   *)
(* is there, a page it claims although it is gone faults for ever; and a   *)
(* segment has a reference for itself and one for each mapping, so that    *)
(* its pages are freed with the last of them and not before.               *)
SpaceAgrees ==
    Trusted =>
      \A v \in Vms :
        /\ \A g \in Gpas : VmMemAllocated(sc, v, g) <=> sc.space[v][g] # None
        /\ \A s \in DOMAIN Segs :
             sc.refs[v][s] = (IF sc.seg[v][s] = None THEN 0 ELSE 1)
                 + Cardinality({ i \in Slots : sc.maps[v][i].len # 0 /\ sc.maps[v][i].seg = s })

(* A page of memory can be reached by the devices of the host or by those  *)
(* of one VM, never both and never neither, through assignment, reset and  *)
(* destruction of VMs.  A VM whose first assignment was refused is left    *)
(* out: vm_assign_pptdev() does not undo the mapping then.                 *)
PageInOneDomain ==
    Trusted =>
      \A v \in Vms \ sc.failed : \A s \in DOMAIN Segs : \A k \in 0..Segs[s] - 1 :
        (<<v, s, k>> \in sc.host) <=>
            ~ \E u \in Vms : \E q \in sc.dom[u] : q[2] = <<v, s, k>>

(* A device translates through the domain of its owner, through none while *)
(* it waits for one, through the host's once the driver has let go of it,  *)
(* and one without an owner has no MMIO window, no interrupt handler and   *)
(* no vectors left.                                                        *)
DeviceConfined ==
    Trusted =>
      \A d \in Devs :
        LET p == sc.ppt[d] IN
        /\ sc.ctx[d] = IF ~p.attached THEN Host ELSE p.vm
        /\ p.vm = None => p.mmio = {} /\ p.irqs = {} /\ p.alloc = None
        /\ p.vm # None => sc.iommu[p.vm]

=============================================================================
