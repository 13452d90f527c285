---------------------------- MODULE DeviceProofs ----------------------------
(***************************************************************************)
(* Proofs about passed-through devices and guest memory, for any number of *)
(* VMs, devices, segments and mappings; about the threads of a VM that     *)
(* start, run, pause for a checkpoint and leave, for any number of vcpus;  *)
(* about INTx lines, for any number of devices, slots and pins; and about  *)
(* the events of a vcpu, for any number of them and both back ends.        *)
(***************************************************************************)
EXTENDS Passthru, Sequences, FiniteSetTheorems, WellFoundedInduction, TLAPS
CONSTANTS Aps, MaxCkpts,
          Order, Slot, IntPins, Pirqs, Irqs, Permitted, Reserved, Ioapics, IntxOps,
          Backends, MaxRip, EventOps

Loop == INSTANCE VcpuLoop
Intx == INSTANCE PciIntx
Ev   == INSTANCE VcpuEvents

PptSpec == Init /\ [][Next]_sc

Params ==
    /\ IsFiniteSet(Devs) /\ IsFiniteSet(Gpas)
    /\ None \notin Vms /\ Host \notin Vms /\ None \notin Devs
    /\ Segs \in [DOMAIN Segs -> Nat]
    /\ Gpas \subseteq Nat
    /\ MaxMaps \in Nat /\ Msgs \in Nat

-----------------------------------------------------------------------------
(* The shape of the state *)

Mapping == [gpa : Nat, len : Nat, seg : DOMAIN Segs, off : Nat, wired : BOOLEAN, iommu : BOOLEAN]
Window  == [gpa : Nat, len : Nat]
Kinds   == {"legacy", "msi", "msix"}
Device  == [attached : BOOLEAN, vm : Vms \cup {None}, mmio : SUBSET Window, msi : Nat, startrid : {0, 1},
            msix : BOOLEAN, irqs : SUBSET (Kinds \X (1..Msgs)), alloc : {None, "msi", "msix"}]

\* The interrupts of a device.
MsiOk(p) ==
    /\ p.msi = 0 => \A q \in p.irqs : q[1] = "msix"
    /\ p.startrid = 1 => \A q \in p.irqs : q[1] # "legacy"
    /\ p.startrid = 0 => \A q \in p.irqs : q[1] # "msi"
    /\ ~p.msix => \A q \in p.irqs : q[1] # "msix"
    /\ p.alloc = "msix" <=> p.msix
    /\ p.alloc = "msi" <=> p.msi > 0 /\ p.startrid = 1
    /\ p.alloc = "msi" => \E q \in p.irqs : q[1] = "msi"

SegT    == [Vms -> [DOMAIN Segs -> {None, "sysmem", "devmem"}]]
RefsT   == [Vms -> [DOMAIN Segs -> Int]]
MapsT   == [Vms -> [Slots -> Mapping \cup {NoMap}]]
SpaceT  == [Vms -> [Gpas -> {None, "mem", "mmio"}]]
HostT   == SUBSET (Vms \X (DOMAIN Segs) \X Nat)
DomT    == [Vms -> SUBSET (Nat \X (Vms \X (DOMAIN Segs) \X Nat))]
CtxT    == [Devs -> Vms \cup {None, Host}]
PptT    == [Devs -> { p \in Device : MsiOk(p) }]
AssignT == [Vms -> Devs \cup {None}]
IommuT  == [Vms -> BOOLEAN]
FailedT == SUBSET Vms

State ==
    [seg : SegT, refs : RefsT, maps : MapsT, space : SpaceT, host : HostT, iommu : IommuT, dom : DomT,
     ctx : CtxT, ppt : PptT, assigning : AssignT, panic : BOOLEAN, raced : BOOLEAN, failed : FailedT, ops : Nat]

-----------------------------------------------------------------------------
(* What holds while no device was taken from under its owner *)

\* A mapping lies inside its segment; only wired system memory is a device's.
MapsFit(st, v) ==
    \A i \in Slots :
        LET m == st.maps[v][i] IN
        m.len # 0 => /\ m \in Mapping /\ GpaRange(m) \subseteq Gpas
                     /\ st.seg[v][m.seg] # None /\ m.off + m.len <= Segs[m.seg]
                     /\ m.iommu => st.seg[v][m.seg] = "sysmem"

\* No page of the guest is mapped twice.
MapsApart(st, v) ==
    \A i, j \in Slots : \A g \in Gpas :
        Covers(st.maps[v][i], g) /\ Covers(st.maps[v][j], g) => i = j
WindowsApart(st, v) ==
    \A d, e \in Devs : \A w \in st.ppt[d].mmio, x \in st.ppt[e].mmio : \A g \in Gpas :
        st.ppt[d].vm = v /\ st.ppt[e].vm = v /\ Covers(w, g) /\ Covers(x, g) => d = e /\ w = x
KindsApart(st, v) ==
    \A i \in Slots, d \in Devs : \A w \in st.ppt[d].mmio : \A g \in Gpas :
        ~(st.ppt[d].vm = v /\ Covers(st.maps[v][i], g) /\ Covers(w, g))

SpaceExact(st, v) == \A g \in Gpas : VmMemAllocated(st, v, g) <=> st.space[v][g] # None

MapsOf(st, v, s) == { i \in Slots : st.maps[v][i].len # 0 /\ st.maps[v][i].seg = s }
RefsExact(st, v) ==
    \A s \in DOMAIN Segs :
        st.refs[v][s] = (IF st.seg[v][s] = None THEN 0 ELSE 1) + Cardinality(MapsOf(st, v, s))

\* The mappings whose pages belong to the VM's domain.
Flagged(st, v) == { i \in Slots : st.maps[v][i].len # 0 /\ st.maps[v][i].iommu }
GivenTo(st, v) ==
    /\ \A q \in st.dom[v] : q[1] \in Gpas /\
         \E i \in Flagged(st, v) : Covers(st.maps[v][i], q[1]) /\ q[2] = PageAt(v, st.maps[v][i], q[1])
    /\ \A i \in Flagged(st, v), g \in Gpas :
         Covers(st.maps[v][i], g) => <<g, PageAt(v, st.maps[v][i], g)>> \in st.dom[v]
DomainExact(st, v) ==
    v \notin st.failed =>
        /\ GivenTo(st, v)
        /\ \A s \in DOMAIN Segs : \A p \in PagesOf(v, s) : p \in st.host <=> ~ \E q \in st.dom[v] : q[2] = p
FlagsOwned(st, v) ==
    v \notin st.failed /\ Flagged(st, v) # {} => AssignedDevices(st, v) # {} \/ st.assigning[v] # None
DomainOwn(st, v) == \A q \in st.dom[v] : q[2][1] = v

VmCore(st, v) ==
    /\ MapsFit(st, v) /\ MapsApart(st, v) /\ WindowsApart(st, v) /\ KindsApart(st, v)
    /\ SpaceExact(st, v) /\ RefsExact(st, v) /\ DomainExact(st, v) /\ DomainOwn(st, v)
VmOk(st, v) == VmCore(st, v) /\ FlagsOwned(st, v)

DevOk(st, d) ==
    LET p == st.ppt[d] IN
    /\ st.ctx[d] = IF ~p.attached THEN Host ELSE p.vm
    /\ ~p.attached => p.vm = None
    /\ p.vm = None => p.mmio = {} /\ p.irqs = {} /\ p.alloc = None
    /\ p.vm # None => st.iommu[p.vm]
    /\ \A w \in p.mmio : w.len > 0 /\ GpaRange(w) \subseteq Gpas

\* A device is only being assigned to a VM that has a domain.
PendingOk(st) == \A v \in Vms : st.assigning[v] # None => st.iommu[v]

Fine(st) ==
    st \in State /\ PendingOk(st) /\ (\A v \in Vms : VmOk(st, v)) /\ (\A d \in Devs : DevOk(st, d))
Good(st) == st \in State /\ (~st.panic /\ ~st.raced => Fine(st))

-----------------------------------------------------------------------------
(* Nothing changes for a VM or a device that a step leaves alone *)

SameDevs(st, t, u) ==
    \A d \in Devs :
        /\ t.ppt[d].vm = u <=> st.ppt[d].vm = u
        /\ st.ppt[d].vm = u => t.ppt[d].mmio = st.ppt[d].mmio /\ t.ppt[d].attached = st.ppt[d].attached
SameHost(st, t, u) == \A s \in DOMAIN Segs : \A p \in PagesOf(u, s) : p \in t.host <=> p \in st.host
SameVm(st, t, u) ==
    /\ t.seg[u] = st.seg[u] /\ t.refs[u] = st.refs[u] /\ t.maps[u] = st.maps[u] /\ t.space[u] = st.space[u]
    /\ t.dom[u] = st.dom[u] /\ (u \in st.failed => u \in t.failed)

LEMMA WindowsSame ==
    ASSUME NEW st, NEW t, NEW u, SameDevs(st, t, u)
    PROVE  /\ WindowsApart(st, u) => WindowsApart(t, u)
           /\ \A g : PptIsMmio(t, u, g) <=> PptIsMmio(st, u, g)
           /\ AssignedDevices(t, u) = AssignedDevices(st, u)
           /\ t.maps[u] = st.maps[u] /\ KindsApart(st, u) => KindsApart(t, u)
<1>1. WindowsApart(st, u) => WindowsApart(t, u) BY DEF SameDevs, WindowsApart
<1>2. \A g : PptIsMmio(t, u, g) <=> PptIsMmio(st, u, g) BY DEF SameDevs, PptIsMmio
<1>3. AssignedDevices(t, u) = AssignedDevices(st, u) BY DEF SameDevs, AssignedDevices
<1>4. t.maps[u] = st.maps[u] /\ KindsApart(st, u) => KindsApart(t, u) BY DEF SameDevs, KindsApart
<1> QED BY <1>1, <1>2, <1>3, <1>4

LEMMA MapsSame ==
    ASSUME NEW st, NEW t, NEW u, t.seg[u] = st.seg[u], t.refs[u] = st.refs[u], t.maps[u] = st.maps[u]
    PROVE  /\ MapsFit(st, u) => MapsFit(t, u)
           /\ MapsApart(st, u) => MapsApart(t, u)
           /\ RefsExact(st, u) => RefsExact(t, u)
<1>1. MapsFit(st, u) => MapsFit(t, u) BY DEF MapsFit
<1>2. MapsApart(st, u) => MapsApart(t, u) BY DEF MapsApart
<1>3. \A s : MapsOf(t, u, s) = MapsOf(st, u, s) BY DEF MapsOf
<1>4. RefsExact(st, u) => RefsExact(t, u) BY <1>3 DEF RefsExact
<1> QED BY <1>1, <1>2, <1>4

LEMMA SpaceSame ==
    ASSUME NEW st, NEW t, NEW u, SameDevs(st, t, u), t.maps[u] = st.maps[u], t.space[u] = st.space[u],
           SpaceExact(st, u)
    PROVE  SpaceExact(t, u)
<1>1. \A g : PptIsMmio(t, u, g) <=> PptIsMmio(st, u, g) BY WindowsSame
<1>2. \A g : VmMemAllocated(t, u, g) <=> VmMemAllocated(st, u, g) BY <1>1 DEF VmMemAllocated
<1> QED BY <1>2 DEF SpaceExact

LEMMA DomainSame ==
    ASSUME NEW st, NEW t, NEW u, SameHost(st, t, u), t.maps[u] = st.maps[u], t.dom[u] = st.dom[u],
           u \in st.failed => u \in t.failed
    PROVE  /\ DomainExact(st, u) => DomainExact(t, u)
           /\ DomainOwn(st, u) => DomainOwn(t, u)
<1>1. DomainOwn(st, u) => DomainOwn(t, u) BY DEF DomainOwn
<1>2. Flagged(t, u) = Flagged(st, u) BY DEF Flagged
<1>3. GivenTo(st, u) => GivenTo(t, u) BY <1>2 DEF GivenTo
<1>4. ASSUME DomainExact(st, u), u \notin t.failed PROVE DomainExact(t, u)
  <2>1. u \notin st.failed BY <1>4
  <2>2. GivenTo(t, u) BY <1>3, <1>4, <2>1 DEF DomainExact
  <2>3. \A s \in DOMAIN Segs : \A p \in PagesOf(u, s) : p \in t.host <=> ~ \E q \in t.dom[u] : q[2] = p
    BY <1>4, <2>1 DEF DomainExact, SameHost
  <2> QED BY <2>2, <2>3 DEF DomainExact
<1>5. u \in t.failed => DomainExact(t, u) BY DEF DomainExact
<1> QED BY <1>1, <1>4, <1>5

LEMMA FlagsSame ==
    ASSUME NEW st, NEW t, NEW u, t.maps[u] = st.maps[u], u \in st.failed => u \in t.failed,
           AssignedDevices(st, u) # {} => AssignedDevices(t, u) # {} \/ t.assigning[u] # None,
           st.assigning[u] # None => AssignedDevices(t, u) # {} \/ t.assigning[u] # None,
           FlagsOwned(st, u)
    PROVE  FlagsOwned(t, u)
<1>1. Flagged(t, u) = Flagged(st, u) BY DEF Flagged
<1> QED BY <1>1 DEF FlagsOwned

LEMMA CoreSame ==
    ASSUME NEW st, NEW t, NEW u, SameVm(st, t, u), SameDevs(st, t, u), SameHost(st, t, u), VmCore(st, u)
    PROVE  VmCore(t, u)
<1>1. MapsFit(t, u) /\ MapsApart(t, u) /\ RefsExact(t, u) BY MapsSame DEF SameVm, VmCore
<1>2. WindowsApart(t, u) /\ KindsApart(t, u) BY WindowsSame DEF SameVm, VmCore
<1>3. SpaceExact(t, u) BY SpaceSame DEF SameVm, VmCore
<1>4. DomainExact(t, u) /\ DomainOwn(t, u) BY DomainSame DEF SameVm, VmCore
<1> QED BY <1>1, <1>2, <1>3, <1>4 DEF VmCore

LEMMA VmSame ==
    ASSUME NEW st, NEW t, NEW u, SameVm(st, t, u), t.assigning[u] = st.assigning[u], SameDevs(st, t, u),
           SameHost(st, t, u), VmOk(st, u)
    PROVE  VmOk(t, u)
<1>1. VmCore(t, u) BY CoreSame DEF VmOk
<1>2. AssignedDevices(t, u) = AssignedDevices(st, u) BY WindowsSame
<1>3. FlagsOwned(t, u) BY <1>2, FlagsSame DEF SameVm, VmOk
<1> QED BY <1>1, <1>3 DEF VmOk

LEMMA DevSame ==
    ASSUME NEW st, NEW t, NEW d, t.ppt[d] = st.ppt[d], t.ctx[d] = st.ctx[d],
           st.ppt[d].vm # None /\ st.iommu[st.ppt[d].vm] => t.iommu[st.ppt[d].vm], DevOk(st, d)
    PROVE  DevOk(t, d)
BY DEF DevOk

\* Counting an operation changes nothing else.
LEMMA CountedGood ==
    ASSUME NEW st, Good(st)
    PROVE  Good(Counted(st))
<1> DEFINE t == Counted(st)
<1>1. st \in State BY DEF Good
<1>2. t \in State BY <1>1 DEF Counted, State
<1>3. /\ t.seg = st.seg /\ t.refs = st.refs /\ t.maps = st.maps /\ t.space = st.space /\ t.host = st.host
      /\ t.iommu = st.iommu /\ t.dom = st.dom /\ t.ctx = st.ctx /\ t.ppt = st.ppt
      /\ t.assigning = st.assigning /\ t.panic = st.panic /\ t.raced = st.raced /\ t.failed = st.failed
  BY <1>1 DEF Counted, State
<1> HIDE DEF t
<1>4. ASSUME Fine(st) PROVE Fine(t)
  <2>1. \A u \in Vms : VmOk(t, u)
    BY <1>3, <1>4, VmSame DEF Fine, SameVm, SameDevs, SameHost
  <2>2. \A d \in Devs : DevOk(t, d) BY <1>3, <1>4, DevSame DEF Fine
  <2>3. PendingOk(t) BY <1>3, <1>4 DEF Fine, PendingOk
  <2> QED BY <1>2, <2>1, <2>2, <2>3 DEF Fine
<1> QED BY <1>2, <1>3, <1>4 DEF Good, t

-----------------------------------------------------------------------------
(* The interrupts of a device *)

LEMMA ReleaseIs ==
    ASSUME NEW p \in Device
    PROVE  /\ PciReleaseMsi(p) \in Device
           /\ PciReleaseMsi(p) = [p EXCEPT !.alloc = IF \E q \in p.irqs : q[1] \in {"msi", "msix"} THEN @ ELSE None]
<1>1. p.irqs \subseteq Kinds \X (1..Msgs) BY DEF Device
<1>2. p.irqs \cap ({"msi", "msix"} \X (1..Msgs)) = {} <=> ~ \E q \in p.irqs : q[1] \in {"msi", "msix"}
  BY <1>1 DEF Kinds
<1>3. [p EXCEPT !.alloc = p.alloc] = p BY DEF Device
<1>4. [p EXCEPT !.alloc = None] \in Device BY DEF Device
<1> QED BY <1>2, <1>3, <1>4 DEF PciReleaseMsi

\* Tearing MSI down leaves the vectors of MSI-X only.
LEMMA TeardownMsiOk ==
    ASSUME NEW p \in Device, MsiOk(p)
    PROVE  LET t == TeardownMsi(p) IN
           /\ t \in Device /\ MsiOk(t) /\ t.msi = 0
           /\ t.attached = p.attached /\ t.vm = p.vm /\ t.mmio = p.mmio /\ t.msix = p.msix
<1> DEFINE t == TeardownMsi(p)
<1>1. CASE p.msi = 0 BY <1>1 DEF TeardownMsi
<1>2. CASE p.msi # 0
  <2> DEFINE irqs == { q \in p.irqs : q[1] = "msix" }
             f == [p EXCEPT !.irqs = irqs, !.msi = 0]
  <2>1. f \in Device BY DEF Device
  <2>2. /\ f.irqs = irqs /\ f.msi = 0 /\ f.attached = p.attached /\ f.vm = p.vm /\ f.mmio = p.mmio
        /\ f.msix = p.msix /\ f.startrid = p.startrid /\ f.alloc = p.alloc
    BY DEF Device
  <2>3. TeardownMsi(p) = IF p.startrid = 1 THEN PciReleaseMsi(f) ELSE f BY <1>2 DEF TeardownMsi
  <2> HIDE DEF f
  <2>4. p.startrid \in {0, 1} /\ p.msi > 0 BY <1>2 DEF Device
  <2>5. CASE p.startrid = 1
    <3>1. p.alloc = "msi" BY <2>4, <2>5 DEF MsiOk
    <3>2. ~p.msix BY <3>1 DEF MsiOk
    <3>3. irqs = {} BY <3>2 DEF MsiOk
    <3> DEFINE r == [f EXCEPT !.alloc = None]
    <3>4. t = r /\ r \in Device BY <2>1, <2>2, <2>3, <2>5, <3>3, ReleaseIs
    <3>5. /\ r.irqs = {} /\ r.msi = 0 /\ r.attached = p.attached /\ r.vm = p.vm /\ r.mmio = p.mmio
          /\ r.msix = p.msix /\ r.startrid = p.startrid /\ r.alloc = None
      BY <2>1, <2>2, <3>3 DEF Device
    <3> HIDE DEF r
    <3>6. MsiOk(r) BY <3>2, <3>5 DEF MsiOk, None
    <3> QED BY <3>4, <3>5, <3>6
  <2>6. CASE p.startrid = 0
    <3>1. t = f BY <2>3, <2>6
    <3>2. p.alloc # "msi" BY <2>6 DEF MsiOk
    <3>3. MsiOk(f) BY <2>2, <2>6, <3>2 DEF MsiOk
    <3> QED BY <2>1, <2>2, <3>1, <3>3
  <2> QED BY <2>4, <2>5, <2>6
<1>3. p.msi \in Nat BY DEF Device
<1> QED BY <1>1, <1>2

LEMMA TeardownMsixOk ==
    ASSUME NEW p \in Device, MsiOk(p)
    PROVE  LET t == TeardownMsix(p) IN
           /\ t \in Device /\ MsiOk(t) /\ ~t.msix
           /\ t.attached = p.attached /\ t.vm = p.vm /\ t.mmio = p.mmio /\ t.msi = p.msi
<1> DEFINE t == TeardownMsix(p)
<1>1. CASE ~p.msix BY <1>1 DEF TeardownMsix
<1>2. CASE p.msix
  <2> DEFINE irqs == { q \in p.irqs : q[1] # "msix" }
             f == [p EXCEPT !.irqs = irqs, !.msix = FALSE]
  <2>1. f \in Device BY DEF Device
  <2>2. /\ f.irqs = irqs /\ f.msi = p.msi /\ f.attached = p.attached /\ f.vm = p.vm /\ f.mmio = p.mmio
        /\ f.msix = FALSE /\ f.startrid = p.startrid /\ f.alloc = p.alloc
    BY DEF Device
  <2>3. t = PciReleaseMsi(f) BY <1>2 DEF TeardownMsix
  <2> HIDE DEF f
  <2>4. p.alloc = "msix" BY <1>2 DEF MsiOk
  <2>5. ~ \E q \in p.irqs : q[1] = "msi"
    <3>1. ~(p.msi > 0 /\ p.startrid = 1) BY <2>4 DEF MsiOk
    <3>2. p.startrid \in {0, 1} /\ p.msi \in Nat BY DEF Device
    <3>3. p.msi = 0 \/ p.startrid = 0 BY <3>1, <3>2
    <3> QED BY <3>3 DEF MsiOk
  <2>6. ~ \E q \in f.irqs : q[1] \in {"msi", "msix"} BY <2>2, <2>5
  <2> DEFINE r == [f EXCEPT !.alloc = None]
  <2>7. t = r /\ r \in Device BY <2>1, <2>3, <2>6, ReleaseIs
  <2>8. /\ r.irqs = irqs /\ r.msi = p.msi /\ r.attached = p.attached /\ r.vm = p.vm /\ r.mmio = p.mmio
        /\ r.msix = FALSE /\ r.startrid = p.startrid /\ r.alloc = None
    BY <2>1, <2>2 DEF Device
  <2>9. ~(p.msi > 0 /\ p.startrid = 1) BY <2>4 DEF MsiOk
  <2> HIDE DEF r
  <2>10. MsiOk(r) BY <2>8, <2>9 DEF MsiOk, None
  <2> QED BY <2>7, <2>8, <2>10
<1>3. p.msix \in BOOLEAN BY DEF Device
<1> QED BY <1>1, <1>2, <1>3

\* A device whose interrupts were torn down has no handler and no vectors.
LEMMA TeardownBoth ==
    ASSUME NEW p \in Device, MsiOk(p)
    PROVE  LET t == TeardownMsix(TeardownMsi(p)) IN
           /\ t \in Device /\ MsiOk(t) /\ t.irqs = {} /\ t.alloc = None
           /\ t.attached = p.attached /\ t.vm = p.vm /\ t.mmio = p.mmio
<1> DEFINE q == TeardownMsi(p)
           t == TeardownMsix(q)
<1>1. q \in Device /\ MsiOk(q) /\ q.msi = 0 /\ q.attached = p.attached /\ q.vm = p.vm /\ q.mmio = p.mmio
  BY TeardownMsiOk
<1> HIDE DEF q
<1>2. t \in Device /\ MsiOk(t) /\ ~t.msix /\ t.attached = q.attached /\ t.vm = q.vm /\ t.mmio = q.mmio /\ t.msi = q.msi
  BY <1>1, TeardownMsixOk
<1> HIDE DEF t
<1>3. t.irqs = {} BY <1>1, <1>2 DEF MsiOk
<1>4. t.alloc \in {None, "msi", "msix"} BY <1>2 DEF Device
<1>5. t.alloc = None BY <1>1, <1>2, <1>4 DEF MsiOk
<1> QED BY <1>1, <1>2, <1>3, <1>5 DEF q, t

\* New interrupts of a device that has an owner disturb nothing else.
LEMMA InterruptsKeep ==
    ASSUME NEW st, Good(st), NEW d \in Devs, st.ppt[d].vm # None, NEW p \in Device,
           MsiOk(p), p.attached = st.ppt[d].attached, p.vm = st.ppt[d].vm,
           p.mmio = st.ppt[d].mmio
    PROVE  Good([st EXCEPT !.ppt[d] = p])
<1> DEFINE t == [st EXCEPT !.ppt[d] = p]
<1>1. st \in State BY DEF Good
<1>2. st.ppt \in PptT BY <1>1 DEF State
<1>4. [st.ppt EXCEPT ![d] = p] \in PptT BY <1>2 DEF PptT
<1>5. t.ppt = [st.ppt EXCEPT ![d] = p] BY <1>1 DEF State
<1>6. /\ t.seg = st.seg /\ t.refs = st.refs /\ t.maps = st.maps /\ t.space = st.space /\ t.host = st.host
      /\ t.iommu = st.iommu /\ t.dom = st.dom /\ t.ctx = st.ctx
      /\ t.assigning = st.assigning /\ t.panic = st.panic /\ t.raced = st.raced /\ t.failed = st.failed
  BY <1>1 DEF State
<1>7. t \in State BY <1>1, <1>4 DEF State
<1> HIDE DEF t
<1>8. /\ t.ppt[d] = p /\ \A e \in Devs \ {d} : t.ppt[e] = st.ppt[e] BY <1>2, <1>5 DEF PptT
<1>9. ASSUME Fine(st) PROVE Fine(t)
  <2>1. \A u \in Vms : SameDevs(st, t, u) BY <1>8 DEF SameDevs
  <2>2. \A u \in Vms : VmOk(t, u) BY <1>6, <1>9, <2>1, VmSame DEF Fine, SameVm, SameHost
  <2>3. \A e \in Devs \ {d} : DevOk(t, e) BY <1>6, <1>8, <1>9, DevSame DEF Fine
  <2>4. DevOk(st, d) BY <1>9 DEF Fine
  <2>5. DevOk(t, d) BY <1>6, <1>8, <2>4 DEF DevOk
  <2>6. PendingOk(t) BY <1>6, <1>9 DEF Fine, PendingOk
  <2> QED BY <1>7, <2>2, <2>3, <2>5, <2>6 DEF Fine
<1> QED BY <1>6, <1>7, <1>9 DEF Good, t

LEMMA SetupMsiKeeps ==
    ASSUME Params, Good(sc), NEW v \in Vms, NEW d \in Devs, NEW n \in 0..Msgs, NEW legacy \in BOOLEAN,
           NEW short \in BOOLEAN, NEW got \in 0..Msgs, PptSetupMsi(v, d, n, legacy, short, got)
    PROVE  Good(sc')
<1> DEFINE a == sc.ppt[d]
           p == TeardownMsi(a)
           fail == ~legacy /\ (short \/ p.alloc # None)
           kind == IF legacy THEN "legacy" ELSE "msi"
           new == { <<kind, k>> : k \in 1..got }
           set == [p EXCEPT !.startrid = IF legacy THEN 0 ELSE 1,
                            !.alloc = IF legacy THEN @ ELSE "msi",
                            !.msi = IF got < n THEN got + 1 ELSE n,
                            !.irqs = @ \cup new]
           b == IF n = 0 \/ fail THEN p ELSE IF got < n THEN TeardownMsi(set) ELSE set
<1>1. sc' = Counted([sc EXCEPT !.ppt[d] = b]) BY DEF PptSetupMsi
<1>2. a.vm = v /\ got <= n BY DEF PptSetupMsi, AssignedDevices
<1>3. v # None BY DEF Params
<1>4. n \in Nat /\ got \in Nat /\ Msgs \in Nat BY DEF Params
<1>5. a \in Device /\ MsiOk(a)
  <2>1. sc.ppt \in PptT BY DEF Good, State
  <2> QED BY <2>1 DEF PptT
<1>6. b \in Device /\ MsiOk(b) /\ b.attached = a.attached /\ b.vm = a.vm /\ b.mmio = a.mmio
  <2>1. /\ p \in Device /\ MsiOk(p) /\ p.msi = 0 /\ p.attached = a.attached /\ p.vm = a.vm /\ p.mmio = a.mmio
        /\ p.msix = a.msix
    BY <1>5, TeardownMsiOk
  <2> HIDE DEF p
  <2>2. CASE n = 0 \/ fail BY <2>1, <2>2
  <2>3. CASE ~(n = 0 \/ fail)
    <3>1. new \subseteq Kinds \X (1..Msgs) BY <1>4 DEF Kinds
    <3>2. set \in Device
      <4> DEFINE s1 == IF legacy THEN 0 ELSE 1
                 a1 == IF legacy THEN p.alloc ELSE "msi"
                 m1 == IF got < n THEN got + 1 ELSE n
                 i1 == p.irqs \cup new
      <4>1. s1 \in {0, 1} /\ m1 \in Nat BY <1>4
      <4>2. a1 \in {None, "msi", "msix"} BY <2>1 DEF Device
      <4>3. i1 \in SUBSET (Kinds \X (1..Msgs)) BY <2>1, <3>1 DEF Device
      <4>4. set = [p EXCEPT !.startrid = s1, !.alloc = a1, !.msi = m1, !.irqs = i1] OBVIOUS
      <4> HIDE DEF s1, a1, m1, i1, set
      <4> QED BY <2>1, <4>1, <4>2, <4>3, <4>4 DEF Device
    <3>3. /\ set.startrid = (IF legacy THEN 0 ELSE 1) /\ set.alloc = (IF legacy THEN p.alloc ELSE "msi")
          /\ set.msi = (IF got < n THEN got + 1 ELSE n) /\ set.irqs = p.irqs \cup new
          /\ set.attached = p.attached /\ set.vm = p.vm /\ set.mmio = p.mmio /\ set.msix = p.msix
      BY <2>1 DEF Device
    <3> HIDE DEF set
    <3>4. p.alloc # "msi" /\ \A q \in p.irqs : q[1] = "msix" BY <2>1 DEF MsiOk
    <3>5. set.msi > 0 BY <1>4, <2>3, <3>3
    <3>6. CASE legacy
      <4>1. \A q \in set.irqs : q[1] \in {"msix", "legacy"} BY <3>3, <3>4, <3>6
      <4>2. MsiOk(set)
        <5>1. ~set.msix => \A q \in set.irqs : q[1] # "msix" BY <2>1, <3>3, <3>6 DEF MsiOk
        <5>2. set.alloc = "msix" <=> set.msix BY <2>1, <3>3, <3>6 DEF MsiOk
        <5> QED BY <3>3, <3>4, <3>5, <3>6, <4>1, <5>1, <5>2 DEF MsiOk
      <4>3. CASE got < n BY <2>1, <2>3, <3>2, <3>3, <4>2, <4>3, TeardownMsiOk
      <4>4. CASE ~(got < n) BY <2>1, <2>3, <3>2, <3>3, <4>2, <4>4
      <4> QED BY <4>3, <4>4
    <3>7. CASE ~legacy
      <4>1. p.alloc = None BY <2>3, <3>7
      <4>2. ~p.msix BY <2>1, <4>1 DEF MsiOk, None
      <4>3. p.irqs = {} BY <2>1, <3>4, <4>2 DEF MsiOk
      <4>4. \A q \in set.irqs : q[1] = "msi" BY <3>3, <3>7, <4>3
      <4>5. CASE got < n
        \* The vectors are given back at once, so that it does not matter that
        \* none may have a handler.
        <5> DEFINE f == [set EXCEPT !.irqs = { q \in @ : q[1] = "msix" }, !.msi = 0]
        <5>1. TeardownMsi(set) = PciReleaseMsi(f) BY <3>3, <3>5, <3>7 DEF TeardownMsi
        <5>2. f \in Device BY <3>2 DEF Device
        <5>3. /\ f.irqs = {} /\ f.msi = 0 /\ f.attached = set.attached /\ f.vm = set.vm /\ f.mmio = set.mmio
              /\ f.msix = set.msix /\ f.startrid = set.startrid
          BY <3>2, <4>4 DEF Device
        <5> HIDE DEF f
        <5> DEFINE r == [f EXCEPT !.alloc = None]
        <5>4. PciReleaseMsi(f) = r /\ r \in Device BY <5>2, <5>3, ReleaseIs
        <5>5. /\ r.irqs = {} /\ r.msi = 0 /\ r.attached = p.attached /\ r.vm = p.vm /\ r.mmio = p.mmio
              /\ r.msix = p.msix /\ r.alloc = None
          BY <3>3, <5>2, <5>3 DEF Device
        <5> HIDE DEF r
        <5>6. MsiOk(r) BY <4>2, <5>5 DEF MsiOk, None
        <5> QED BY <2>1, <2>3, <4>5, <5>1, <5>4, <5>5, <5>6
      <4>6. CASE ~(got < n)
        <5>1. got = n /\ n > 0 BY <1>2, <1>4, <2>3, <4>6
        <5>2. <<"msi", 1>> \in set.irqs BY <1>4, <3>3, <3>7, <5>1
        <5>3. \E q \in set.irqs : q[1] = "msi" BY <5>2
        <5>4. MsiOk(set) BY <3>3, <3>5, <3>7, <4>2, <4>4, <5>3 DEF MsiOk
        <5> QED BY <2>1, <2>3, <3>2, <3>3, <4>6, <5>4
      <4> QED BY <4>5, <4>6
    <3> QED BY <3>6, <3>7
  <2> QED BY <2>2, <2>3
<1> HIDE DEF b
<1>7. Good([sc EXCEPT !.ppt[d] = b]) BY <1>2, <1>3, <1>6, InterruptsKeep
<1> QED BY <1>1, <1>7, CountedGood

LEMMA SetupMsixKeeps ==
    ASSUME Params, Good(sc), NEW v \in Vms, NEW d \in Devs, NEW k \in 1..Msgs, NEW masked \in BOOLEAN,
           NEW short \in BOOLEAN, NEW got \in BOOLEAN, PptSetupMsix(v, d, k, masked, short, got)
    PROVE  Good(sc')
<1> DEFINE a == sc.ppt[d]
           fail == ~a.msix /\ (short \/ a.alloc # None)
           first == IF a.msix THEN a ELSE [a EXCEPT !.msix = TRUE, !.alloc = IF fail THEN @ ELSE "msix"]
           torn == TeardownMsixIntr(first, k)
           b == IF fail THEN TeardownMsix(first)
                ELSE IF masked \/ ~got THEN torn
                ELSE [torn EXCEPT !.irqs = @ \cup {<<"msix", k>>}]
<1>1. sc' = Counted([sc EXCEPT !.ppt[d] = b]) BY DEF PptSetupMsix
<1>2. a.vm = v /\ v # None BY DEF PptSetupMsix, AssignedDevices, Params
<1>3. a \in Device /\ MsiOk(a)
  <2>1. sc.ppt \in PptT BY DEF Good, State
  <2> QED BY <2>1 DEF PptT
<1> HIDE DEF a
<1>4. b \in Device /\ MsiOk(b) /\ b.attached = a.attached /\ b.vm = a.vm /\ b.mmio = a.mmio
  <2>1. CASE fail
    \* The table is allocated and given back.
    <3> DEFINE f == [a EXCEPT !.msix = TRUE, !.alloc = a.alloc]
               g == [f EXCEPT !.irqs = { q \in @ : q[1] # "msix" }, !.msix = FALSE]
    <3>1. first = f BY <2>1
    <3>2. f \in Device /\ f.msix = TRUE BY <1>3 DEF Device
    <3>3. /\ f.irqs = a.irqs /\ f.msi = a.msi /\ f.startrid = a.startrid /\ f.alloc = a.alloc
          /\ f.attached = a.attached /\ f.vm = a.vm /\ f.mmio = a.mmio
      BY <1>3 DEF Device
    <3>4. b = PciReleaseMsi(g) BY <2>1, <3>1, <3>2 DEF TeardownMsix
    <3> HIDE DEF f
    <3>5. g \in Device BY <3>2 DEF Device
    <3>6. \A q \in a.irqs : q[1] # "msix" BY <1>3, <2>1 DEF MsiOk
    <3>7. /\ g.irqs = a.irqs /\ g.msi = a.msi /\ g.startrid = a.startrid /\ g.alloc = a.alloc
          /\ g.attached = a.attached /\ g.vm = a.vm /\ g.mmio = a.mmio /\ g.msix = FALSE
      BY <3>2, <3>3, <3>6 DEF Device
    <3> HIDE DEF g
    <3> DEFINE r == [g EXCEPT !.alloc = IF \E q \in g.irqs : q[1] \in {"msi", "msix"} THEN @ ELSE None]
    <3>8. b = r /\ r \in Device BY <3>4, <3>5, ReleaseIs
    <3>9. /\ r.irqs = a.irqs /\ r.msi = a.msi /\ r.startrid = a.startrid
          /\ r.attached = a.attached /\ r.vm = a.vm /\ r.mmio = a.mmio /\ r.msix = FALSE
          /\ r.alloc = IF \E q \in a.irqs : q[1] \in {"msi", "msix"} THEN a.alloc ELSE None
      BY <3>5, <3>7 DEF Device
    <3> HIDE DEF r
    <3>10. ~a.msix /\ a.alloc \in {None, "msi"} BY <1>3, <2>1 DEF MsiOk, Device
    <3>11. CASE a.alloc = "msi"
      <4>1. \E q \in a.irqs : q[1] = "msi" BY <1>3, <3>11 DEF MsiOk
      <4>2. r.alloc = "msi" BY <3>9, <3>11, <4>1
      <4>3. MsiOk(r) BY <1>3, <3>9, <3>10, <3>11, <4>2 DEF MsiOk
      <4> QED BY <3>8, <3>9, <4>3
    <3>12. CASE a.alloc = None
      <4>1. r.alloc = None BY <3>9, <3>12
      <4>2. MsiOk(r) BY <1>3, <3>9, <3>10, <3>12, <4>1 DEF MsiOk, None
      <4> QED BY <3>8, <3>9, <4>2
    <3> QED BY <3>10, <3>11, <3>12
  <2>2. CASE ~fail
    <3>1. /\ first \in Device /\ first.msix = TRUE /\ first.alloc = "msix" /\ first.irqs = a.irqs
          /\ first.msi = a.msi /\ first.startrid = a.startrid
          /\ first.attached = a.attached /\ first.vm = a.vm /\ first.mmio = a.mmio
      <4>1. CASE a.msix
        <5>1. a.msix = TRUE BY <1>3, <4>1 DEF Device
        <5> QED BY <1>3, <4>1, <5>1 DEF MsiOk
      <4>2. CASE ~a.msix
        <5>1. first = [a EXCEPT !.msix = TRUE, !.alloc = "msix"] BY <2>2, <4>2
        <5> QED BY <1>3, <5>1 DEF Device
      <4> QED BY <4>1, <4>2
    <3>2. a.alloc # "msi"
      <4>1. CASE a.msix BY <1>3, <4>1 DEF MsiOk
      <4>2. CASE ~a.msix BY <2>2, <4>2 DEF None
      <4> QED BY <4>1, <4>2
    <3> HIDE DEF first, fail
    <3>3. /\ torn \in Device /\ torn.msix = TRUE /\ torn.alloc = "msix" /\ torn.irqs = a.irqs \ {<<"msix", k>>}
          /\ torn.msi = a.msi /\ torn.startrid = a.startrid
          /\ torn.attached = a.attached /\ torn.vm = a.vm /\ torn.mmio = a.mmio
      BY <3>1 DEF TeardownMsixIntr, Device
    <3> HIDE DEF torn
    <3> DEFINE full == [torn EXCEPT !.irqs = @ \cup {<<"msix", k>>}]
    <3>4. /\ full.msix = TRUE /\ full.alloc = "msix" /\ full.irqs = torn.irqs \cup {<<"msix", k>>}
          /\ full.msi = a.msi /\ full.startrid = a.startrid
          /\ full.attached = a.attached /\ full.vm = a.vm /\ full.mmio = a.mmio
      BY <3>3 DEF Device
    <3>5. <<"msix", k>> \in Kinds \X (1..Msgs) BY DEF Kinds
    <3>6. full \in Device BY <3>3, <3>5 DEF Device
    <3> HIDE DEF full
    <3>7. \A q \in torn.irqs : q \in a.irqs BY <3>3
    <3>8. \A q \in full.irqs : q \in a.irqs \/ q[1] = "msix" BY <3>4, <3>7
    <3>9. ~(a.msi > 0 /\ a.startrid = 1) BY <1>3, <3>2 DEF MsiOk
    <3>10. MsiOk(torn) BY <1>3, <3>3, <3>7, <3>9 DEF MsiOk
    <3>11. MsiOk(full) BY <1>3, <3>4, <3>8, <3>9 DEF MsiOk
    <3>12. b = torn \/ b = full BY <2>2 DEF full
    <3> QED BY <3>3, <3>4, <3>6, <3>10, <3>11, <3>12
  <2> QED BY <2>1, <2>2
<1> HIDE DEF b
<1>5. Good([sc EXCEPT !.ppt[d] = b]) BY <1>2, <1>4, InterruptsKeep DEF a
<1> QED BY <1>1, <1>5, CountedGood

-----------------------------------------------------------------------------
(* Memory *)

\* An operation on the memory of one VM.
LEMMA MemoryFrame ==
    ASSUME NEW st, Fine(st), NEW t \in State, NEW v \in Vms, VmOk(t, v),
           t.host = st.host, t.iommu = st.iommu, t.dom = st.dom, t.ctx = st.ctx, t.ppt = st.ppt,
           t.assigning = st.assigning, t.failed = st.failed,
           \A u \in Vms \ {v} : /\ t.seg[u] = st.seg[u] /\ t.refs[u] = st.refs[u]
                                /\ t.maps[u] = st.maps[u] /\ t.space[u] = st.space[u]
    PROVE  Fine(t)
<1>1. \A u \in Vms : SameDevs(st, t, u) /\ SameHost(st, t, u) BY DEF SameDevs, SameHost
<1>2. \A u \in Vms \ {v} : SameVm(st, t, u) BY DEF SameVm
<1>3. \A u \in Vms \ {v} : VmOk(t, u) BY <1>1, <1>2, VmSame DEF Fine
<1>4. \A d \in Devs : DevOk(t, d) BY DevSame DEF Fine
<1>5. PendingOk(t) BY DEF Fine, PendingOk
<1> QED BY <1>3, <1>4, <1>5 DEF Fine

LEMMA AllocKeeps ==
    ASSUME Params, Good(sc), NEW v \in Vms, NEW s \in DOMAIN Segs, NEW sysmem \in BOOLEAN,
           VmAllocMemseg(v, s, sysmem)
    PROVE  Good(sc')
<1> DEFINE k == IF sysmem THEN "sysmem" ELSE "devmem"
           t == [sc EXCEPT !.seg[v][s] = k, !.refs[v][s] = 1]
<1>1. sc' = Counted(t) /\ sc.seg[v][s] = None BY DEF VmAllocMemseg
<1>2. sc \in State BY DEF Good
<1>3. sc.seg \in SegT /\ sc.refs \in RefsT BY <1>2 DEF State
<1>4. t.seg = [sc.seg EXCEPT ![v][s] = k] /\ t.refs = [sc.refs EXCEPT ![v][s] = 1] BY <1>2 DEF State
<1>5. /\ t.maps = sc.maps /\ t.space = sc.space /\ t.host = sc.host
      /\ t.iommu = sc.iommu /\ t.dom = sc.dom /\ t.ctx = sc.ctx /\ t.ppt = sc.ppt
      /\ t.assigning = sc.assigning /\ t.panic = sc.panic /\ t.raced = sc.raced /\ t.failed = sc.failed
  BY <1>2 DEF State
<1>6. k \in {"sysmem", "devmem"} /\ k # None BY DEF None
<1>7. t.seg \in SegT BY <1>3, <1>4, <1>6 DEF SegT
<1>8. t.refs \in RefsT BY <1>3, <1>4 DEF RefsT
<1>9. t \in State BY <1>2, <1>4, <1>7, <1>8 DEF State
<1>10. /\ t.seg[v][s] = k /\ \A x \in DOMAIN Segs \ {s} : t.seg[v][x] = sc.seg[v][x]
       /\ \A u \in Vms \ {v} : t.seg[u] = sc.seg[u]
  BY <1>3, <1>4 DEF SegT
<1>11. /\ t.refs[v][s] = 1 /\ \A x \in DOMAIN Segs \ {s} : t.refs[v][x] = sc.refs[v][x]
       /\ \A u \in Vms \ {v} : t.refs[u] = sc.refs[u]
  BY <1>3, <1>4 DEF RefsT
<1> HIDE DEF t, k
<1>12. ASSUME Fine(sc) PROVE Fine(t)
  <2>1. VmOk(sc, v) BY <1>12 DEF Fine
  <2>2. \A i \in Slots : sc.maps[v][i].len # 0 => sc.maps[v][i].seg \in DOMAIN Segs \ {s}
    BY <1>1, <2>1 DEF VmOk, VmCore, MapsFit, Mapping
  <2>3. MapsFit(t, v) BY <1>5, <1>10, <2>1, <2>2 DEF VmOk, VmCore, MapsFit
  <2>4. MapsApart(t, v) BY <1>5, <2>1 DEF VmOk, VmCore, MapsApart
  <2>5. RefsExact(t, v)
    <3>1. \A x : MapsOf(t, v, x) = MapsOf(sc, v, x) BY <1>5 DEF MapsOf
    <3>2. MapsOf(sc, v, s) = {} BY <2>2 DEF MapsOf
    <3>3. Cardinality(MapsOf(t, v, s)) = 0 BY <3>1, <3>2, FS_EmptySet
    <3>4. t.refs[v][s] = (IF t.seg[v][s] = None THEN 0 ELSE 1) + Cardinality(MapsOf(t, v, s))
      BY <1>6, <1>10, <1>11, <3>3
    <3>5. ASSUME NEW x \in DOMAIN Segs \ {s}
          PROVE  t.refs[v][x] = (IF t.seg[v][x] = None THEN 0 ELSE 1) + Cardinality(MapsOf(t, v, x))
      BY <1>10, <1>11, <2>1, <3>1 DEF VmOk, VmCore, RefsExact
    <3> QED BY <3>4, <3>5 DEF RefsExact
  <2>6. SameDevs(sc, t, v) /\ SameHost(sc, t, v) BY <1>5 DEF SameDevs, SameHost
  <2>7. WindowsApart(t, v) /\ KindsApart(t, v) /\ AssignedDevices(t, v) = AssignedDevices(sc, v)
    BY <1>5, <2>1, <2>6, WindowsSame DEF VmOk, VmCore
  <2>8. SpaceExact(t, v) BY <1>5, <2>1, <2>6, SpaceSame DEF VmOk, VmCore
  <2>9. DomainExact(t, v) /\ DomainOwn(t, v) BY <1>5, <2>1, <2>6, DomainSame DEF VmOk, VmCore
  <2>10. FlagsOwned(t, v) BY <1>5, <2>1, <2>7, FlagsSame DEF VmOk
  <2>11. VmOk(t, v) BY <2>3, <2>4, <2>5, <2>7, <2>8, <2>9, <2>10 DEF VmOk, VmCore
  <2> QED BY <1>5, <1>9, <1>10, <1>11, <1>12, <2>11, MemoryFrame
<1>13. Good(t) BY <1>5, <1>9, <1>12 DEF Good
<1> QED BY <1>1, <1>13, CountedGood

LEMMA Least ==
    ASSUME NEW S, S \subseteq Nat, S # {}
    PROVE  \E n \in S : \A m \in S : n <= m
<1> DEFINE R == OpToRel(<, Nat)
<1>1. IsWellFoundedOn(R, Nat) BY NatLessThanWellFounded
<1>2. \A x, y \in Nat : <<x, y>> \in R <=> x < y BY DEF OpToRel
<1> HIDE DEF R
<1>3. PICK n \in S : \A m \in S : ~ (<<m, n>> \in R) BY <1>1, WFMin
<1>4. ASSUME NEW m \in S PROVE n <= m
  <2>1. m \in Nat /\ n \in Nat OBVIOUS
  <2>2. ~(m < n) BY <1>2, <1>3, <2>1
  <2> QED BY <2>1, <2>2
<1> QED BY <1>4

LEMMA SlotsFinite ==
    ASSUME Params
    PROVE  Slots \subseteq Nat /\ \A S : S \subseteq Slots => IsFiniteSet(S)
<1>1. MaxMaps \in Nat BY DEF Params
<1>2. IsFiniteSet(1..MaxMaps) BY <1>1, FS_Interval
<1> QED BY <1>1, <1>2, FS_Subset DEF Slots

LEMMA MmapKeeps ==
    ASSUME Params, Good(sc), NEW v \in Vms, NEW s \in DOMAIN Segs, NEW gpa \in Gpas,
           NEW first \in 0..(Segs[s] - 1), NEW len \in 1..Segs[s], NEW wired \in BOOLEAN, NEW wireFails \in BOOLEAN,
           VmMmapMemseg(v, s, gpa, first, len, wired, wireFails)
    PROVE  Good(sc')
<1> DEFINE free == { i \in Slots : sc.maps[v][i].len = 0 }
           m == [gpa |-> gpa, len |-> len, seg |-> s, off |-> first, wired |-> wired, iommu |-> FALSE]
           i == CHOOSE x \in free : \A y \in free : x <= y
           sp == [g \in Gpas |-> IF Covers(m, g) THEN "mem" ELSE sc.space[v][g]]
           t == [sc EXCEPT !.space[v] = sp, !.refs[v][s] = @ + 1, !.maps[v][i] = m]
<1>1. /\ sc.seg[v][s] # None /\ first + len <= Segs[s] /\ free # {} /\ GpaRange(m) \subseteq Gpas
      /\ \A g \in GpaRange(m) : sc.space[v][g] = None
  BY DEF VmMmapMemseg
<1>2. CASE wireFails
  <2>1. sc' = Counted(sc) BY <1>2 DEF VmMmapMemseg, WireFailed
  <2> QED BY <2>1, CountedGood
<1>3. CASE ~wireFails
  <2>1. sc' = Counted(t) BY <1>3 DEF VmMmapMemseg
  <2>2. i \in free
    <3>1. free \subseteq Nat BY SlotsFinite
    <3>2. \E x \in free : \A y \in free : x <= y BY <1>1, <3>1, Least
    <3> QED BY <3>2
  <2>3. i \in Slots /\ sc.maps[v][i].len = 0 BY <2>2
  <2> HIDE DEF i, free
  <2>4. Segs[s] \in Nat /\ first \in Nat /\ len \in Nat /\ len > 0 /\ gpa \in Nat BY DEF Params
  <2>5. /\ m \in Mapping /\ m.len = len /\ m.len # 0 /\ m.seg = s /\ m.iommu = FALSE /\ m.off = first /\ m.gpa = gpa
    BY <2>4 DEF Mapping
  <2>6. \A g \in Gpas : Covers(m, g) <=> g \in GpaRange(m)
    <3>1. Gpas \subseteq Nat BY DEF Params
    <3> QED BY <2>4, <2>5, <3>1 DEF Covers, GpaRange
  <2> HIDE DEF m
  <2>7. sc \in State BY DEF Good
  <2>8. sc.space \in SpaceT /\ sc.refs \in RefsT /\ sc.maps \in MapsT BY <2>7 DEF State
  <2>9. /\ t.space = [sc.space EXCEPT ![v] = sp] /\ t.refs = [sc.refs EXCEPT ![v][s] = @ + 1]
        /\ t.maps = [sc.maps EXCEPT ![v][i] = m]
    BY <2>7 DEF State
  <2>10. /\ t.seg = sc.seg /\ t.host = sc.host
         /\ t.iommu = sc.iommu /\ t.dom = sc.dom /\ t.ctx = sc.ctx /\ t.ppt = sc.ppt
         /\ t.assigning = sc.assigning /\ t.panic = sc.panic /\ t.raced = sc.raced /\ t.failed = sc.failed
    BY <2>7 DEF State
  <2>11. sp \in [Gpas -> {None, "mem", "mmio"}] BY <2>8 DEF SpaceT
  <2>12. /\ t.space \in SpaceT /\ t.space[v] = sp /\ \A u \in Vms \ {v} : t.space[u] = sc.space[u]
    <3> HIDE DEF sp
    <3> QED BY <2>8, <2>9, <2>11 DEF SpaceT
  <2>13. /\ t.refs \in RefsT /\ t.refs[v][s] = sc.refs[v][s] + 1 /\ \A x \in DOMAIN Segs \ {s} : t.refs[v][x] = sc.refs[v][x]
         /\ \A u \in Vms \ {v} : t.refs[u] = sc.refs[u]
    BY <2>8, <2>9 DEF RefsT
  <2>14. /\ t.maps \in MapsT /\ t.maps[v][i] = m /\ \A j \in Slots \ {i} : t.maps[v][j] = sc.maps[v][j]
         /\ \A u \in Vms \ {v} : t.maps[u] = sc.maps[u]
    BY <2>3, <2>5, <2>8, <2>9 DEF MapsT
  <2>15. t \in State BY <2>7, <2>9, <2>12, <2>13, <2>14 DEF State
  <2> HIDE DEF t
  <2>16. ASSUME Fine(sc) PROVE Fine(t)
    <3>1. VmOk(sc, v) BY <2>16 DEF Fine
    <3>2. \A g \in Gpas : Covers(m, g) => ~VmMemAllocated(sc, v, g)
      BY <1>1, <2>6, <3>1 DEF VmOk, VmCore, SpaceExact
    <3>3. MapsFit(t, v)
      <4>1. \A j \in Slots \ {i} : t.maps[v][j].len # 0 =>
               LET a == t.maps[v][j] IN
               /\ a \in Mapping /\ GpaRange(a) \subseteq Gpas
               /\ t.seg[v][a.seg] # None /\ a.off + a.len <= Segs[a.seg]
               /\ a.iommu => t.seg[v][a.seg] = "sysmem"
        BY <2>10, <2>14, <3>1 DEF VmOk, VmCore, MapsFit
      <4>2. LET a == t.maps[v][i] IN
               /\ a \in Mapping /\ GpaRange(a) \subseteq Gpas
               /\ t.seg[v][a.seg] # None /\ a.off + a.len <= Segs[a.seg]
               /\ a.iommu => t.seg[v][a.seg] = "sysmem"
        BY <1>1, <2>5, <2>10, <2>14
      <4> QED BY <4>1, <4>2 DEF MapsFit
    <3>4. MapsApart(t, v)
      <4>1. \A j \in Slots \ {i}, g \in Gpas : ~(Covers(t.maps[v][j], g) /\ Covers(m, g))
        BY <2>14, <3>2 DEF VmMemAllocated
      <4> QED BY <2>14, <3>1, <4>1 DEF VmOk, VmCore, MapsApart
    <3>5. SameDevs(sc, t, v) /\ SameHost(sc, t, v) BY <2>10 DEF SameDevs, SameHost
    <3>6. /\ WindowsApart(t, v) /\ AssignedDevices(t, v) = AssignedDevices(sc, v)
          /\ \A g : PptIsMmio(t, v, g) <=> PptIsMmio(sc, v, g)
      BY <3>1, <3>5, WindowsSame DEF VmOk, VmCore
    <3>7. KindsApart(t, v)
      <4>1. \A d \in Devs : \A w \in sc.ppt[d].mmio : \A g \in Gpas :
               ~(sc.ppt[d].vm = v /\ Covers(m, g) /\ Covers(w, g))
        BY <3>2 DEF VmMemAllocated, PptIsMmio
      <4> QED BY <2>10, <2>14, <3>1, <4>1 DEF VmOk, VmCore, KindsApart
    <3>8. ~ \E g : Covers(sc.maps[v][i], g) BY <2>3 DEF Covers
    <3>9. SpaceExact(t, v)
      <4>1. ASSUME NEW g \in Gpas PROVE VmMemAllocated(t, v, g) <=> Covers(m, g) \/ VmMemAllocated(sc, v, g)
        BY <2>3, <2>14, <3>6, <3>8 DEF VmMemAllocated
      <4>2. ASSUME NEW g \in Gpas PROVE t.space[v][g] # None <=> Covers(m, g) \/ sc.space[v][g] # None
        BY <2>12 DEF None
      <4> QED BY <3>1, <4>1, <4>2 DEF VmOk, VmCore, SpaceExact
    <3>10. RefsExact(t, v)
      <4>1. \A x \in DOMAIN Segs \ {s} : MapsOf(t, v, x) = MapsOf(sc, v, x) BY <2>3, <2>5, <2>14 DEF MapsOf
      <4>2. MapsOf(t, v, s) = MapsOf(sc, v, s) \cup {i} /\ i \notin MapsOf(sc, v, s) BY <2>3, <2>5, <2>14 DEF MapsOf
      <4>3. IsFiniteSet(MapsOf(sc, v, s)) BY SlotsFinite DEF MapsOf
      <4>4. Cardinality(MapsOf(t, v, s)) = Cardinality(MapsOf(sc, v, s)) + 1 BY <4>2, <4>3, FS_AddElement
      <4>5. Cardinality(MapsOf(sc, v, s)) \in Nat BY <4>3, FS_CardinalityType
      <4>6. sc.refs[v][s] = (IF sc.seg[v][s] = None THEN 0 ELSE 1) + Cardinality(MapsOf(sc, v, s))
        BY <3>1 DEF VmOk, VmCore, RefsExact
      <4>7. t.refs[v][s] = (IF t.seg[v][s] = None THEN 0 ELSE 1) + Cardinality(MapsOf(t, v, s))
        BY <1>1, <2>10, <2>13, <4>4, <4>5, <4>6
      <4>8. \A x \in DOMAIN Segs \ {s} :
              t.refs[v][x] = (IF t.seg[v][x] = None THEN 0 ELSE 1) + Cardinality(MapsOf(t, v, x))
        BY <2>10, <2>13, <3>1, <4>1 DEF VmOk, VmCore, RefsExact
      <4> QED BY <4>7, <4>8 DEF RefsExact
    <3>11. Flagged(t, v) = Flagged(sc, v) BY <2>3, <2>5, <2>14 DEF Flagged
    <3>12. \A j \in Flagged(sc, v) : t.maps[v][j] = sc.maps[v][j] BY <2>3, <2>14 DEF Flagged
    <3>13. GivenTo(sc, v) => GivenTo(t, v) BY <2>10, <3>11, <3>12 DEF GivenTo
    <3>14. DomainExact(t, v) /\ FlagsOwned(t, v)
      BY <2>10, <3>1, <3>6, <3>11, <3>13 DEF VmOk, VmCore, DomainExact, FlagsOwned
    <3>15. DomainOwn(t, v) BY <2>10, <3>1 DEF VmOk, VmCore, DomainOwn
    <3>16. VmOk(t, v) BY <3>3, <3>4, <3>6, <3>7, <3>9, <3>10, <3>14, <3>15 DEF VmOk, VmCore
    <3> QED BY <2>10, <2>12, <2>13, <2>14, <2>15, <2>16, <3>16, MemoryFrame
  <2>17. Good(t) BY <2>10, <2>15, <2>16 DEF Good
  <2> QED BY <2>1, <2>17, CountedGood
<1> QED BY <1>2, <1>3

LEMMA MapMmioKeeps ==
    ASSUME Params, Good(sc), NEW v \in Vms, NEW d \in Devs, NEW gpa \in Gpas, NEW len \in Nat, len > 0,
           PptMapMmio(v, d, gpa, len)
    PROVE  Good(sc')
<1> DEFINE w == [gpa |-> gpa, len |-> len]
           p == [sc.ppt[d] EXCEPT !.mmio = @ \cup {w}]
           sp == [g \in Gpas |-> IF Covers(w, g) THEN "mmio" ELSE sc.space[v][g]]
           t == [sc EXCEPT !.ppt[d].mmio = @ \cup {w}, !.space[v] = sp]
<1>1. /\ sc' = Counted(t) /\ sc.ppt[d].vm = v /\ GpaRange(w) \subseteq Gpas
      /\ \A g \in GpaRange(w) : sc.space[v][g] = None
  BY DEF PptMapMmio, AssignedDevices
<1>2. w \in Window /\ w.len = len /\ w.gpa = gpa /\ Gpas \subseteq Nat BY DEF Window, Params
<1>3. \A g \in Gpas : Covers(w, g) <=> g \in GpaRange(w) BY <1>2 DEF Covers, GpaRange
<1> HIDE DEF w
<1>4. sc \in State BY DEF Good
<1>5. sc.space \in SpaceT /\ sc.ppt \in PptT BY <1>4 DEF State
<1>6. sc.ppt[d] \in Device /\ MsiOk(sc.ppt[d]) BY <1>5 DEF PptT
<1>7. /\ p \in Device /\ p.attached = sc.ppt[d].attached /\ p.vm = v /\ p.mmio = sc.ppt[d].mmio \cup {w}
      /\ p.msi = sc.ppt[d].msi /\ p.startrid = sc.ppt[d].startrid /\ p.msix = sc.ppt[d].msix
      /\ p.irqs = sc.ppt[d].irqs /\ p.alloc = sc.ppt[d].alloc
  BY <1>1, <1>2, <1>6 DEF Device
<1>8. MsiOk(p) BY <1>6, <1>7 DEF MsiOk
<1>9. t.ppt = [sc.ppt EXCEPT ![d] = p] /\ t.space = [sc.space EXCEPT ![v] = sp] BY <1>4 DEF State
<1>10. /\ t.seg = sc.seg /\ t.refs = sc.refs /\ t.maps = sc.maps /\ t.host = sc.host
       /\ t.iommu = sc.iommu /\ t.dom = sc.dom /\ t.ctx = sc.ctx
       /\ t.assigning = sc.assigning /\ t.panic = sc.panic /\ t.raced = sc.raced /\ t.failed = sc.failed
  BY <1>4 DEF State
<1> HIDE DEF p
<1>11. t.ppt \in PptT /\ t.ppt[d] = p /\ \A e \in Devs \ {d} : t.ppt[e] = sc.ppt[e] BY <1>5, <1>7, <1>8, <1>9 DEF PptT
<1>12. sp \in [Gpas -> {None, "mem", "mmio"}] BY <1>5 DEF SpaceT
<1>13. t.space \in SpaceT /\ t.space[v] = sp /\ \A u \in Vms \ {v} : t.space[u] = sc.space[u]
  <2> HIDE DEF sp
  <2> QED BY <1>5, <1>9, <1>12 DEF SpaceT
<1>14. t \in State BY <1>4, <1>9, <1>11, <1>13 DEF State
<1> HIDE DEF t
<1>15. ASSUME Fine(sc) PROVE Fine(t)
  <2>1. VmOk(sc, v) BY <1>15 DEF Fine
  <2>2. v # None BY DEF Params
  <2>3. \A u \in Vms \ {v} : VmOk(t, u)
    <3> TAKE u \in Vms \ {v}
    <3>1. SameVm(sc, t, u) /\ SameHost(sc, t, u) BY <1>10, <1>13 DEF SameVm, SameHost
    <3>2. SameDevs(sc, t, u) BY <1>1, <1>7, <1>11 DEF SameDevs
    <3> QED BY <1>10, <1>15, <3>1, <3>2, VmSame DEF Fine
  <2>4. \A g \in Gpas : Covers(w, g) => ~VmMemAllocated(sc, v, g) BY <1>1, <1>3, <2>1 DEF VmOk, VmCore, SpaceExact
  <2>5. MapsFit(t, v) /\ MapsApart(t, v) /\ RefsExact(t, v) BY <1>10, <2>1, MapsSame DEF VmOk, VmCore
  <2>6. \A e \in Devs : t.ppt[e].vm = sc.ppt[e].vm /\ t.ppt[e].attached = sc.ppt[e].attached
    BY <1>1, <1>7, <1>11
  <2>7. \A e \in Devs : \A x \in t.ppt[e].mmio : x \in sc.ppt[e].mmio \/ (e = d /\ x = w) BY <1>7, <1>11
  <2>8. \A e \in Devs : \A x \in sc.ppt[e].mmio, g \in Gpas : ~(sc.ppt[e].vm = v /\ Covers(x, g) /\ Covers(w, g))
    BY <2>4 DEF VmMemAllocated, PptIsMmio
  <2>9. WindowsApart(t, v)
    <3>1. SUFFICES ASSUME NEW e \in Devs, NEW f \in Devs, NEW x \in t.ppt[e].mmio, NEW y \in t.ppt[f].mmio,
                          NEW g \in Gpas, t.ppt[e].vm = v, t.ppt[f].vm = v, Covers(x, g), Covers(y, g)
                   PROVE  e = f /\ x = y
      BY DEF WindowsApart
    <3>2. CASE x \in sc.ppt[e].mmio /\ y \in sc.ppt[f].mmio BY <2>1, <2>6, <3>1, <3>2 DEF VmOk, VmCore, WindowsApart
    <3>3. CASE x \in sc.ppt[e].mmio /\ f = d /\ y = w BY <2>6, <2>8, <3>1, <3>3
    <3>4. CASE y \in sc.ppt[f].mmio /\ e = d /\ x = w BY <2>6, <2>8, <3>1, <3>4
    <3>5. CASE e = d /\ x = w /\ f = d /\ y = w BY <3>5
    <3> QED BY <2>7, <3>2, <3>3, <3>4, <3>5
  <2>10. \A i \in Slots, g \in Gpas : ~(Covers(sc.maps[v][i], g) /\ Covers(w, g)) BY <2>4 DEF VmMemAllocated
  <2>11. KindsApart(t, v) BY <1>10, <2>1, <2>6, <2>7, <2>10 DEF VmOk, VmCore, KindsApart
  <2>12. SpaceExact(t, v)
    <3>1. ASSUME NEW g \in Gpas PROVE PptIsMmio(t, v, g) <=> Covers(w, g) \/ PptIsMmio(sc, v, g)
      <4>1. PptIsMmio(sc, v, g) => PptIsMmio(t, v, g) BY <1>7, <1>11, <2>6 DEF PptIsMmio
      <4>2. Covers(w, g) => PptIsMmio(t, v, g) BY <1>7, <1>11 DEF PptIsMmio
      <4>3. PptIsMmio(t, v, g) => Covers(w, g) \/ PptIsMmio(sc, v, g) BY <2>6, <2>7 DEF PptIsMmio
      <4> QED BY <4>1, <4>2, <4>3
    <3>2. ASSUME NEW g \in Gpas PROVE VmMemAllocated(t, v, g) <=> Covers(w, g) \/ VmMemAllocated(sc, v, g)
      BY <1>10, <3>1 DEF VmMemAllocated
    <3>3. ASSUME NEW g \in Gpas PROVE t.space[v][g] # None <=> Covers(w, g) \/ sc.space[v][g] # None
      BY <1>13 DEF None
    <3> QED BY <2>1, <3>2, <3>3 DEF VmOk, VmCore, SpaceExact
  <2>13. AssignedDevices(t, v) = AssignedDevices(sc, v) BY <2>6 DEF AssignedDevices
  <2>14. SameHost(sc, t, v) BY <1>10 DEF SameHost
  <2>15. DomainExact(t, v) /\ DomainOwn(t, v) BY <1>10, <2>1, <2>14, DomainSame DEF VmOk, VmCore
  <2>15a. FlagsOwned(t, v) BY <1>10, <2>1, <2>13, FlagsSame DEF VmOk
  <2>16. VmOk(t, v) BY <2>5, <2>9, <2>11, <2>12, <2>15, <2>15a DEF VmOk, VmCore
  <2>17. \A e \in Devs \ {d} : DevOk(t, e) BY <1>10, <1>11, <1>15, DevSame DEF Fine
  <2>18. DevOk(sc, d) BY <1>15 DEF Fine
  <2>19. DevOk(t, d) BY <1>1, <1>2, <1>7, <1>10, <1>11, <2>2, <2>18 DEF DevOk
  <2>20. PendingOk(t) BY <1>10, <1>15 DEF Fine, PendingOk
  <2> QED BY <1>14, <2>3, <2>16, <2>17, <2>19, <2>20 DEF Fine
<1>16. Good(t) BY <1>10, <1>14, <1>15 DEF Good
<1> QED BY <1>1, <1>16, CountedGood

-----------------------------------------------------------------------------
(* The domain of a VM *)

\* Only the flags of the mappings differ.
Shaped(st, t, v) ==
    \A i \in Slots :
        LET m == st.maps[v][i]
            n == t.maps[v][i] IN
        /\ n.len = m.len
        /\ m.len # 0 => n.gpa = m.gpa /\ n.seg = m.seg /\ n.off = m.off /\ n.wired = m.wired

LEMMA ShapeSame ==
    ASSUME NEW st, NEW t, NEW v, Shaped(st, t, v)
    PROVE  /\ \A i \in Slots : \A g : Covers(t.maps[v][i], g) <=> Covers(st.maps[v][i], g)
           /\ MapsApart(st, v) => MapsApart(t, v)
           /\ SameDevs(st, t, v) => (KindsApart(st, v) => KindsApart(t, v))
           /\ SameDevs(st, t, v) /\ t.space[v] = st.space[v] => (SpaceExact(st, v) => SpaceExact(t, v))
           /\ t.refs[v] = st.refs[v] /\ t.seg[v] = st.seg[v] => (RefsExact(st, v) => RefsExact(t, v))
<1>1. \A i \in Slots : \A g : Covers(t.maps[v][i], g) <=> Covers(st.maps[v][i], g) BY DEF Shaped, Covers
<1>2. MapsApart(st, v) => MapsApart(t, v) BY <1>1 DEF MapsApart
<1>3. SameDevs(st, t, v) => (KindsApart(st, v) => KindsApart(t, v)) BY <1>1 DEF KindsApart, SameDevs
<1>4. ASSUME SameDevs(st, t, v), t.space[v] = st.space[v], SpaceExact(st, v) PROVE SpaceExact(t, v)
  <2>1. \A g : PptIsMmio(t, v, g) <=> PptIsMmio(st, v, g) BY <1>4, WindowsSame
  <2>2. \A g : VmMemAllocated(t, v, g) <=> VmMemAllocated(st, v, g) BY <1>1, <2>1 DEF VmMemAllocated
  <2> QED BY <1>4, <2>2 DEF SpaceExact
<1>5. ASSUME t.refs[v] = st.refs[v], t.seg[v] = st.seg[v], RefsExact(st, v) PROVE RefsExact(t, v)
  <2>1. \A s : MapsOf(t, v, s) = MapsOf(st, v, s) BY DEF MapsOf, Shaped
  <2> QED BY <1>5, <2>1 DEF RefsExact
<1> QED BY <1>1, <1>2, <1>3, <1>4, <1>5

\* The mapping that covers a page, and its page of the host.
LEMMA CoversRange ==
    ASSUME NEW st \in State, NEW v \in Vms, NEW i \in Slots, st.maps[v][i].len # 0
    PROVE  /\ st.maps[v][i] \in Mapping
           /\ \A g \in GpaRange(st.maps[v][i]) : g \in Nat /\ Covers(st.maps[v][i], g)
<1>1. st.maps \in MapsT BY DEF State
<1>2. st.maps[v][i] \in Mapping BY <1>1 DEF MapsT, NoMap
<1>3. st.maps[v][i].gpa \in Nat /\ st.maps[v][i].len \in Nat BY <1>2 DEF Mapping
<1> QED BY <1>2, <1>3 DEF GpaRange, Covers

LEMMA PageTyped ==
    ASSUME NEW st \in State, NEW v \in Vms, NEW i \in Slots, NEW g \in Nat, Covers(st.maps[v][i], g)
    PROVE  /\ PageAt(v, st.maps[v][i], g) \in Vms \X (DOMAIN Segs) \X Nat
           /\ PageAt(v, st.maps[v][i], g)[1] = v
<1> DEFINE m == st.maps[v][i]
<1>1. m \in Mapping BY CoversRange DEF Covers
<1>2. m.gpa \in Nat /\ m.off \in Nat /\ m.seg \in DOMAIN Segs /\ g >= m.gpa BY <1>1 DEF Mapping, Covers
<1> HIDE DEF m
<1>3. m.off + g - m.gpa \in Nat BY <1>2
<1>4. PageAt(v, m, g) \in Vms \X (DOMAIN Segs) \X Nat /\ PageAt(v, m, g)[1] = v BY <1>2, <1>3 DEF PageAt
<1> QED BY <1>4 DEF m

\* What giving memory to the devices of a VM, or taking it back, may change.
DomainStep(st, t, v) ==
    /\ t \in State
    /\ t.seg = st.seg /\ t.refs = st.refs /\ t.space = st.space /\ t.iommu = st.iommu /\ t.ctx = st.ctx
    /\ t.ppt = st.ppt /\ t.assigning = st.assigning /\ t.raced = st.raced /\ t.failed = st.failed
    /\ \A u \in Vms \ {v} : t.maps[u] = st.maps[u] /\ t.dom[u] = st.dom[u] /\ SameHost(st, t, u)

LEMMA DomainFrame ==
    ASSUME NEW st, NEW t, NEW v \in Vms, DomainStep(st, t, v)
    PROVE  /\ \A u \in Vms \ {v} : (VmCore(st, u) => VmCore(t, u)) /\ (FlagsOwned(st, u) => FlagsOwned(t, u))
           /\ \A d \in Devs : DevOk(st, d) => DevOk(t, d)
           /\ \A u \in Vms : SameDevs(st, t, u) /\ AssignedDevices(t, u) = AssignedDevices(st, u)
<1>1. \A u \in Vms : SameDevs(st, t, u) /\ AssignedDevices(t, u) = AssignedDevices(st, u)
  BY DEF DomainStep, SameDevs, AssignedDevices
<1>2. \A u \in Vms \ {v} : SameVm(st, t, u) BY DEF DomainStep, SameVm
<1>3. \A u \in Vms \ {v} : VmCore(st, u) => VmCore(t, u) BY <1>1, <1>2, CoreSame DEF DomainStep
<1>4. \A u \in Vms \ {v} : FlagsOwned(st, u) => FlagsOwned(t, u) BY <1>1, FlagsSame DEF DomainStep
<1>5. \A d \in Devs : DevOk(st, d) => DevOk(t, d) BY DevSame DEF DomainStep
<1> QED BY <1>1, <1>3, <1>4, <1>5

\* The flags of some slots are set or cleared.
FlagsAre(st, v, S, b) ==
    [i \in Slots |-> IF i \in S THEN [st.maps[v][i] EXCEPT !.iommu = b] ELSE st.maps[v][i]]

FlagsPut(st, t, v, S, b) ==
    /\ t.maps \in MapsT /\ Shaped(st, t, v)
    /\ \A u \in Vms \ {v} : t.maps[u] = st.maps[u]
    /\ \A i \in S : t.maps[v][i].iommu = b
    /\ \A i \in Slots \ S : t.maps[v][i] = st.maps[v][i]
    /\ \A i \in S : t.maps[v][i] \in Mapping

LEMMA FlagsWritten ==
    ASSUME NEW st \in State, NEW v \in Vms, NEW S, S \subseteq Slots, \A i \in S : st.maps[v][i].len # 0,
           NEW b \in BOOLEAN, NEW t, t.maps = [st.maps EXCEPT ![v] = FlagsAre(st, v, S, b)]
    PROVE  FlagsPut(st, t, v, S, b)
<1> DEFINE f == FlagsAre(st, v, S, b)
<1>1. st.maps \in MapsT BY DEF State
<1>2. \A i \in S : st.maps[v][i] \in Mapping BY <1>1 DEF MapsT, NoMap
<1>4. \A i \in S : f[i] = [st.maps[v][i] EXCEPT !.iommu = b] BY DEF FlagsAre
<1>5. \A i \in Slots \ S : f[i] = st.maps[v][i] BY DEF FlagsAre
<1>8. DOMAIN f = Slots /\ f = [i \in Slots |-> f[i]] BY DEF FlagsAre
<1> HIDE DEF f
<1>6. \A i \in S : /\ f[i] \in Mapping /\ f[i].iommu = b /\ f[i].len = st.maps[v][i].len /\ f[i].gpa = st.maps[v][i].gpa
                   /\ f[i].seg = st.maps[v][i].seg /\ f[i].off = st.maps[v][i].off /\ f[i].wired = st.maps[v][i].wired
  <2> TAKE i \in S
  <2> DEFINE m == st.maps[v][i]
  <2>1. f[i] = [m EXCEPT !.iommu = b] /\ m \in Mapping BY <1>2, <1>4
  <2> HIDE DEF m
  <2>2. LET n == [m EXCEPT !.iommu = b] IN
           /\ n \in Mapping /\ n.iommu = b /\ n.len = m.len /\ n.gpa = m.gpa /\ n.seg = m.seg /\ n.off = m.off
           /\ n.wired = m.wired
    BY <2>1 DEF Mapping
  <2> QED BY <2>1, <2>2 DEF m
<1>9. f \in [Slots -> Mapping \cup {NoMap}]
  <2>1. \A i \in Slots \ S : f[i] \in Mapping \cup {NoMap} BY <1>1, <1>5 DEF MapsT
  <2>2. \A i \in Slots : f[i] \in Mapping \cup {NoMap} BY <1>6, <2>1
  <2> QED BY <1>8, <2>2
<1>10. t.maps \in MapsT /\ t.maps[v] = f /\ \A u \in Vms \ {v} : t.maps[u] = st.maps[u] BY <1>1, <1>9 DEF MapsT, f
<1>11. Shaped(st, t, v) BY <1>5, <1>6, <1>10 DEF Shaped
<1> QED BY <1>5, <1>6, <1>10, <1>11 DEF FlagsPut

LEMMA IommuMapStep ==
    ASSUME Params, NEW st \in State, NEW v \in Vms
    PROVE  /\ DomainStep(st, VmIommuMap(st, v), v)
           /\ VmIommuMap(st, v).panic = (st.panic \/ \E i \in Slots : SysmemMapping(st, v, st.maps[v][i]) /\ st.maps[v][i].iommu)
           /\ (\A u \in Vms : VmCore(st, u)) /\ ~VmIommuMap(st, v).panic => VmCore(VmIommuMap(st, v), v)
<1> DEFINE S == IommuMapped(st, v)
           gs == UNION { GpaRange(st.maps[v][i]) : i \in S }
           at(g) == CHOOSE i \in S : Covers(st.maps[v][i], g)
           page(g) == PageAt(v, st.maps[v][at(g)], g)
           t == VmIommuMap(st, v)
           bad == \E i \in Slots : SysmemMapping(st, v, st.maps[v][i]) /\ st.maps[v][i].iommu
<1>1. CASE bad
  <2>1. t = [st EXCEPT !.panic = TRUE] BY <1>1 DEF VmIommuMap
  <2>2. /\ t \in State /\ t.panic = TRUE
        /\ t.seg = st.seg /\ t.refs = st.refs /\ t.space = st.space /\ t.iommu = st.iommu /\ t.ctx = st.ctx
        /\ t.ppt = st.ppt /\ t.assigning = st.assigning /\ t.raced = st.raced /\ t.failed = st.failed
        /\ t.maps = st.maps /\ t.dom = st.dom /\ t.host = st.host
    BY <2>1 DEF State
  <2> HIDE DEF t
  <2>3. DomainStep(st, t, v) BY <2>2 DEF DomainStep, SameHost
  <2> QED BY <1>1, <2>2, <2>3 DEF t
<1>2. CASE ~bad
  <2> DEFINE D == { <<g, page(g)>> : g \in gs }
             P == { page(g) : g \in gs }
  <2>1. t = [st EXCEPT !.dom[v] = D, !.host = @ \ P,
                       !.maps[v] = [i \in Slots |-> IF i \in S THEN [@[i] EXCEPT !.iommu = TRUE] ELSE @[i]]]
    BY <1>2 DEF VmIommuMap
  <2>2. /\ t.dom = [st.dom EXCEPT ![v] = D] /\ t.host = st.host \ P /\ t.panic = st.panic
        /\ t.maps = [st.maps EXCEPT ![v] = [i \in Slots |-> IF i \in S THEN [@[i] EXCEPT !.iommu = TRUE] ELSE @[i]]]
        /\ t.seg = st.seg /\ t.refs = st.refs /\ t.space = st.space /\ t.iommu = st.iommu /\ t.ctx = st.ctx
        /\ t.ppt = st.ppt /\ t.assigning = st.assigning /\ t.raced = st.raced /\ t.failed = st.failed
    <3> HIDE DEF D, P, S, t
    <3> QED BY <2>1 DEF State
  <2>3. S \subseteq Slots /\ \A i \in S : st.maps[v][i].len # 0 BY DEF IommuMapped, SysmemMapping
  <2>4. \A g \in gs : /\ at(g) \in S /\ Covers(st.maps[v][at(g)], g) /\ g \in Nat
                      /\ page(g) \in Vms \X (DOMAIN Segs) \X Nat /\ page(g)[1] = v
    <3> TAKE g \in gs
    <3> HIDE DEF S
    <3>1. PICK i \in S : g \in GpaRange(st.maps[v][i]) OBVIOUS
    <3>2. g \in Nat /\ Covers(st.maps[v][i], g) BY <2>3, <3>1, CoversRange
    <3>3. at(g) \in S /\ Covers(st.maps[v][at(g)], g) BY <3>2
    <3> HIDE DEF at, gs
    <3> QED BY <2>3, <3>2, <3>3, PageTyped
  <2>5. /\ t.maps \in MapsT /\ (\A u \in Vms \ {v} : t.maps[u] = st.maps[u]) /\ Shaped(st, t, v)
        /\ (\A i \in S : t.maps[v][i].iommu = TRUE) /\ (\A i \in Slots \ S : t.maps[v][i] = st.maps[v][i])
        /\ (\A i \in S : t.maps[v][i] \in Mapping)
    <3> DEFINE b == TRUE
    <3>1. t.maps = [st.maps EXCEPT ![v] = FlagsAre(st, v, S, b)] BY <2>2 DEF FlagsAre
    <3>2. b \in BOOLEAN OBVIOUS
    <3> HIDE DEF S, t, b
    <3>3. FlagsPut(st, t, v, S, b) BY <2>3, <3>1, <3>2, FlagsWritten
    <3> QED BY <3>3 DEF b, FlagsPut
  <2> HIDE DEF page, at, gs
  <2>6. D \subseteq Nat \X (Vms \X (DOMAIN Segs) \X Nat) BY <2>4
  <2>7. st.dom \in DomT /\ st.host \in HostT BY DEF State
  <2>8. /\ t.dom \in DomT /\ t.dom[v] = D /\ (\A u \in Vms \ {v} : t.dom[u] = st.dom[u]) /\ t.host \in HostT
    <3> HIDE DEF D, P, t
    <3> QED BY <2>2, <2>6, <2>7 DEF DomT, HostT
  <2>9. t \in State
    <3> HIDE DEF D, P, S
    <3>1. t \in [seg : SegT, refs : RefsT, maps : MapsT, space : SpaceT, host : HostT, iommu : IommuT, dom : DomT,
                 ctx : CtxT, ppt : PptT, assigning : AssignT, panic : BOOLEAN, raced : BOOLEAN, failed : FailedT, ops : Nat]
      BY <2>1, <2>2, <2>5, <2>8 DEF State
    <3> QED BY <3>1 DEF State
  <2> HIDE DEF t
  <2>10. \A u \in Vms \ {v} : SameHost(st, t, u)
    <3>1. \A u \in Vms \ {v} : \A s \in DOMAIN Segs : \A p \in PagesOf(u, s) : p[1] = u BY DEF PagesOf
    <3>2. \A p \in P : p[1] = v BY <2>4
    <3> QED BY <2>2, <3>1, <3>2 DEF SameHost
  <2>11. DomainStep(st, t, v) BY <2>2, <2>5, <2>8, <2>9, <2>10 DEF DomainStep
  <2>12. ASSUME \A u \in Vms : VmCore(st, u) PROVE VmCore(t, v)
    <3>1. VmCore(st, v) BY <2>12
    <3>2. SameDevs(st, t, v) BY <2>11, DomainFrame
    <3>3. /\ \A i \in Slots : \A g : Covers(t.maps[v][i], g) <=> Covers(st.maps[v][i], g)
          /\ MapsApart(t, v) /\ KindsApart(t, v) /\ SpaceExact(t, v) /\ RefsExact(t, v)
      BY <2>2, <2>5, <3>1, <3>2, ShapeSame DEF VmCore
    <3>4. WindowsApart(t, v) BY <3>1, <3>2, WindowsSame DEF VmCore
    <3>5. MapsFit(t, v)
      <4>1. \A i \in S : st.seg[v][st.maps[v][i].seg] = "sysmem" BY DEF IommuMapped, SysmemMapping
      <4>2. ASSUME NEW i \in Slots, t.maps[v][i].len # 0
            PROVE  LET m == t.maps[v][i] IN
                   /\ m \in Mapping /\ GpaRange(m) \subseteq Gpas
                   /\ t.seg[v][m.seg] # None /\ m.off + m.len <= Segs[m.seg]
                   /\ m.iommu => t.seg[v][m.seg] = "sysmem"
        <5> DEFINE m == t.maps[v][i]
                   n == st.maps[v][i]
        <5>1. m.len = n.len /\ m.gpa = n.gpa /\ m.seg = n.seg /\ m.off = n.off BY <2>5, <4>2 DEF Shaped
        <5>2. /\ GpaRange(n) \subseteq Gpas /\ st.seg[v][n.seg] # None /\ n.off + n.len <= Segs[n.seg]
              /\ n.iommu => st.seg[v][n.seg] = "sysmem" /\ n \in Mapping
          BY <3>1, <4>2, <5>1 DEF VmCore, MapsFit
        <5>3. n \in Mapping BY <3>1, <4>2, <5>1 DEF VmCore, MapsFit
        <5>4. m \in Mapping BY <2>5, <5>3
        <5>5. m.iommu => st.seg[v][n.seg] = "sysmem" BY <2>5, <4>1, <5>2
        <5> QED BY <2>2, <5>1, <5>2, <5>4, <5>5 DEF GpaRange
      <4> QED BY <4>2 DEF MapsFit
    <3>6. Flagged(st, v) = {}
      BY <1>2, <3>1 DEF VmCore, MapsFit, Flagged, SysmemMapping
    <3>7. Flagged(t, v) = S
      <4>1. S \subseteq Flagged(t, v) BY <2>3, <2>5 DEF Flagged, Shaped
      <4>2. Flagged(t, v) \subseteq S BY <2>5, <3>6 DEF Flagged
      <4> QED BY <4>1, <4>2
    <3>8. \A i \in S : GpaRange(st.maps[v][i]) \subseteq Gpas BY <2>3, <3>1 DEF VmCore, MapsFit
    <3>9. gs \subseteq Gpas BY <3>8 DEF gs
    <3>10. \A i \in S, g \in Gpas : Covers(st.maps[v][i], g) => g \in gs
      <4>1. \A i \in S : st.maps[v][i] \in Mapping BY <2>3, <3>1 DEF VmCore, MapsFit
      <4> SUFFICES ASSUME NEW i \in S, NEW g \in Gpas, Covers(st.maps[v][i], g) PROVE g \in gs
        OBVIOUS
      <4>2. st.maps[v][i].gpa \in Nat /\ st.maps[v][i].len \in Nat BY <4>1 DEF Mapping
      <4>3. g \in GpaRange(st.maps[v][i]) => g \in gs BY DEF gs
      <4>4. CASE g \in Int BY <4>2, <4>3, <4>4 DEF GpaRange, Covers
      <4>5. g \in Int BY DEF Params
      <4> QED BY <4>4, <4>5
    <3>11. \A g \in gs : \A i \in S : Covers(st.maps[v][i], g) => i = at(g)
      BY <2>3, <2>4, <3>1, <3>9 DEF VmCore, MapsApart
    <3>12. \A i \in S, g \in Gpas : PageAt(v, t.maps[v][i], g) = PageAt(v, st.maps[v][i], g)
      BY <2>3, <2>5 DEF PageAt, Shaped
    <3>13. GivenTo(t, v)
      <4>1. ASSUME NEW q \in t.dom[v]
            PROVE  q[1] \in Gpas /\ \E i \in Flagged(t, v) : Covers(t.maps[v][i], q[1]) /\ q[2] = PageAt(v, t.maps[v][i], q[1])
        <5>1. PICK g \in gs : q = <<g, page(g)>> BY <2>8
        <5>2. g \in Gpas /\ at(g) \in S /\ Covers(st.maps[v][at(g)], g) BY <2>4, <3>9, <5>1
        <5>3. page(g) = PageAt(v, t.maps[v][at(g)], g) BY <3>12, <5>2 DEF page
        <5>4. Covers(t.maps[v][at(g)], g) BY <2>3, <3>3, <5>2
        <5> QED BY <3>7, <5>1, <5>2, <5>3, <5>4
      <4>2. ASSUME NEW i \in Flagged(t, v), NEW g \in Gpas, Covers(t.maps[v][i], g)
            PROVE  <<g, PageAt(v, t.maps[v][i], g)>> \in t.dom[v]
        <5>1. i \in S /\ Covers(st.maps[v][i], g) BY <2>3, <3>3, <3>7, <4>2
        <5>2. g \in gs /\ i = at(g) BY <3>10, <3>11, <5>1
        <5>3. PageAt(v, t.maps[v][i], g) = page(g) BY <3>12, <5>1, <5>2 DEF page
        <5> QED BY <2>8, <5>2, <5>3
      <4> QED BY <4>1, <4>2 DEF GivenTo
    <3>14. DomainOwn(t, v) BY <2>4, <2>8 DEF DomainOwn
    <3>15. DomainExact(t, v)
      <4> SUFFICES ASSUME v \notin t.failed, NEW s \in DOMAIN Segs, NEW p \in PagesOf(v, s)
                   PROVE  p \in t.host <=> ~ \E q \in t.dom[v] : q[2] = p
        BY <3>13 DEF DomainExact
      <4>1. st.dom[v] = {} BY <2>2, <3>1, <3>6 DEF VmCore, DomainExact, GivenTo
      <4>2. p \in st.host BY <2>2, <3>1, <4>1 DEF VmCore, DomainExact
      <4>3. \A g : <<g, page(g)>>[2] = page(g) OBVIOUS
      <4>4. (\E q \in D : q[2] = p) <=> p \in P BY <4>3
      <4> QED BY <2>2, <2>8, <4>2, <4>4
    <3> QED BY <3>3, <3>4, <3>5, <3>14, <3>15 DEF VmCore
  <2>13. st.panic \in BOOLEAN BY DEF State
  <2>14. t.panic = (st.panic \/ bad) BY <1>2, <2>2, <2>13
  <2> QED BY <2>11, <2>12, <2>14 DEF t
<1> QED BY <1>1, <1>2

LEMMA IommuUnmapStep ==
    ASSUME Params, NEW st \in State, NEW v \in Vms
    PROVE  /\ DomainStep(st, VmIommuUnmap(st, v), v)
           /\ VmIommuUnmap(st, v).panic = st.panic
           /\ VmCore(st, v) => VmCore(VmIommuUnmap(st, v), v) /\ Flagged(VmIommuUnmap(st, v), v) = {}
<1> DEFINE S == { i \in Slots : SysmemMapping(st, v, st.maps[v][i]) /\ st.maps[v][i].iommu }
           gs == UNION { GpaRange(st.maps[v][i]) : i \in S }
           at(g) == CHOOSE i \in S : Covers(st.maps[v][i], g)
           page(g) == PageAt(v, st.maps[v][at(g)], g)
           t == VmIommuUnmap(st, v)
           D == { q \in st.dom[v] : q[1] \notin gs }
           P == { page(g) : g \in gs }
<1>1. t = [st EXCEPT !.dom[v] = D, !.host = @ \cup P,
                     !.maps[v] = [i \in Slots |-> IF i \in S THEN [@[i] EXCEPT !.iommu = FALSE] ELSE @[i]]]
  BY DEF VmIommuUnmap
<1>2. /\ t.dom = [st.dom EXCEPT ![v] = D] /\ t.host = st.host \cup P /\ t.panic = st.panic
      /\ t.maps = [st.maps EXCEPT ![v] = [i \in Slots |-> IF i \in S THEN [@[i] EXCEPT !.iommu = FALSE] ELSE @[i]]]
      /\ t.seg = st.seg /\ t.refs = st.refs /\ t.space = st.space /\ t.iommu = st.iommu /\ t.ctx = st.ctx
      /\ t.ppt = st.ppt /\ t.assigning = st.assigning /\ t.raced = st.raced /\ t.failed = st.failed
  <2> HIDE DEF D, P, S, t
  <2> QED BY <1>1 DEF State
<1>3. S \subseteq Slots /\ \A i \in S : st.maps[v][i].len # 0 BY DEF SysmemMapping
<1>4. \A g \in gs : /\ at(g) \in S /\ Covers(st.maps[v][at(g)], g) /\ g \in Nat
                    /\ page(g) \in Vms \X (DOMAIN Segs) \X Nat /\ page(g)[1] = v
  <2> TAKE g \in gs
  <2> HIDE DEF S
  <2>1. PICK i \in S : g \in GpaRange(st.maps[v][i]) OBVIOUS
  <2>2. g \in Nat /\ Covers(st.maps[v][i], g) BY <1>3, <2>1, CoversRange
  <2>3. at(g) \in S /\ Covers(st.maps[v][at(g)], g) BY <2>2
  <2> HIDE DEF at, gs
  <2> QED BY <1>3, <2>2, <2>3, PageTyped
<1>5. FlagsPut(st, t, v, S, FALSE)
  <2> DEFINE b == FALSE
  <2>1. t.maps = [st.maps EXCEPT ![v] = FlagsAre(st, v, S, b)] BY <1>2 DEF FlagsAre
  <2>2. b \in BOOLEAN OBVIOUS
  <2> HIDE DEF S, t, b
  <2>3. FlagsPut(st, t, v, S, b) BY <1>3, <2>1, <2>2, FlagsWritten
  <2> QED BY <2>3 DEF b
<1> HIDE DEF page, at, gs
<1>6. st.dom \in DomT /\ st.host \in HostT BY DEF State
<1>7. D \subseteq st.dom[v] OBVIOUS
<1>8. P \subseteq Vms \X (DOMAIN Segs) \X Nat BY <1>4
<1>9. /\ t.dom \in DomT /\ t.dom[v] = D /\ (\A u \in Vms \ {v} : t.dom[u] = st.dom[u]) /\ t.host \in HostT
  <2> HIDE DEF D, P, t
  <2> QED BY <1>2, <1>6, <1>7, <1>8 DEF DomT, HostT
<1>10. t \in State
  <2> HIDE DEF D, P, S
  <2>1. t.maps \in MapsT BY <1>5 DEF FlagsPut
  <2> QED BY <1>1, <1>2, <1>9, <2>1 DEF State
<1> HIDE DEF t
<1>11. \A u \in Vms \ {v} : SameHost(st, t, u)
  <2>1. \A u \in Vms \ {v} : \A s \in DOMAIN Segs : \A p \in PagesOf(u, s) : p[1] = u BY DEF PagesOf
  <2>2. \A p \in P : p[1] = v BY <1>4
  <2> QED BY <1>2, <2>1, <2>2 DEF SameHost
<1>12. DomainStep(st, t, v) BY <1>2, <1>5, <1>9, <1>10, <1>11 DEF DomainStep, FlagsPut
<1>13. ASSUME VmCore(st, v) PROVE VmCore(t, v) /\ Flagged(t, v) = {}
  <2>1. SameDevs(st, t, v) BY <1>12, DomainFrame
  <2>2. Shaped(st, t, v) BY <1>5 DEF FlagsPut
  <2>3. MapsApart(t, v) /\ KindsApart(t, v) /\ SpaceExact(t, v) /\ RefsExact(t, v)
    BY <1>2, <1>13, <2>1, <2>2, ShapeSame DEF VmCore
  <2>4. WindowsApart(t, v) BY <1>13, <2>1, WindowsSame DEF VmCore
  <2>5. MapsFit(t, v)
    <3>1. ASSUME NEW i \in Slots, t.maps[v][i].len # 0
          PROVE  LET m == t.maps[v][i] IN
                 /\ m \in Mapping /\ GpaRange(m) \subseteq Gpas
                 /\ t.seg[v][m.seg] # None /\ m.off + m.len <= Segs[m.seg]
                 /\ m.iommu => t.seg[v][m.seg] = "sysmem"
      <4> DEFINE m == t.maps[v][i]
                 n == st.maps[v][i]
      <4>1. m.len = n.len /\ m.gpa = n.gpa /\ m.seg = n.seg /\ m.off = n.off BY <2>2, <3>1 DEF Shaped
      <4>2. /\ GpaRange(n) \subseteq Gpas /\ st.seg[v][n.seg] # None /\ n.off + n.len <= Segs[n.seg]
            /\ n \in Mapping
        BY <1>13, <3>1, <4>1 DEF VmCore, MapsFit
      <4>3. n.iommu => st.seg[v][n.seg] = "sysmem" BY <1>13, <3>1, <4>1 DEF VmCore, MapsFit
      <4>4. m \in Mapping BY <1>5, <4>2 DEF FlagsPut
      <4>5. m.iommu => st.seg[v][n.seg] = "sysmem" BY <1>5, <4>3 DEF FlagsPut
      <4> QED BY <1>2, <4>1, <4>2, <4>4, <4>5 DEF GpaRange
    <3> QED BY <3>1 DEF MapsFit
  <2>6. Flagged(st, v) = S BY <1>13 DEF VmCore, MapsFit, Flagged, SysmemMapping
  <2>7. Flagged(t, v) = {} BY <1>5, <2>2, <2>6 DEF Flagged, FlagsPut, Shaped
  <2>8. DomainOwn(t, v) BY <1>7, <1>9, <1>13 DEF VmCore, DomainOwn
  <2>9. DomainExact(t, v)
    <3>1. CASE v \in t.failed BY <3>1 DEF DomainExact
    <3>2. CASE v \notin t.failed
      <4>1. GivenTo(st, v) /\ \A s \in DOMAIN Segs : \A p \in PagesOf(v, s) : p \in st.host <=> ~ \E q \in st.dom[v] : q[2] = p
        BY <1>2, <1>13, <3>2 DEF VmCore, DomainExact
      <4>2. ASSUME NEW q \in st.dom[v] PROVE q[1] \in gs /\ q[2] = page(q[1])
        <5>1. PICK i \in S : q[1] \in Gpas /\ Covers(st.maps[v][i], q[1]) /\ q[2] = PageAt(v, st.maps[v][i], q[1])
          BY <2>6, <4>1 DEF GivenTo
        <5>2. st.maps[v][i] \in Mapping BY <1>3, CoversRange
        <5>3. st.maps[v][i].gpa \in Nat /\ st.maps[v][i].len \in Nat BY <5>2 DEF Mapping
        <5>4. q[1] \in Nat BY <5>1 DEF Params
        <5>5. q[1] \in GpaRange(st.maps[v][i]) BY <5>1, <5>3, <5>4 DEF GpaRange, Covers
        <5>6. q[1] \in gs BY <5>5 DEF gs
        <5>7. at(q[1]) \in S /\ Covers(st.maps[v][at(q[1])], q[1]) BY <1>4, <5>6
        <5>8. at(q[1]) = i BY <1>3, <1>13, <5>1, <5>7 DEF VmCore, MapsApart
        <5> QED BY <5>1, <5>6, <5>8 DEF page
      <4>3. t.dom[v] = {} BY <1>9, <4>2
      <4>4. GivenTo(t, v) BY <2>7, <4>3 DEF GivenTo
      <4>5. \A s \in DOMAIN Segs : \A p \in PagesOf(v, s) : p \in t.host BY <1>2, <4>1, <4>2
      <4> QED BY <4>3, <4>4, <4>5 DEF DomainExact
    <3> QED BY <3>1, <3>2
  <2> QED BY <2>3, <2>4, <2>5, <2>7, <2>8, <2>9 DEF VmCore
<1> QED BY <1>2, <1>12, <1>13 DEF t

-----------------------------------------------------------------------------
(* Assignment *)

\* Everything is right but that a VM may have given memory to no device yet.
Nearly(st, v) ==
    /\ st \in State /\ PendingOk(st)
    /\ \A u \in Vms : VmCore(st, u)
    /\ \A u \in Vms \ {v} : FlagsOwned(st, u)
    /\ \A d \in Devs : DevOk(st, d)

LEMMA NearlyAssigning ==
    ASSUME Params, NEW st \in State, NEW v \in Vms, NEW d \in Devs
    PROVE  LET t == [st EXCEPT !.assigning[v] = d] IN
           /\ t \in State /\ t.panic = st.panic /\ t.raced = st.raced
           /\ Nearly(st, v) /\ st.iommu[v] => Fine(t)
<1> DEFINE t == [st EXCEPT !.assigning[v] = d]
<1>1. st.assigning \in AssignT BY DEF State
<1>2. [st.assigning EXCEPT ![v] = d] \in AssignT BY <1>1 DEF AssignT
<1>3. t.assigning = [st.assigning EXCEPT ![v] = d] BY DEF State
<1>4. t \in State BY <1>2, <1>3 DEF State
<1>5. /\ t.seg = st.seg /\ t.refs = st.refs /\ t.maps = st.maps /\ t.space = st.space /\ t.host = st.host
      /\ t.iommu = st.iommu /\ t.dom = st.dom /\ t.ctx = st.ctx /\ t.ppt = st.ppt
      /\ t.panic = st.panic /\ t.raced = st.raced /\ t.failed = st.failed
  BY DEF State
<1>6. t.assigning[v] = d /\ \A u \in Vms \ {v} : t.assigning[u] = st.assigning[u] BY <1>1, <1>3 DEF AssignT
<1> HIDE DEF t
<1>7. ASSUME Nearly(st, v), st.iommu[v] PROVE Fine(t)
  <2>1. \A u \in Vms : SameVm(st, t, u) /\ SameDevs(st, t, u) /\ SameHost(st, t, u)
    BY <1>5 DEF SameVm, SameDevs, SameHost
  <2>2. \A u \in Vms : VmCore(t, u) BY <1>7, <2>1, CoreSame DEF Nearly
  <2>3. FlagsOwned(t, v) BY <1>6 DEF FlagsOwned, Params
  <2>4. ASSUME NEW u \in Vms \ {v} PROVE FlagsOwned(t, u)
    <3>1. AssignedDevices(t, u) = AssignedDevices(st, u) BY <1>5 DEF AssignedDevices
    <3> QED BY <1>5, <1>6, <1>7, <3>1, FlagsSame DEF Nearly
  <2>5. \A e \in Devs : DevOk(t, e) BY <1>5, <1>7, DevSame DEF Nearly
  <2>6. PendingOk(t) BY <1>5, <1>6, <1>7 DEF Nearly, PendingOk
  <2> QED BY <1>4, <2>2, <2>3, <2>4, <2>5, <2>6 DEF Fine, VmOk
<1> QED BY <1>4, <1>5, <1>7 DEF t

LEMMA NearlyFailed ==
    ASSUME NEW st \in State, NEW v \in Vms
    PROVE  LET t == [st EXCEPT !.failed = @ \cup {v}] IN
           /\ t \in State /\ t.panic = st.panic /\ t.raced = st.raced
           /\ Nearly(st, v) => Fine(t)
<1> DEFINE t == [st EXCEPT !.failed = @ \cup {v}]
<1>1. st.failed \in FailedT BY DEF State
<1>2. st.failed \cup {v} \in FailedT BY <1>1 DEF FailedT
<1>3. t.failed = st.failed \cup {v} BY DEF State
<1>4. t \in State BY <1>2, <1>3 DEF State
<1>5. /\ t.seg = st.seg /\ t.refs = st.refs /\ t.maps = st.maps /\ t.space = st.space /\ t.host = st.host
      /\ t.iommu = st.iommu /\ t.dom = st.dom /\ t.ctx = st.ctx /\ t.ppt = st.ppt
      /\ t.panic = st.panic /\ t.raced = st.raced /\ t.assigning = st.assigning
  BY DEF State
<1> HIDE DEF t
<1>6. ASSUME Nearly(st, v) PROVE Fine(t)
  <2>1. \A u \in Vms : SameVm(st, t, u) /\ SameDevs(st, t, u) /\ SameHost(st, t, u)
    BY <1>3, <1>5 DEF SameVm, SameDevs, SameHost
  <2>2. \A u \in Vms : VmCore(t, u) BY <1>6, <2>1, CoreSame DEF Nearly
  <2>3. FlagsOwned(t, v) BY <1>3 DEF FlagsOwned
  <2>4. ASSUME NEW u \in Vms \ {v} PROVE FlagsOwned(t, u)
    <3>1. AssignedDevices(t, u) = AssignedDevices(st, u) BY <1>5 DEF AssignedDevices
    <3> QED BY <1>3, <1>5, <1>6, <3>1, FlagsSame DEF Nearly
  <2>5. \A e \in Devs : DevOk(t, e) BY <1>5, <1>6, DevSame DEF Nearly
  <2>6. PendingOk(t) BY <1>5, <1>6 DEF Nearly, PendingOk
  <2> QED BY <1>4, <2>2, <2>3, <2>4, <2>5, <2>6 DEF Fine, VmOk
<1> QED BY <1>4, <1>5, <1>6 DEF t

\* The domain of a VM that has none is made and filled.
LEMMA DomainMade ==
    ASSUME Params, NEW st \in State, NEW v \in Vms
    PROVE  LET t == VmIommuMap([st EXCEPT !.iommu[v] = TRUE], v) IN
           t \in State /\ t.raced = st.raced /\ (Fine(st) /\ ~t.panic => Nearly(t, v)) /\ t.iommu[v]
<1> DEFINE a == [st EXCEPT !.iommu[v] = TRUE]
           t == VmIommuMap(a, v)
<1>1. st.iommu \in IommuT BY DEF State
<1>2. [st.iommu EXCEPT ![v] = TRUE] \in IommuT BY <1>1 DEF IommuT
<1>3. a.iommu = [st.iommu EXCEPT ![v] = TRUE] BY DEF State
<1>4. a \in State BY <1>2, <1>3 DEF State
<1>5. /\ a.seg = st.seg /\ a.refs = st.refs /\ a.maps = st.maps /\ a.space = st.space /\ a.host = st.host
      /\ a.failed = st.failed /\ a.dom = st.dom /\ a.ctx = st.ctx /\ a.ppt = st.ppt
      /\ a.panic = st.panic /\ a.raced = st.raced /\ a.assigning = st.assigning
  BY DEF State
<1>6. a.iommu[v] /\ \A u \in Vms : st.iommu[u] => a.iommu[u] BY <1>1, <1>3 DEF IommuT
<1> HIDE DEF a
<1>7. DomainStep(a, t, v) /\ ((\A u \in Vms : VmCore(a, u)) /\ ~t.panic => VmCore(t, v)) BY <1>4, IommuMapStep
<1> HIDE DEF t
<1>8. ASSUME Fine(st), ~t.panic PROVE Nearly(t, v)
  <2>1. \A u \in Vms : SameVm(st, a, u) /\ SameDevs(st, a, u) /\ SameHost(st, a, u)
    BY <1>5 DEF SameVm, SameDevs, SameHost
  <2>2. \A u \in Vms : VmOk(a, u) BY <1>5, <1>8, <2>1, VmSame DEF Fine
  <2>3. \A e \in Devs : DevOk(a, e)
    <3> TAKE e \in Devs
    <3>1. st.ppt \in PptT BY DEF State
    <3>2. st.ppt[e].vm \in Vms \cup {None} BY <3>1 DEF PptT, Device
    <3> QED BY <1>5, <1>6, <1>8, <3>2, DevSame DEF Fine
  <2>4. VmCore(t, v) BY <1>7, <1>8, <2>2 DEF VmOk
  <2>5. \A u \in Vms \ {v} : VmCore(t, u) /\ FlagsOwned(t, u) BY <1>7, <2>2, DomainFrame DEF VmOk
  <2>6. \A e \in Devs : DevOk(t, e) BY <1>7, <2>3, DomainFrame
  <2>7. PendingOk(t) BY <1>5, <1>6, <1>7, <1>8 DEF Fine, PendingOk, DomainStep
  <2> QED BY <1>7, <2>4, <2>5, <2>6, <2>7 DEF Nearly, DomainStep
<1> QED BY <1>5, <1>6, <1>7, <1>8 DEF DomainStep, t, a

LEMMA FineIsNearly ==
    ASSUME NEW st, Fine(st), NEW v \in Vms
    PROVE  Nearly(st, v)
BY DEF Fine, Nearly, VmOk

LEMMA AssignBeginKeeps ==
    ASSUME Params, Good(sc), NEW v \in Vms, NEW d \in Devs, NEW created \in BOOLEAN, VmAssignBegin(v, d, created)
    PROVE  Good(sc')
<1> DEFINE first == AssignedDevices(sc, v) = {}
           made == VmIommuMap([sc EXCEPT !.iommu[v] = TRUE], v)
           mapped == IF ~first THEN sc ELSE IF sc.iommu[v] THEN [sc EXCEPT !.panic = TRUE] ELSE made
           refused == ~sc.ppt[d].attached \/ sc.ppt[d].vm \notin {None, v}
<1>1. sc \in State /\ ~sc.panic BY DEF Good, VmAssignBegin, Ready
<1>2. /\ ~(first /\ ~sc.iommu[v] /\ ~created) /\ ~mapped.panic /\ refused =>
             sc' = Counted([mapped EXCEPT !.failed = IF first THEN @ \cup {v} ELSE @])
      /\ ~(first /\ ~sc.iommu[v] /\ ~created) /\ ~mapped.panic /\ ~refused =>
             sc' = Counted([mapped EXCEPT !.assigning[v] = d])
      /\ ~(first /\ ~sc.iommu[v] /\ ~created) /\ mapped.panic => sc' = mapped
      /\ first /\ ~sc.iommu[v] /\ ~created => sc' = Counted(sc)
  BY DEF VmAssignBegin
<1>3. /\ mapped \in State /\ mapped.raced = sc.raced
      /\ Fine(sc) /\ ~mapped.panic => Nearly(mapped, v) /\ mapped.iommu[v] /\ (~first => mapped = sc)
  <2>1. CASE ~first
    <3>1. mapped = sc BY <2>1
    <3>2. ASSUME Fine(sc) PROVE sc.iommu[v]
      <4>1. PICK e \in Devs : sc.ppt[e].vm = v BY <2>1 DEF AssignedDevices
      <4>2. DevOk(sc, e) BY <3>2 DEF Fine
      <4> QED BY <4>1, <4>2 DEF DevOk, Params
    <3> QED BY <1>1, <3>1, <3>2, FineIsNearly
  <2>2. CASE first /\ sc.iommu[v]
    <3>1. mapped = [sc EXCEPT !.panic = TRUE] BY <2>2
    <3>2. mapped \in State /\ mapped.raced = sc.raced /\ mapped.panic = TRUE BY <1>1, <3>1 DEF State
    <3> QED BY <3>2
  <2>3. CASE first /\ ~sc.iommu[v]
    <3>1. mapped = made BY <2>3
    <3>2. made \in State /\ made.raced = sc.raced /\ (Fine(sc) /\ ~made.panic => Nearly(made, v)) /\ made.iommu[v]
      BY <1>1, DomainMade
    <3> QED BY <2>3, <3>1, <3>2
  <2> QED BY <2>1, <2>2, <2>3
<1> HIDE DEF mapped
<1>4. CASE first /\ ~sc.iommu[v] /\ ~created BY <1>2, <1>4, CountedGood
<1>5. CASE ~(first /\ ~sc.iommu[v] /\ ~created) /\ mapped.panic BY <1>2, <1>3, <1>5 DEF Good
<1>6. CASE ~(first /\ ~sc.iommu[v] /\ ~created) /\ ~mapped.panic /\ refused
  <2> DEFINE t == [mapped EXCEPT !.failed = IF first THEN @ \cup {v} ELSE @]
  <2>1. sc' = Counted(t) BY <1>2, <1>6
  <2>2. CASE first
    <3>1. t = [mapped EXCEPT !.failed = @ \cup {v}] BY <2>2
    <3>2. t \in State /\ t.panic = mapped.panic /\ t.raced = mapped.raced /\ (Nearly(mapped, v) => Fine(t))
      BY <1>3, <3>1, NearlyFailed
    <3>3. Good(t) BY <1>1, <1>3, <1>6, <3>2 DEF Good
    <3> QED BY <2>1, <3>3, CountedGood
  <2>3. CASE ~first
    <3>1. mapped = sc BY <2>3 DEF mapped
    <3>2. t = mapped BY <1>3, <2>3 DEF State
    <3> QED BY <2>1, <3>1, <3>2, CountedGood
  <2> QED BY <2>2, <2>3
<1>7. CASE ~(first /\ ~sc.iommu[v] /\ ~created) /\ ~mapped.panic /\ ~refused
  <2> DEFINE t == [mapped EXCEPT !.assigning[v] = d]
  <2>1. sc' = Counted(t) BY <1>2, <1>7
  <2>2. t \in State /\ t.panic = mapped.panic /\ t.raced = mapped.raced /\ (Nearly(mapped, v) /\ mapped.iommu[v] => Fine(t))
    BY <1>3, NearlyAssigning
  <2>3. Good(t) BY <1>1, <1>3, <1>7, <2>2 DEF Good
  <2> QED BY <2>1, <2>3, CountedGood
<1> QED BY <1>4, <1>5, <1>6, <1>7

LEMMA AssignEndKeeps ==
    ASSUME Params, Good(sc), NEW v \in Vms, VmAssignEnd(v)
    PROVE  Good(sc')
<1> DEFINE d == sc.assigning[v]
           p == [sc.ppt[d] EXCEPT !.vm = v]
           race == sc.raced \/ sc.ppt[d].vm \notin {None, v} \/ ~sc.ppt[d].attached
           a == [sc EXCEPT !.assigning[v] = None, !.ppt[d].vm = v, !.raced = race]
           t == AddDevice(a, v, d)
<1>1. sc' = t /\ d # None /\ ~sc.panic BY DEF VmAssignEnd
<1>2. sc \in State BY DEF Good
<1>3. sc.assigning \in AssignT /\ sc.ppt \in PptT /\ sc.ctx \in CtxT BY <1>2 DEF State
<1>4. d \in Devs BY <1>1, <1>3 DEF AssignT
<1> HIDE DEF d
<1>5. sc.ppt[d] \in Device /\ MsiOk(sc.ppt[d]) BY <1>3, <1>4 DEF PptT
<1>6. /\ p \in Device /\ p.vm = v /\ p.attached = sc.ppt[d].attached /\ p.mmio = sc.ppt[d].mmio
      /\ p.msi = sc.ppt[d].msi /\ p.startrid = sc.ppt[d].startrid /\ p.msix = sc.ppt[d].msix
      /\ p.irqs = sc.ppt[d].irqs /\ p.alloc = sc.ppt[d].alloc
  BY <1>5 DEF Device
<1>7. MsiOk(p) BY <1>5, <1>6 DEF MsiOk
<1>8. race \in BOOLEAN OBVIOUS
<1>9. /\ a.assigning = [sc.assigning EXCEPT ![v] = None] /\ a.ppt = [sc.ppt EXCEPT ![d] = p] /\ a.raced = race
      /\ a.seg = sc.seg /\ a.refs = sc.refs /\ a.maps = sc.maps /\ a.space = sc.space /\ a.host = sc.host
      /\ a.iommu = sc.iommu /\ a.dom = sc.dom /\ a.ctx = sc.ctx /\ a.panic = sc.panic /\ a.failed = sc.failed
  <2> HIDE DEF race
  <2> QED BY <1>2 DEF State
<1> HIDE DEF p
<1>10. a.ppt \in PptT /\ a.ppt[d] = p /\ \A e \in Devs \ {d} : a.ppt[e] = sc.ppt[e]
  BY <1>3, <1>4, <1>6, <1>7, <1>9 DEF PptT
<1>11. a.assigning \in AssignT /\ a.assigning[v] = None /\ \A u \in Vms \ {v} : a.assigning[u] = sc.assigning[u]
  BY <1>3, <1>9 DEF AssignT
<1>12. a \in State
  <2> HIDE DEF race
  <2> QED BY <1>2, <1>8, <1>9, <1>10, <1>11 DEF State
<1> HIDE DEF a
<1>13. CASE sc.ctx[d] # None
  <2>1. t = [a EXCEPT !.panic = TRUE] BY <1>9, <1>13 DEF AddDevice
  <2>2. t \in State /\ t.panic = TRUE BY <1>12, <2>1 DEF State
  <2> QED BY <1>1, <2>2 DEF Good
<1>14. CASE sc.ctx[d] = None
  <2>1. t = [a EXCEPT !.ctx[d] = v] BY <1>9, <1>14 DEF AddDevice
  <2>2. t.ctx = [sc.ctx EXCEPT ![d] = v] BY <1>9, <1>12, <2>1 DEF State
  <2>3. t.ctx \in CtxT /\ t.ctx[d] = v /\ \A e \in Devs \ {d} : t.ctx[e] = sc.ctx[e] BY <1>3, <1>4, <2>2 DEF CtxT
  <2>4. /\ t.assigning = a.assigning /\ t.ppt = a.ppt /\ t.raced = race
        /\ t.seg = sc.seg /\ t.refs = sc.refs /\ t.maps = sc.maps /\ t.space = sc.space /\ t.host = sc.host
        /\ t.iommu = sc.iommu /\ t.dom = sc.dom /\ t.panic = sc.panic /\ t.failed = sc.failed
    <3> HIDE DEF race
    <3> QED BY <1>9, <1>12, <2>1 DEF State
  <2>5. t \in State BY <1>12, <2>1, <2>2, <2>3 DEF State
  <2> HIDE DEF t
  <2>6. ASSUME ~t.raced PROVE Fine(t)
    <3>1. ~sc.raced /\ sc.ppt[d].attached BY <2>4, <2>6
    <3>2. Fine(sc) BY <1>1, <3>1 DEF Good
    <3>3. DevOk(sc, d) BY <1>4, <3>2 DEF Fine
    <3>4. sc.ppt[d].vm = None /\ sc.ppt[d].mmio = {} BY <1>14, <3>1, <3>3 DEF DevOk
    <3>5. v # None BY DEF Params
    <3>6. \A u \in Vms \ {v} : SameDevs(sc, t, u) BY <1>6, <1>10, <2>4, <3>4 DEF SameDevs, Params
    <3>7. \A u \in Vms : SameHost(sc, t, u) /\ SameVm(sc, t, u) BY <2>4 DEF SameHost, SameVm
    <3>8. \A u \in Vms \ {v} : VmOk(t, u) BY <1>11, <2>4, <3>2, <3>6, <3>7, VmSame DEF Fine
    <3>9. VmOk(sc, v) BY <3>2 DEF Fine
    <3>10. \A e \in Devs : t.ppt[e].mmio = sc.ppt[e].mmio /\ (t.ppt[e].mmio # {} => t.ppt[e].vm = sc.ppt[e].vm)
      BY <1>4, <1>6, <1>10, <2>4, <3>4
    <3>11. WindowsApart(t, v) BY <3>9, <3>10 DEF VmOk, VmCore, WindowsApart
    <3>12. KindsApart(t, v) BY <2>4, <3>9, <3>10 DEF VmOk, VmCore, KindsApart
    <3>13. SpaceExact(t, v)
      <4>1. \A e \in Devs : t.ppt[e].mmio # {} => (t.ppt[e].vm = v <=> sc.ppt[e].vm = v) BY <3>10
      <4>2. \A g : PptIsMmio(t, v, g) <=> PptIsMmio(sc, v, g) BY <3>10, <4>1 DEF PptIsMmio
      <4>3. \A g : VmMemAllocated(t, v, g) <=> VmMemAllocated(sc, v, g) BY <2>4, <4>2 DEF VmMemAllocated
      <4> QED BY <2>4, <3>9, <4>3 DEF VmOk, VmCore, SpaceExact
    <3>14. MapsFit(t, v) /\ MapsApart(t, v) /\ RefsExact(t, v) BY <2>4, <3>9, MapsSame DEF VmOk, VmCore
    <3>15. DomainExact(t, v) /\ DomainOwn(t, v) BY <2>4, <3>7, <3>9, DomainSame DEF VmOk, VmCore
    <3>16. d \in AssignedDevices(t, v) BY <1>4, <1>6, <1>10, <2>4, <3>1 DEF AssignedDevices
    <3>17. FlagsOwned(t, v) BY <3>16 DEF FlagsOwned
    <3>18. VmOk(t, v) BY <3>11, <3>12, <3>13, <3>14, <3>15, <3>17 DEF VmOk, VmCore
    <3>19. \A e \in Devs \ {d} : DevOk(t, e) BY <1>10, <2>3, <2>4, <3>2, DevSame DEF Fine
    <3>20. sc.iommu[v] BY <1>1, <3>2 DEF Fine, PendingOk, d
    <3>21. DevOk(t, d) BY <1>6, <1>10, <2>3, <2>4, <3>1, <3>4, <3>5, <3>20 DEF DevOk
    <3>22. PendingOk(t) BY <1>11, <2>4, <3>2 DEF Fine, PendingOk
    <3> QED BY <2>5, <3>8, <3>18, <3>19, <3>21, <3>22 DEF Fine
  <2> QED BY <1>1, <2>5, <2>6 DEF Good
<1> QED BY <1>13, <1>14

-----------------------------------------------------------------------------
(* The driver comes and goes *)

LEMMA OwnerlessKeeps ==
    ASSUME NEW st, Fine(st), NEW t \in State, NEW d \in Devs, st.ppt[d].vm = None, t.ppt[d].vm = None, None \notin Vms,
           \A e \in Devs \ {d} : t.ppt[e] = st.ppt[e] /\ t.ctx[e] = st.ctx[e], DevOk(t, d),
           t.seg = st.seg, t.refs = st.refs, t.maps = st.maps, t.space = st.space, t.host = st.host,
           t.iommu = st.iommu, t.dom = st.dom, t.assigning = st.assigning, t.failed = st.failed
    PROVE  Fine(t)
<1>1. \A u \in Vms : SameVm(st, t, u) /\ SameHost(st, t, u) BY DEF SameVm, SameHost
<1>2. \A u \in Vms : SameDevs(st, t, u) BY DEF SameDevs
<1>3. \A u \in Vms : VmOk(t, u) BY <1>1, <1>2, VmSame DEF Fine
<1>4. \A e \in Devs : DevOk(t, e) BY DevSame DEF Fine
<1>5. PendingOk(t) BY DEF Fine, PendingOk
<1> QED BY <1>3, <1>4, <1>5 DEF Fine

LEMMA AttachKeeps ==
    ASSUME Params, Good(sc), NEW d \in Devs, PptAttach(d)
    PROVE  Good(sc')
<1> DEFINE t == RemoveDevice([sc EXCEPT !.ppt[d] = NewDev], d)
<1>1. sc' = Counted(t) /\ ~sc.ppt[d].attached BY DEF PptAttach
<1>2. sc \in State BY DEF Good
<1>3. sc.ppt \in PptT /\ sc.ctx \in CtxT BY <1>2 DEF State
<1>4. t = [sc EXCEPT !.ppt[d] = NewDev, !.ctx[d] = None] BY <1>2 DEF RemoveDevice, State
<1>5. /\ t.ppt = [sc.ppt EXCEPT ![d] = NewDev] /\ t.ctx = [sc.ctx EXCEPT ![d] = None]
      /\ t.seg = sc.seg /\ t.refs = sc.refs /\ t.maps = sc.maps /\ t.space = sc.space /\ t.host = sc.host
      /\ t.iommu = sc.iommu /\ t.dom = sc.dom /\ t.panic = sc.panic /\ t.raced = sc.raced
      /\ t.assigning = sc.assigning /\ t.failed = sc.failed
  BY <1>2, <1>4 DEF State
<1>6. NewDev \in Device BY DEF NewDev, Device, None
<1>7. MsiOk(NewDev) BY DEF NewDev, MsiOk, None
<1>8. t.ppt \in PptT /\ t.ppt[d] = NewDev /\ \A e \in Devs \ {d} : t.ppt[e] = sc.ppt[e] BY <1>3, <1>5, <1>6, <1>7 DEF PptT
<1>9. t.ctx \in CtxT /\ t.ctx[d] = None /\ \A e \in Devs \ {d} : t.ctx[e] = sc.ctx[e] BY <1>3, <1>5 DEF CtxT
<1>10. t \in State BY <1>2, <1>4, <1>5, <1>8, <1>9 DEF State
<1> HIDE DEF t
<1>11. ASSUME Fine(sc) PROVE Fine(t)
  <2>1. sc.ppt[d].vm = None BY <1>1, <1>11 DEF Fine, DevOk
  <2>2. DevOk(t, d) /\ t.ppt[d].vm = None BY <1>8, <1>9 DEF DevOk, NewDev
  <2> QED BY <1>5, <1>8, <1>9, <1>10, <1>11, <2>1, <2>2, OwnerlessKeeps DEF Params
<1>12. Good(t) BY <1>5, <1>10, <1>11 DEF Good
<1> QED BY <1>1, <1>12, CountedGood

LEMMA DetachKeeps ==
    ASSUME Params, Good(sc), NEW d \in Devs, PptDetach(d)
    PROVE  Good(sc')
<1> DEFINE p == [sc.ppt[d] EXCEPT !.attached = FALSE]
           a == [sc EXCEPT !.ppt[d].attached = FALSE]
           t == AddDevice(a, Host, d)
<1>1. sc' = Counted(t) /\ sc.ppt[d].attached /\ sc.ppt[d].vm = None /\ ~sc.panic BY DEF PptDetach
<1>2. sc \in State BY DEF Good
<1>3. sc.ppt \in PptT /\ sc.ctx \in CtxT BY <1>2 DEF State
<1>4. sc.ppt[d] \in Device /\ MsiOk(sc.ppt[d]) BY <1>3 DEF PptT
<1>5. /\ p \in Device /\ p.vm = None /\ ~p.attached /\ p.mmio = sc.ppt[d].mmio
      /\ p.msi = sc.ppt[d].msi /\ p.startrid = sc.ppt[d].startrid /\ p.msix = sc.ppt[d].msix
      /\ p.irqs = sc.ppt[d].irqs /\ p.alloc = sc.ppt[d].alloc
  BY <1>1, <1>4 DEF Device
<1>6. MsiOk(p) BY <1>4, <1>5 DEF MsiOk
<1>7. /\ a.ppt = [sc.ppt EXCEPT ![d] = p]
      /\ a.seg = sc.seg /\ a.refs = sc.refs /\ a.maps = sc.maps /\ a.space = sc.space /\ a.host = sc.host
      /\ a.iommu = sc.iommu /\ a.dom = sc.dom /\ a.ctx = sc.ctx /\ a.panic = sc.panic /\ a.raced = sc.raced
      /\ a.assigning = sc.assigning /\ a.failed = sc.failed
  BY <1>2 DEF State
<1> HIDE DEF p
<1>8. a.ppt \in PptT /\ a.ppt[d] = p /\ \A e \in Devs \ {d} : a.ppt[e] = sc.ppt[e]
  <2> HIDE DEF a, t
  <2> QED BY <1>3, <1>5, <1>6, <1>7 DEF PptT
<1>9. a \in State BY <1>2, <1>7, <1>8 DEF State
<1> HIDE DEF a
<1>10. CASE sc.ctx[d] # None
  <2>1. t = [a EXCEPT !.panic = TRUE] BY <1>7, <1>10 DEF AddDevice
  <2>2. t \in State /\ t.panic = TRUE BY <1>9, <2>1 DEF State
  <2>3. Good(t) BY <2>2 DEF Good
  <2> QED BY <1>1, <2>3, CountedGood
<1>11. CASE sc.ctx[d] = None
  <2>1. t = [a EXCEPT !.ctx[d] = Host] BY <1>7, <1>11 DEF AddDevice
  <2>2. /\ t.ctx = [sc.ctx EXCEPT ![d] = Host] /\ t.ppt = a.ppt
        /\ t.seg = sc.seg /\ t.refs = sc.refs /\ t.maps = sc.maps /\ t.space = sc.space /\ t.host = sc.host
        /\ t.iommu = sc.iommu /\ t.dom = sc.dom /\ t.panic = sc.panic /\ t.raced = sc.raced
        /\ t.assigning = sc.assigning /\ t.failed = sc.failed
    BY <1>7, <1>9, <2>1 DEF State
  <2>3. t.ctx \in CtxT /\ t.ctx[d] = Host /\ \A e \in Devs \ {d} : t.ctx[e] = sc.ctx[e] BY <1>3, <2>2 DEF CtxT
  <2>4. t \in State BY <1>9, <2>1, <2>2, <2>3 DEF State
  <2> HIDE DEF t
  <2>5. ASSUME Fine(sc) PROVE Fine(t)
    <3>1. DevOk(sc, d) BY <2>5 DEF Fine
    <3>2. DevOk(t, d) BY <1>1, <1>5, <1>8, <2>2, <2>3, <3>1 DEF DevOk
    <3>3. t.ppt[d].vm = None BY <1>5, <1>8, <2>2
    <3>4. \A e \in Devs \ {d} : t.ppt[e] = sc.ppt[e] /\ t.ctx[e] = sc.ctx[e] BY <1>8, <2>2, <2>3
    <3>5. None \notin Vms BY DEF Params
    <3> QED BY <1>1, <2>2, <2>4, <2>5, <3>2, <3>3, <3>4, <3>5, OwnerlessKeeps
  <2>6. Good(t) BY <2>2, <2>4, <2>5 DEF Good
  <2> QED BY <1>1, <2>6, CountedGood DEF t
<1> QED BY <1>10, <1>11

-----------------------------------------------------------------------------
(* A device is taken from its VM *)

\* What else stays as it is.
Apart(st, t) ==
    t.panic = st.panic /\ t.raced = st.raced /\ t.assigning = st.assigning /\ t.failed = st.failed

LEMMA UnassignDevice ==
    ASSUME Params, NEW st \in State, NEW v \in Vms, NEW d \in Devs
    PROVE  LET t == PptUnassignDevice(st, v, d) IN
           /\ t \in State /\ Apart(st, t)
           /\ AssignedDevices(t, v) = AssignedDevices(st, v) \ {d}
           /\ Fine(st) /\ st.ppt[d].vm = v => Nearly(t, v)
<1> DEFINE a == st.ppt[d]
           gs == UNION { GpaRange(w) : w \in a.mmio }
           sp == [g \in Gpas |-> IF g \in gs THEN None ELSE st.space[v][g]]
           b == [a EXCEPT !.mmio = {}]
           q == TeardownMsix(TeardownMsi(b))
           p == [q EXCEPT !.vm = None]
           t == PptUnassignDevice(st, v, d)
<1>1. st.ppt \in PptT /\ st.ctx \in CtxT /\ st.space \in SpaceT BY DEF State
<1>2. a \in Device /\ MsiOk(a) BY <1>1 DEF PptT
<1>3. /\ b \in Device /\ b.mmio = {} /\ b.vm = a.vm /\ b.attached = a.attached /\ b.msi = a.msi
      /\ b.startrid = a.startrid /\ b.msix = a.msix /\ b.irqs = a.irqs /\ b.alloc = a.alloc
  <2> HIDE DEF a
  <2> QED BY <1>2 DEF Device
<1>4. MsiOk(b) BY <1>2, <1>3 DEF MsiOk
<1>5. PptUnmapMmio(st, v, d) = [st EXCEPT !.space[v] = sp, !.ppt[d] = b]
  <2>1. PptUnmapMmio(st, v, d) = [st EXCEPT !.space[v] = sp, !.ppt[d].mmio = {}] BY DEF PptUnmapMmio
  <2> HIDE DEF sp
  <2> QED BY <1>1, <2>1 DEF State, PptT
<1> DEFINE s1 == [st EXCEPT !.space[v] = sp, !.ppt[d] = b]
<1>6. s1.ppt[d] = b
  <2> HIDE DEF sp, b
  <2> QED BY <1>1 DEF State, PptT
<1>7. t = [RemoveDevice(s1, d) EXCEPT !.ppt[d] = p]
  <2>1. t = [RemoveDevice(s1, d) EXCEPT !.ppt[d] = [TeardownMsix(TeardownMsi(s1.ppt[d])) EXCEPT !.vm = None]]
    BY <1>5 DEF PptUnassignDevice
  <2> HIDE DEF s1, b, t
  <2> QED BY <1>6, <2>1
<1>8. q \in Device /\ MsiOk(q) /\ q.irqs = {} /\ q.alloc = None /\ q.attached = a.attached /\ q.mmio = {}
  <2> HIDE DEF b
  <2> QED BY <1>3, <1>4, TeardownBoth
<1> HIDE DEF q
<1>9. /\ p \in Device /\ p.irqs = {} /\ p.alloc = None /\ p.attached = a.attached /\ p.mmio = {} /\ p.vm = None
      /\ p.msi = q.msi /\ p.startrid = q.startrid /\ p.msix = q.msix
  BY <1>8 DEF Device
<1>10. MsiOk(p) BY <1>8, <1>9 DEF MsiOk
<1> HIDE DEF p, b
<1>11. /\ t.ppt = [st.ppt EXCEPT ![d] = p] /\ t.ctx = [st.ctx EXCEPT ![d] = None] /\ t.space = [st.space EXCEPT ![v] = sp]
       /\ t.seg = st.seg /\ t.refs = st.refs /\ t.maps = st.maps /\ t.host = st.host
       /\ t.iommu = st.iommu /\ t.dom = st.dom /\ t.panic = st.panic /\ t.raced = st.raced
       /\ t.assigning = st.assigning /\ t.failed = st.failed
  <2> HIDE DEF sp, t
  <2> QED BY <1>1, <1>7 DEF State, RemoveDevice, PptT
<1>12. t.ppt \in PptT /\ t.ppt[d] = p /\ \A e \in Devs \ {d} : t.ppt[e] = st.ppt[e]
  <2> HIDE DEF t
  <2> QED BY <1>1, <1>9, <1>10, <1>11 DEF PptT
<1>13. t.ctx \in CtxT /\ t.ctx[d] = None /\ \A e \in Devs \ {d} : t.ctx[e] = st.ctx[e]
  <2> HIDE DEF t
  <2> QED BY <1>1, <1>11 DEF CtxT
<1>14. sp \in [Gpas -> {None, "mem", "mmio"}] BY <1>1 DEF SpaceT
<1>15. t.space \in SpaceT /\ t.space[v] = sp /\ \A u \in Vms \ {v} : t.space[u] = st.space[u]
  <2> HIDE DEF t, sp
  <2> QED BY <1>1, <1>11, <1>14 DEF SpaceT
<1>16. t \in State
  <2> HIDE DEF t, sp
  <2> QED BY <1>7, <1>11, <1>12, <1>13, <1>15 DEF State, RemoveDevice
<1> HIDE DEF t
<1>17. v # None BY DEF Params
<1>18. AssignedDevices(t, v) = AssignedDevices(st, v) \ {d} BY <1>9, <1>12, <1>17 DEF AssignedDevices
<1>19. ASSUME Fine(st), st.ppt[d].vm = v PROVE Nearly(t, v)
  <2>1. VmOk(st, v) /\ DevOk(st, d) BY <1>19 DEF Fine
  <2>2. \A u \in Vms \ {v} : SameDevs(st, t, u) BY <1>9, <1>12, <1>19 DEF SameDevs, Params
  <2>3. \A u \in Vms : SameHost(st, t, u) BY <1>11 DEF SameHost
  <2>4. \A u \in Vms \ {v} : SameVm(st, t, u) BY <1>11, <1>15 DEF SameVm
  <2>5. \A u \in Vms \ {v} : VmOk(t, u) BY <1>11, <1>19, <2>2, <2>3, <2>4, VmSame DEF Fine
  <2>6. \A e \in Devs : (t.ppt[e].vm = v => e # d /\ st.ppt[e].vm = v) /\ t.ppt[e].mmio \subseteq st.ppt[e].mmio
    BY <1>9, <1>12, <1>17
  <2>7. WindowsApart(t, v) BY <2>1, <2>6 DEF VmOk, VmCore, WindowsApart
  <2>8. KindsApart(t, v) BY <1>11, <2>1, <2>6 DEF VmOk, VmCore, KindsApart
  <2>9. MapsFit(t, v) /\ MapsApart(t, v) /\ RefsExact(t, v) BY <1>11, <2>1, MapsSame DEF VmOk, VmCore
  <2>10. DomainExact(t, v) /\ DomainOwn(t, v) BY <1>11, <2>1, <2>3, DomainSame DEF VmOk, VmCore
  <2>11. \A g \in Gpas : g \in gs <=> \E w \in a.mmio : Covers(w, g)
    <3>1. \A w \in a.mmio : w.gpa \in Nat /\ w.len \in Nat BY <1>2 DEF Device, Window
    <3>2. Gpas \subseteq Nat BY DEF Params
    <3>3. ASSUME NEW g \in Gpas, NEW w \in a.mmio PROVE g \in GpaRange(w) <=> Covers(w, g)
      <4>1. g \in Nat /\ w.gpa \in Nat /\ w.len \in Nat BY <3>1, <3>2
      <4> HIDE DEF a
      <4> QED BY <4>1 DEF GpaRange, Covers
    <3> QED BY <3>3
  <2>12. SpaceExact(t, v)
    <3> SUFFICES ASSUME NEW g \in Gpas PROVE VmMemAllocated(t, v, g) <=> t.space[v][g] # None
      BY DEF SpaceExact
    <3>1. CASE g \in gs
      <4>1. PICK w \in a.mmio : Covers(w, g) BY <2>11, <3>1
      <4>2. \A i \in Slots : ~Covers(st.maps[v][i], g) BY <1>19, <2>1, <4>1 DEF VmOk, VmCore, KindsApart
      <4>3. \A e \in Devs \ {d} : \A x \in st.ppt[e].mmio : ~(st.ppt[e].vm = v /\ Covers(x, g))
        BY <1>19, <2>1, <4>1 DEF VmOk, VmCore, WindowsApart
      <4>4. ~PptIsMmio(t, v, g) BY <2>6, <4>3 DEF PptIsMmio
      <4>5. ~VmMemAllocated(t, v, g) BY <1>11, <4>2, <4>4 DEF VmMemAllocated
      <4> QED BY <1>15, <3>1, <4>5
    <3>2. CASE g \notin gs
      <4>1. \A w \in a.mmio : ~Covers(w, g) BY <2>11, <3>2
      <4>2. PptIsMmio(t, v, g) => PptIsMmio(st, v, g) BY <2>6 DEF PptIsMmio
      <4>3. PptIsMmio(st, v, g) => PptIsMmio(t, v, g) BY <1>12, <4>1 DEF PptIsMmio
      <4>4. VmMemAllocated(t, v, g) <=> VmMemAllocated(st, v, g) BY <1>11, <4>2, <4>3 DEF VmMemAllocated
      <4>5. t.space[v][g] = st.space[v][g] BY <1>15, <3>2
      <4> QED BY <2>1, <4>4, <4>5 DEF VmOk, VmCore, SpaceExact
    <3> QED BY <3>1, <3>2
  <2>13. VmCore(t, v) BY <2>7, <2>8, <2>9, <2>10, <2>12 DEF VmCore
  <2>14. \A e \in Devs \ {d} : DevOk(t, e) BY <1>11, <1>12, <1>13, <1>19, DevSame DEF Fine
  <2>15. a.attached BY <1>17, <1>19, <2>1 DEF DevOk
  <2>16. DevOk(t, d) BY <1>9, <1>12, <1>13, <2>15 DEF DevOk
  <2>17. PendingOk(t) BY <1>11, <1>19 DEF Fine, PendingOk
  <2> QED BY <1>16, <2>5, <2>13, <2>14, <2>16, <2>17 DEF Nearly, VmOk
<1> QED BY <1>11, <1>16, <1>18, <1>19 DEF Apart, t

\* vm_unassign_pptdev(): the memory goes back with the last device.
LEMMA UnassignStep ==
    ASSUME Params, NEW st \in State, NEW v \in Vms, NEW d \in Devs
    PROVE  LET t == VmUnassignPptdev(st, v, d) IN
           /\ t \in State /\ Apart(st, t)
           /\ AssignedDevices(t, v) = AssignedDevices(st, v) \ {d}
           /\ Fine(st) /\ st.ppt[d].vm = v => Fine(t)
<1> DEFINE a == PptUnassignDevice(st, v, d)
           t == VmUnassignPptdev(st, v, d)
<1>1. /\ a \in State /\ Apart(st, a) /\ AssignedDevices(a, v) = AssignedDevices(st, v) \ {d}
      /\ Fine(st) /\ st.ppt[d].vm = v => Nearly(a, v)
  BY UnassignDevice
<1>2. t = IF AssignedDevices(a, v) = {} THEN VmIommuUnmap(a, v) ELSE a BY DEF VmUnassignPptdev
<1> HIDE DEF a, t
<1>3. CASE AssignedDevices(a, v) # {}
  <2>1. t = a BY <1>2, <1>3
  <2>2. ASSUME Nearly(a, v) PROVE Fine(a)
    <3>1. FlagsOwned(a, v) BY <1>3 DEF FlagsOwned
    <3> QED BY <2>2, <3>1 DEF Nearly, Fine, VmOk
  <2> QED BY <1>1, <2>1, <2>2 DEF t
<1>4. CASE AssignedDevices(a, v) = {}
  <2> DEFINE b == VmIommuUnmap(a, v)
  <2>1. t = b BY <1>2, <1>4
  <2>2. DomainStep(a, b, v) /\ b.panic = a.panic /\ (VmCore(a, v) => VmCore(b, v) /\ Flagged(b, v) = {})
    BY <1>1, IommuUnmapStep
  <2> HIDE DEF b
  <2>3. /\ \A u \in Vms \ {v} : (VmCore(a, u) => VmCore(b, u)) /\ (FlagsOwned(a, u) => FlagsOwned(b, u))
        /\ \A e \in Devs : DevOk(a, e) => DevOk(b, e)
        /\ AssignedDevices(b, v) = AssignedDevices(a, v)
    BY <2>2, DomainFrame
  <2>4. b \in State /\ Apart(a, b) BY <2>2 DEF DomainStep, Apart
  <2>5. Apart(st, b) BY <1>1, <2>4 DEF Apart
  <2>6. ASSUME Nearly(a, v) PROVE Fine(b)
    <3>1. \A u \in Vms : VmCore(b, u) BY <2>2, <2>3, <2>6 DEF Nearly
    <3>2. FlagsOwned(b, v) BY <2>2, <2>6 DEF FlagsOwned, Nearly
    <3>3. \A u \in Vms \ {v} : FlagsOwned(b, u) BY <2>3, <2>6 DEF Nearly
    <3>4. \A e \in Devs : DevOk(b, e) BY <2>3, <2>6 DEF Nearly
    <3>5. PendingOk(b) BY <2>2, <2>6 DEF Nearly, PendingOk, DomainStep
    <3> QED BY <2>4, <3>1, <3>2, <3>3, <3>4, <3>5 DEF Fine, VmOk
  <2> QED BY <1>1, <2>1, <2>3, <2>4, <2>5, <2>6 DEF t
<1> QED BY <1>3, <1>4

LEMMA UnassignKeeps ==
    ASSUME Params, Good(sc), NEW v \in Vms, NEW d \in Devs, Unassign(v, d)
    PROVE  Good(sc')
<1> DEFINE t == VmUnassignPptdev(sc, v, d)
<1>1. sc' = Counted(t) /\ sc.ppt[d].vm = v BY DEF Unassign, AssignedDevices
<1>2. sc \in State BY DEF Good
<1>3. t \in State /\ Apart(sc, t) /\ (Fine(sc) /\ sc.ppt[d].vm = v => Fine(t)) BY <1>2, UnassignStep
<1> HIDE DEF t
<1>4. Good(t) BY <1>1, <1>3 DEF Good, Apart
<1> QED BY <1>1, <1>4, CountedGood

-----------------------------------------------------------------------------
(* All devices of a VM are taken from it *)

AnyOf(S) == CHOOSE x \in S : TRUE
Parts(D, n) == { S \in SUBSET D : Cardinality(S) <= n }
Takes(st, v, D, n, f) ==
    f = [S \in Parts(D, n) |-> IF S = {} THEN st ELSE VmUnassignPptdev(f[S \ {AnyOf(S)}], v, AnyOf(S))]

LEMMA OneLess ==
    ASSUME NEW D, IsFiniteSet(D), NEW S \in SUBSET D, S # {}
    PROVE  /\ AnyOf(S) \in S /\ S \ {AnyOf(S)} \in SUBSET D
           /\ Cardinality(S \ {AnyOf(S)}) = Cardinality(S) - 1
           /\ Cardinality(S) \in Nat /\ Cardinality(S) > 0 /\ Cardinality(S \ {AnyOf(S)}) \in Nat
<1>1. AnyOf(S) \in S BY DEF AnyOf
<1>2. IsFiniteSet(S) BY FS_Subset
<1>3. Cardinality(S \ {AnyOf(S)}) = Cardinality(S) - 1 /\ IsFiniteSet(S \ {AnyOf(S)}) BY <1>1, <1>2, FS_RemoveElement
<1>4. Cardinality(S) \in Nat /\ Cardinality(S \ {AnyOf(S)}) \in Nat BY <1>2, <1>3, FS_CardinalityType
<1>5. Cardinality(S) > 0 BY <1>3, <1>4
<1> QED BY <1>1, <1>3, <1>4, <1>5

\* The recursive definition has a solution.
LEMMA TakesDefined ==
    ASSUME NEW st, NEW v, NEW D, IsFiniteSet(D), NEW N \in Nat
    PROVE  \E f : Takes(st, v, D, N, f)
<1> DEFINE E(n) == \E f : Takes(st, v, D, n, f)
           B == {n \in Nat : ~E(n)}
<1>0. \A S \in SUBSET D : IsFiniteSet(S) /\ Cardinality(S) \in Nat BY FS_Subset, FS_CardinalityType
<1>1. E(0)
  <2> DEFINE f == [S \in Parts(D, 0) |-> st]
  <2>1. \A S \in Parts(D, 0) : S = {} BY <1>0, FS_EmptySet DEF Parts
  <2>2. Takes(st, v, D, 0, f) BY <2>1 DEF Takes
  <2> QED BY <2>2
<1>2. ASSUME NEW n \in Nat, E(n) PROVE E(n + 1)
  <2>1. PICK f : Takes(st, v, D, n, f) BY <1>2
  <2>2. \A S \in Parts(D, n) : f[S] = IF S = {} THEN st ELSE VmUnassignPptdev(f[S \ {AnyOf(S)}], v, AnyOf(S))
    BY <2>1 DEF Takes
  <2> DEFINE g == [S \in Parts(D, n + 1) |-> IF S = {} THEN st ELSE VmUnassignPptdev(f[S \ {AnyOf(S)}], v, AnyOf(S))]
  <2>3. ASSUME NEW S \in Parts(D, n + 1), S # {} PROVE S \ {AnyOf(S)} \in Parts(D, n)
    BY <2>3, OneLess DEF Parts
  <2>4. \A S \in Parts(D, n) : S \in Parts(D, n + 1) BY <1>0 DEF Parts
  <2>5. \A S \in Parts(D, n) : g[S] = f[S] BY <2>2, <2>4
  <2>6. Takes(st, v, D, n + 1, g) BY <2>3, <2>5 DEF Takes
  <2> QED BY <2>6
<1> HIDE DEF E
<1>3. B = {}
  <2>1. SUFFICES ASSUME B # {} PROVE FALSE OBVIOUS
  <2>2. PICK n \in B : \A m \in B : n <= m BY <2>1, Least
  <2>3. n # 0 BY <1>1, <2>2
  <2>4. n - 1 \in Nat /\ n - 1 \notin B BY <2>2, <2>3
  <2>5. E(n - 1) BY <2>4
  <2>6. E((n - 1) + 1) BY <2>4, <2>5, <1>2
  <2>7. (n - 1) + 1 = n BY <2>2
  <2> QED BY <2>2, <2>6, <2>7
<1>4. E(N) BY <1>3
<1> QED BY <1>4 DEF E

LEMMA UnassignAllStep ==
    ASSUME Params, NEW st \in State, NEW v \in Vms
    PROVE  LET t == UnassignAll(st, v) IN
           /\ t \in State /\ Apart(st, t) /\ AssignedDevices(t, v) = {}
           /\ Fine(st) => Fine(t)
<1> DEFINE D == AssignedDevices(st, v)
           F[S \in SUBSET D] == IF S = {} THEN st
                                ELSE LET d == CHOOSE x \in S : TRUE IN VmUnassignPptdev(F[S \ {d}], v, d)
<1>1. UnassignAll(st, v) = F[D] BY DEF UnassignAll
<1>2. IsFiniteSet(D) /\ D \subseteq Devs BY FS_Subset DEF AssignedDevices, Params
<1>3. \A S \in SUBSET D : IsFiniteSet(S) /\ Cardinality(S) \in Nat /\ Cardinality(S) <= Cardinality(D)
  BY <1>2, FS_Subset, FS_CardinalityType
<1>4. Cardinality(D) \in Nat /\ Parts(D, Cardinality(D)) = SUBSET D BY <1>2, <1>3, FS_CardinalityType DEF Parts
<1>5. PICK f : Takes(st, v, D, Cardinality(D), f) BY <1>2, <1>4, TakesDefined
<1>6. \E g : g = [S \in SUBSET D |-> IF S = {} THEN st
                   ELSE LET d == CHOOSE x \in S : TRUE IN VmUnassignPptdev(g[S \ {d}], v, d)]
  BY <1>4, <1>5 DEF Takes, AnyOf
<1>7. F = [S \in SUBSET D |-> IF S = {} THEN st
             ELSE LET d == CHOOSE x \in S : TRUE IN VmUnassignPptdev(F[S \ {d}], v, d)]
  BY <1>6
<1> HIDE DEF F
<1>8. F[{}] = st /\ \A S \in SUBSET D : S # {} => F[S] = VmUnassignPptdev(F[S \ {AnyOf(S)}], v, AnyOf(S))
  BY <1>7 DEF AnyOf
<1> HIDE DEF D
<1> DEFINE J(S) == /\ F[S] \in State /\ Apart(st, F[S]) /\ AssignedDevices(F[S], v) = D \ S
                   /\ Fine(st) => Fine(F[S])
           B == { n \in Nat : \E S \in SUBSET D : Cardinality(S) = n /\ ~J(S) }
<1>9. J({}) BY <1>8 DEF Apart, D
<1>10. ASSUME NEW S \in SUBSET D, S # {}, J(S \ {AnyOf(S)}) PROVE J(S)
  <2> DEFINE d == AnyOf(S)
             a == F[S \ {d}]
             t == VmUnassignPptdev(a, v, d)
  <2>1. d \in S /\ d \in Devs BY <1>2, <1>10, OneLess
  <2>2. a \in State /\ Apart(st, a) /\ AssignedDevices(a, v) = D \ (S \ {d}) /\ (Fine(st) => Fine(a)) BY <1>10
  <2>3. F[S] = t BY <1>8, <1>10
  <2> HIDE DEF a, d
  <2>4. t \in State /\ Apart(a, t) /\ AssignedDevices(t, v) = AssignedDevices(a, v) \ {d}
        /\ (Fine(a) /\ a.ppt[d].vm = v => Fine(t))
    BY <2>1, <2>2, UnassignStep
  <2> HIDE DEF t
  <2>5. d \in AssignedDevices(a, v) BY <2>1, <2>2
  <2>6. a.ppt[d].vm = v BY <2>5 DEF AssignedDevices
  <2>7. Apart(st, t) BY <2>2, <2>4 DEF Apart
  <2>8. AssignedDevices(t, v) = D \ S BY <2>1, <2>2, <2>4
  <2> QED BY <2>2, <2>3, <2>4, <2>6, <2>7, <2>8
<1> HIDE DEF J
<1>11. B = {}
  <2>1. SUFFICES ASSUME B # {} PROVE FALSE OBVIOUS
  <2>2. PICK n \in B : \A m \in B : n <= m BY <2>1, Least
  <2>3. PICK S \in SUBSET D : Cardinality(S) = n /\ ~J(S) BY <2>2
  <2>4. S # {} BY <1>9, <2>3
  <2> DEFINE T == S \ {AnyOf(S)}
  <2>5. T \in SUBSET D /\ Cardinality(T) = n - 1 /\ Cardinality(T) \in Nat /\ n \in Nat BY <1>2, <2>3, <2>4, OneLess
  <2>6. ~J(T) BY <1>10, <2>3, <2>4
  <2> HIDE DEF T
  <2>7. Cardinality(T) \in B BY <2>5, <2>6
  <2> QED BY <2>2, <2>5, <2>7
<1>12. J(D) BY <1>4, <1>11
<1> QED BY <1>1, <1>12 DEF J

-----------------------------------------------------------------------------
(* The mappings of a VM without devices are freed *)

Idle(st, v) == AssignedDevices(st, v) = {} /\ st.assigning[v] = None

\* A VM without devices has no memory in a domain.
LEMMA IdleDomain ==
    ASSUME NEW st, NEW v, VmOk(st, v), Idle(st, v), v \notin st.failed
    PROVE  Flagged(st, v) = {} /\ st.dom[v] = {} /\ \A s \in DOMAIN Segs : \A p \in PagesOf(v, s) : p \in st.host
<1>1. Flagged(st, v) = {} BY DEF VmOk, FlagsOwned, Idle
<1>2. st.dom[v] = {} BY <1>1 DEF VmOk, VmCore, DomainExact, GivenTo
<1> QED BY <1>1, <1>2 DEF VmOk, VmCore, DomainExact

LEMMA FreeMemmapStep ==
    ASSUME Params, NEW st \in State, NEW v \in Vms, NEW i \in Slots
    PROVE  LET t == FreeMemmap(st, v, i) IN
           /\ t \in State /\ Apart(st, t) /\ t.ppt = st.ppt
           /\ Fine(st) /\ Idle(st, v) => Fine(t)
<1> DEFINE m == st.maps[v][i]
           s == m.seg
           sp == [g \in Gpas |-> IF Covers(m, g) THEN None ELSE st.space[v][g]]
           t == FreeMemmap(st, v, i)
<1>1. CASE m.len = 0
  <2>1. t = st BY <1>1 DEF FreeMemmap
  <2> QED BY <2>1 DEF Apart
<1>2. CASE m.len # 0
  <2>1. t = [st EXCEPT !.space[v] = sp, !.refs[v][s] = @ - 1, !.maps[v][i] = NoMap] BY <1>2 DEF FreeMemmap
  <2>2. m \in Mapping BY <1>2, CoversRange
  <2>3. s \in DOMAIN Segs BY <2>2 DEF Mapping
  <2>4. st.space \in SpaceT /\ st.refs \in RefsT /\ st.maps \in MapsT BY DEF State
  <2>5. sp \in [Gpas -> {None, "mem", "mmio"}] BY <2>4 DEF SpaceT
  <2> HIDE DEF t, s
  <2>6. /\ t.space = [st.space EXCEPT ![v] = sp] /\ t.refs = [st.refs EXCEPT ![v][s] = @ - 1]
        /\ t.maps = [st.maps EXCEPT ![v][i] = NoMap]
        /\ t.seg = st.seg /\ t.host = st.host
        /\ t.iommu = st.iommu /\ t.dom = st.dom /\ t.ctx = st.ctx /\ t.ppt = st.ppt
        /\ t.assigning = st.assigning /\ t.panic = st.panic /\ t.raced = st.raced /\ t.failed = st.failed
    <3> HIDE DEF sp
    <3> QED BY <2>1 DEF State
  <2>7. t.space \in SpaceT /\ t.space[v] = sp /\ \A u \in Vms \ {v} : t.space[u] = st.space[u]
    <3> HIDE DEF sp
    <3> QED BY <2>4, <2>5, <2>6 DEF SpaceT
  <2>8. /\ t.refs \in RefsT /\ t.refs[v][s] = st.refs[v][s] - 1 /\ \A x \in DOMAIN Segs \ {s} : t.refs[v][x] = st.refs[v][x]
        /\ \A u \in Vms \ {v} : t.refs[u] = st.refs[u]
    BY <2>3, <2>4, <2>6 DEF RefsT
  <2>9. /\ t.maps \in MapsT /\ t.maps[v][i] = NoMap /\ \A j \in Slots \ {i} : t.maps[v][j] = st.maps[v][j]
        /\ \A u \in Vms \ {v} : t.maps[u] = st.maps[u]
    BY <2>4, <2>6 DEF MapsT
  <2>10. t \in State
    <3> HIDE DEF sp
    <3> QED BY <2>1, <2>6, <2>7, <2>8, <2>9 DEF State
  <2>11. t.maps[v][i].len = 0 BY <2>9 DEF NoMap
  <2>12. \A g : ~Covers(t.maps[v][i], g) BY <2>11 DEF Covers
  <2>13. ASSUME Fine(st), Idle(st, v) PROVE Fine(t)
    <3>1. VmOk(st, v) BY <2>13 DEF Fine
    <3>2. MapsFit(t, v)
      <4>1. \A j \in Slots : t.maps[v][j].len # 0 => t.maps[v][j] = st.maps[v][j] BY <2>9, <2>11
      <4> QED BY <2>6, <3>1, <4>1 DEF VmOk, VmCore, MapsFit
    <3>3. MapsApart(t, v) BY <2>9, <2>12, <3>1 DEF VmOk, VmCore, MapsApart
    <3>4. SameDevs(st, t, v) /\ SameHost(st, t, v) BY <2>6 DEF SameDevs, SameHost
    <3>5. /\ WindowsApart(t, v) /\ AssignedDevices(t, v) = AssignedDevices(st, v)
          /\ \A g : PptIsMmio(t, v, g) <=> PptIsMmio(st, v, g)
      BY <3>1, <3>4, WindowsSame DEF VmOk, VmCore
    <3>6. KindsApart(t, v) BY <2>6, <2>9, <2>12, <3>1 DEF VmOk, VmCore, KindsApart
    <3>7. SpaceExact(t, v)
      <4> SUFFICES ASSUME NEW g \in Gpas PROVE VmMemAllocated(t, v, g) <=> t.space[v][g] # None
        BY DEF SpaceExact
      <4>1. CASE Covers(m, g)
        <5>1. \A j \in Slots \ {i} : ~Covers(st.maps[v][j], g) BY <3>1, <4>1 DEF VmOk, VmCore, MapsApart
        <5>2. ~PptIsMmio(st, v, g) BY <3>1, <4>1 DEF VmOk, VmCore, KindsApart, PptIsMmio
        <5>3. ~VmMemAllocated(t, v, g) BY <2>9, <2>12, <3>5, <5>1, <5>2 DEF VmMemAllocated
        <5> QED BY <2>7, <4>1, <5>3
      <4>2. CASE ~Covers(m, g)
        <5>1. VmMemAllocated(t, v, g) <=> VmMemAllocated(st, v, g) BY <2>9, <2>12, <3>5, <4>2 DEF VmMemAllocated
        <5>2. t.space[v][g] = st.space[v][g] BY <2>7, <4>2
        <5> QED BY <3>1, <5>1, <5>2 DEF VmOk, VmCore, SpaceExact
      <4> QED BY <4>1, <4>2
    <3>8. RefsExact(t, v)
      <4>1. \A x \in DOMAIN Segs \ {s} : MapsOf(t, v, x) = MapsOf(st, v, x) BY <2>9, <2>11 DEF MapsOf, s
      <4>2. MapsOf(t, v, s) = MapsOf(st, v, s) \ {i} /\ i \in MapsOf(st, v, s) BY <1>2, <2>9, <2>11 DEF MapsOf, s
      <4>3. IsFiniteSet(MapsOf(st, v, s)) BY SlotsFinite DEF MapsOf
      <4>4. Cardinality(MapsOf(t, v, s)) = Cardinality(MapsOf(st, v, s)) - 1 BY <4>2, <4>3, FS_RemoveElement
      <4>5. Cardinality(MapsOf(st, v, s)) \in Nat BY <4>3, FS_CardinalityType
      <4>6. st.refs[v][s] = (IF st.seg[v][s] = None THEN 0 ELSE 1) + Cardinality(MapsOf(st, v, s))
        BY <2>3, <3>1 DEF VmOk, VmCore, RefsExact
      <4>7. t.refs[v][s] = (IF t.seg[v][s] = None THEN 0 ELSE 1) + Cardinality(MapsOf(t, v, s))
        BY <2>6, <2>8, <4>4, <4>5, <4>6
      <4>8. \A x \in DOMAIN Segs \ {s} :
              t.refs[v][x] = (IF t.seg[v][x] = None THEN 0 ELSE 1) + Cardinality(MapsOf(t, v, x))
        BY <2>6, <2>8, <3>1, <4>1 DEF VmOk, VmCore, RefsExact
      <4> QED BY <4>7, <4>8 DEF RefsExact
    <3>9. Flagged(t, v) \subseteq Flagged(st, v) BY <2>9, <2>11 DEF Flagged
    <3>10. DomainExact(t, v) /\ FlagsOwned(t, v)
      <4>1. CASE v \in t.failed BY <4>1 DEF DomainExact, FlagsOwned
      <4>2. CASE v \notin t.failed
        <5>1. Flagged(st, v) = {} /\ st.dom[v] = {} /\ \A x \in DOMAIN Segs : \A p \in PagesOf(v, x) : p \in st.host
          BY <2>6, <2>13, <3>1, <4>2, IdleDomain
        <5>2. Flagged(t, v) = {} /\ t.dom[v] = {} BY <2>6, <3>9, <5>1
        <5>3. GivenTo(t, v) BY <5>2 DEF GivenTo
        <5>4. DomainExact(t, v) BY <2>6, <5>1, <5>2, <5>3 DEF DomainExact
        <5> QED BY <5>2, <5>4 DEF FlagsOwned
      <4> QED BY <4>1, <4>2
    <3>11. DomainOwn(t, v) BY <2>6, <3>1 DEF VmOk, VmCore, DomainOwn
    <3>12. VmOk(t, v) BY <3>2, <3>3, <3>5, <3>6, <3>7, <3>8, <3>10, <3>11 DEF VmOk, VmCore
    <3>13. \A u \in Vms \ {v} : /\ t.seg[u] = st.seg[u] /\ t.refs[u] = st.refs[u]
                                /\ t.maps[u] = st.maps[u] /\ t.space[u] = st.space[u]
      BY <2>6, <2>7, <2>8, <2>9
    <3> HIDE DEF sp, m
    <3> QED BY <2>6, <2>10, <2>13, <3>12, <3>13, MemoryFrame
  <2>14. Apart(st, t) BY <2>6 DEF Apart
  <2> QED BY <2>6, <2>10, <2>13, <2>14 DEF t
<1> QED BY <1>1, <1>2

Freed(st, v, i, S) == IF i \in S THEN FreeMemmap(st, v, i) ELSE st
Frees(st, v, S, n, f) == f = [i \in 0..n |-> IF i = 0 THEN st ELSE Freed(f[i - 1], v, i, S)]

LEMMA FreesDefined ==
    ASSUME NEW st, NEW v, NEW S, NEW N \in Nat
    PROVE  \E f : Frees(st, v, S, N, f)
<1> DEFINE E(n) == \E f : Frees(st, v, S, n, f)
           B == {n \in Nat : ~E(n)}
<1>1. E(0)
  <2> DEFINE f == [i \in 0..0 |-> st]
  <2>1. Frees(st, v, S, 0, f) BY DEF Frees
  <2> QED BY <2>1
<1>2. ASSUME NEW n \in Nat, E(n) PROVE E(n + 1)
  <2>1. PICK f : Frees(st, v, S, n, f) BY <1>2
  <2>2. f[0] = st /\ \A i \in 1..n : f[i] = Freed(f[i - 1], v, i, S) BY <2>1 DEF Frees
  <2> DEFINE g == [i \in 0..(n + 1) |-> IF i <= n THEN f[i] ELSE Freed(f[n], v, n + 1, S)]
  <2>3. ASSUME NEW i \in 0..(n + 1) PROVE g[i] = IF i = 0 THEN st ELSE Freed(g[i - 1], v, i, S)
    <3>1. CASE i = 0 BY <2>2, <3>1
    <3>2. CASE i \in 1..n
      <4>1. g[i] = f[i] /\ g[i - 1] = f[i - 1] BY <3>2
      <4> QED BY <2>2, <3>2, <4>1
    <3>3. CASE i = n + 1
      <4>1. n \in 0..(n + 1) /\ (n + 1) - 1 = n /\ ~(n + 1 <= n) OBVIOUS
      <4>2. g[n] = f[n] /\ g[n + 1] = Freed(f[n], v, n + 1, S) BY <4>1
      <4> QED BY <3>3, <4>1, <4>2
    <3> QED BY <3>1, <3>2, <3>3
  <2>4. Frees(st, v, S, n + 1, g) BY <2>3 DEF Frees
  <2> QED BY <2>4
<1> HIDE DEF E
<1>3. B = {}
  <2>1. SUFFICES ASSUME B # {} PROVE FALSE OBVIOUS
  <2>2. PICK n \in B : \A m \in B : n <= m BY <2>1, Least
  <2>3. n # 0 BY <1>1, <2>2
  <2>4. n - 1 \in Nat /\ n - 1 \notin B BY <2>2, <2>3
  <2>5. E(n - 1) BY <2>4
  <2>6. E((n - 1) + 1) BY <2>4, <2>5, <1>2
  <2>7. (n - 1) + 1 = n BY <2>2
  <2> QED BY <2>2, <2>6, <2>7
<1>4. E(N) BY <1>3
<1> QED BY <1>4 DEF E

LEMMA FreeMapsStep ==
    ASSUME Params, NEW st \in State, NEW v \in Vms, NEW S
    PROVE  LET t == FreeMaps(st, v, S) IN
           /\ t \in State /\ Apart(st, t) /\ t.ppt = st.ppt
           /\ Fine(st) /\ Idle(st, v) => Fine(t)
<1> DEFINE F[i \in 0..MaxMaps] ==
               IF i = 0 THEN st ELSE IF i \in S THEN FreeMemmap(F[i - 1], v, i) ELSE F[i - 1]
<1>1. FreeMaps(st, v, S) = F[MaxMaps] BY DEF FreeMaps
<1>2. MaxMaps \in Nat BY DEF Params
<1>3. PICK f : Frees(st, v, S, MaxMaps, f) BY <1>2, FreesDefined
<1>4. \E g : g = [i \in 0..MaxMaps |->
               IF i = 0 THEN st ELSE IF i \in S THEN FreeMemmap(g[i - 1], v, i) ELSE g[i - 1]]
  BY <1>3 DEF Frees, Freed
<1>5. F = [i \in 0..MaxMaps |-> IF i = 0 THEN st ELSE IF i \in S THEN FreeMemmap(F[i - 1], v, i) ELSE F[i - 1]]
  BY <1>4
<1> HIDE DEF F
<1>6. F[0] = st /\ \A i \in 1..MaxMaps : F[i] = Freed(F[i - 1], v, i, S) BY <1>2, <1>5 DEF Freed
<1> DEFINE J(i) == /\ F[i] \in State /\ Apart(st, F[i]) /\ F[i].ppt = st.ppt
                   /\ Fine(st) /\ Idle(st, v) => Fine(F[i])
           B == { i \in 0..MaxMaps : ~J(i) }
<1>7. J(0) BY <1>6 DEF Apart
<1>8. ASSUME NEW i \in 1..MaxMaps, J(i - 1) PROVE J(i)
  <2> DEFINE a == F[i - 1]
  <2>1. F[i] = Freed(a, v, i, S) BY <1>6
  <2>2. a \in State /\ Apart(st, a) /\ a.ppt = st.ppt /\ (Fine(st) /\ Idle(st, v) => Fine(a)) BY <1>8
  <2> HIDE DEF a
  <2>3. CASE i \notin S
    <3>1. F[i] = a BY <2>1, <2>3 DEF Freed
    <3> QED BY <2>2, <3>1
  <2>4. CASE i \in S
    <3> DEFINE t == FreeMemmap(a, v, i)
    <3>1. F[i] = t BY <2>1, <2>4 DEF Freed
    <3>2. i \in Slots BY DEF Slots
    <3>3. t \in State /\ Apart(a, t) /\ t.ppt = a.ppt /\ (Fine(a) /\ Idle(a, v) => Fine(t))
      BY <2>2, <3>2, FreeMemmapStep
    <3> HIDE DEF t
    <3>4. Idle(st, v) => Idle(a, v) BY <2>2 DEF Idle, AssignedDevices, Apart
    <3>5. Apart(st, t) BY <2>2, <3>3 DEF Apart
    <3> QED BY <2>2, <3>1, <3>3, <3>4, <3>5
  <2> QED BY <2>3, <2>4
<1> HIDE DEF J
<1>9. B = {}
  <2>1. SUFFICES ASSUME B # {} PROVE FALSE OBVIOUS
  <2>0. B \subseteq Nat BY <1>2
  <2>2. PICK n \in B : \A k \in B : n <= k
    <3> HIDE DEF B
    <3> QED BY <2>0, <2>1, Least
  <2>3. n # 0 BY <1>7, <2>2
  <2>4. n \in 1..MaxMaps /\ n - 1 \in 0..MaxMaps /\ n - 1 \notin B BY <1>2, <2>2, <2>3
  <2>5. J(n - 1) BY <2>4
  <2>6. J(n) BY <1>8, <2>4, <2>5
  <2> QED BY <2>2, <2>6
<1>10. J(MaxMaps) BY <1>2, <1>9
<1> QED BY <1>1, <1>10 DEF J

-----------------------------------------------------------------------------
(* A VM is reset or destroyed *)

LEMMA DomainGone ==
    ASSUME Params, NEW st \in State, NEW v \in Vms
    PROVE  LET t == [st EXCEPT !.iommu[v] = FALSE, !.dom[v] = {}] IN
           /\ t \in State /\ Apart(st, t) /\ t.ppt = st.ppt
           /\ Fine(st) /\ Idle(st, v) => Fine(t)
<1> DEFINE t == [st EXCEPT !.iommu[v] = FALSE, !.dom[v] = {}]
<1>1. st.iommu \in IommuT /\ st.dom \in DomT BY DEF State
<1>2. /\ t.iommu = [st.iommu EXCEPT ![v] = FALSE] /\ t.dom = [st.dom EXCEPT ![v] = {}]
      /\ t.seg = st.seg /\ t.refs = st.refs /\ t.maps = st.maps /\ t.space = st.space /\ t.host = st.host
      /\ t.ctx = st.ctx /\ t.ppt = st.ppt /\ t.panic = st.panic /\ t.raced = st.raced
      /\ t.assigning = st.assigning /\ t.failed = st.failed
  BY DEF State
<1>3. t.iommu \in IommuT /\ \A u \in Vms \ {v} : t.iommu[u] = st.iommu[u] BY <1>1, <1>2 DEF IommuT
<1>4. t.dom \in DomT /\ t.dom[v] = {} /\ \A u \in Vms \ {v} : t.dom[u] = st.dom[u] BY <1>1, <1>2 DEF DomT
<1>5. t \in State BY <1>2, <1>3, <1>4 DEF State
<1> HIDE DEF t
<1>6. ASSUME Fine(st), Idle(st, v) PROVE Fine(t)
  <2>1. \A u \in Vms : SameDevs(st, t, u) /\ SameHost(st, t, u) BY <1>2 DEF SameDevs, SameHost
  <2>2. \A u \in Vms \ {v} : SameVm(st, t, u) BY <1>2, <1>4 DEF SameVm
  <2>3. \A u \in Vms \ {v} : VmOk(t, u) BY <1>2, <1>6, <2>1, <2>2, VmSame DEF Fine
  <2>4. VmOk(st, v) BY <1>6 DEF Fine
  <2>7. VmOk(t, v)
    <3>5. CASE v \notin st.failed
      <4>1. st.dom[v] = {} BY <1>6, <2>4, <3>5, IdleDomain
      <4>2. SameVm(st, t, v) BY <1>2, <1>4, <4>1 DEF SameVm
      <4> QED BY <1>2, <2>1, <2>4, <4>2, VmSame
    <3>6. CASE v \in st.failed
      <4>1. MapsFit(t, v) /\ MapsApart(t, v) /\ RefsExact(t, v) BY <1>2, <2>4, MapsSame DEF VmOk, VmCore
      <4>2. WindowsApart(t, v) /\ KindsApart(t, v) BY <1>2, <2>1, <2>4, WindowsSame DEF VmOk, VmCore
      <4>3. SpaceExact(t, v) BY <1>2, <2>1, <2>4, SpaceSame DEF VmOk, VmCore
      <4>4. DomainExact(t, v) /\ FlagsOwned(t, v) BY <1>2, <3>6 DEF DomainExact, FlagsOwned
      <4>5. DomainOwn(t, v) BY <1>4 DEF DomainOwn
      <4> QED BY <4>1, <4>2, <4>3, <4>4, <4>5 DEF VmOk, VmCore
    <3> QED BY <3>5, <3>6
  <2>8. \A e \in Devs : DevOk(t, e)
    <3> TAKE e \in Devs
    <3>1. DevOk(st, e) BY <1>6 DEF Fine
    <3>2. st.ppt[e].vm # v BY <1>6, <3>1 DEF DevOk, Idle, AssignedDevices, Params
    <3>3. st.ppt \in PptT BY DEF State
    <3>4. st.ppt[e].vm \in Vms \cup {None} BY <3>3 DEF PptT, Device
    <3>5. st.ppt[e].vm # None => t.iommu[st.ppt[e].vm] = st.iommu[st.ppt[e].vm] BY <1>3, <3>2, <3>4
    <3>6. t.ppt[e] = st.ppt[e] /\ t.ctx[e] = st.ctx[e] BY <1>2
    <3> QED BY <3>1, <3>5, <3>6, DevSame
  <2>9. PendingOk(t) BY <1>2, <1>3, <1>6 DEF Fine, PendingOk, Idle
  <2> QED BY <1>5, <2>3, <2>7, <2>8, <2>9 DEF Fine
<1> QED BY <1>2, <1>5, <1>6 DEF Apart, t

LEMMA CleanupStep ==
    ASSUME Params, sc \in State, NEW v \in Vms, NEW destroy \in BOOLEAN, sc.assigning[v] = None
    PROVE  LET t == Cleanup(v, destroy) IN
           t \in State /\ Apart(sc, t) /\ Idle(t, v) /\ (Fine(sc) => Fine(t))
<1> DEFINE un == UnassignAll(sc, v)
           st == [un EXCEPT !.iommu[v] = FALSE, !.dom[v] = {}]
           out == { i \in Slots : destroy \/ ~SysmemMapping(st, v, st.maps[v][i]) }
           t == FreeMaps(st, v, out)
<1>1. Cleanup(v, destroy) = t BY DEF Cleanup
<1>2. un \in State /\ Apart(sc, un) /\ AssignedDevices(un, v) = {} /\ (Fine(sc) => Fine(un)) BY UnassignAllStep
<1> HIDE DEF un
<1>3. Idle(un, v) BY <1>2 DEF Idle, Apart
<1>4. st \in State /\ Apart(un, st) /\ st.ppt = un.ppt /\ (Fine(un) /\ Idle(un, v) => Fine(st)) BY <1>2, DomainGone
<1> HIDE DEF st, out
<1>5. Idle(st, v) BY <1>3, <1>4 DEF Idle, Apart, AssignedDevices
<1>6. t \in State /\ Apart(st, t) /\ t.ppt = st.ppt /\ (Fine(st) /\ Idle(st, v) => Fine(t)) BY <1>4, FreeMapsStep
<1> HIDE DEF t
<1>7. Idle(t, v) BY <1>5, <1>6 DEF Idle, Apart, AssignedDevices
<1>8. Apart(sc, t) BY <1>2, <1>4, <1>6 DEF Apart
<1> QED BY <1>1, <1>2, <1>3, <1>4, <1>5, <1>6, <1>7, <1>8

LEMMA ReinitKeeps ==
    ASSUME Params, Good(sc), NEW v \in Vms, VmReinit(v)
    PROVE  Good(sc')
<1> DEFINE b == FALSE
           t == Cleanup(v, b)
<1>1. sc' = Counted(t) /\ sc.assigning[v] = None /\ b \in BOOLEAN BY DEF VmReinit, Ready
<1>2. sc \in State BY DEF Good
<1> HIDE DEF b
<1>3. t \in State /\ Apart(sc, t) /\ (Fine(sc) => Fine(t)) BY <1>1, <1>2, CleanupStep
<1> HIDE DEF t
<1>4. Good(t) BY <1>3 DEF Good, Apart
<1> QED BY <1>1, <1>4, CountedGood

LEMMA NewVmStep ==
    ASSUME Params, NEW st \in State, NEW v \in Vms
    PROVE  LET t == NewVm(st, v) IN
           t \in State /\ Apart(st, t) /\ (Fine(st) /\ Idle(st, v) => Fine(t))
<1> DEFINE seg == [s \in DOMAIN Segs |-> None]
           refs == [s \in DOMAIN Segs |-> 0]
           maps == [i \in Slots |-> NoMap]
           sp == [g \in Gpas |-> None]
           t == NewVm(st, v)
<1>1. t = [st EXCEPT !.seg[v] = seg, !.refs[v] = refs, !.maps[v] = maps, !.space[v] = sp] BY DEF NewVm
<1>2. st.seg \in SegT /\ st.refs \in RefsT /\ st.maps \in MapsT /\ st.space \in SpaceT BY DEF State
<1>3. seg \in [DOMAIN Segs -> {None, "sysmem", "devmem"}] /\ \A s \in DOMAIN Segs : seg[s] = None OBVIOUS
<1>4. refs \in [DOMAIN Segs -> Int] /\ \A s \in DOMAIN Segs : refs[s] = 0 OBVIOUS
<1>5. maps \in [Slots -> Mapping \cup {NoMap}] /\ \A i \in Slots : maps[i] = NoMap OBVIOUS
<1>6. sp \in [Gpas -> {None, "mem", "mmio"}] /\ \A g \in Gpas : sp[g] = None OBVIOUS
<1> HIDE DEF seg, refs, maps, sp, t
<1>7. /\ t.seg = [st.seg EXCEPT ![v] = seg] /\ t.refs = [st.refs EXCEPT ![v] = refs]
      /\ t.maps = [st.maps EXCEPT ![v] = maps] /\ t.space = [st.space EXCEPT ![v] = sp]
      /\ t.host = st.host /\ t.iommu = st.iommu /\ t.dom = st.dom /\ t.ctx = st.ctx /\ t.ppt = st.ppt
      /\ t.assigning = st.assigning /\ t.panic = st.panic /\ t.raced = st.raced /\ t.failed = st.failed
  BY <1>1 DEF State
<1>8. t.seg \in SegT /\ t.seg[v] = seg /\ \A u \in Vms \ {v} : t.seg[u] = st.seg[u] BY <1>2, <1>3, <1>7 DEF SegT
<1>9. t.refs \in RefsT /\ t.refs[v] = refs /\ \A u \in Vms \ {v} : t.refs[u] = st.refs[u] BY <1>2, <1>4, <1>7 DEF RefsT
<1>10. t.maps \in MapsT /\ t.maps[v] = maps /\ \A u \in Vms \ {v} : t.maps[u] = st.maps[u] BY <1>2, <1>5, <1>7 DEF MapsT
<1>11. t.space \in SpaceT /\ t.space[v] = sp /\ \A u \in Vms \ {v} : t.space[u] = st.space[u]
  BY <1>2, <1>6, <1>7 DEF SpaceT
<1>12. t \in State BY <1>1, <1>7, <1>8, <1>9, <1>10, <1>11 DEF State
<1>13. ASSUME Fine(st), Idle(st, v) PROVE Fine(t)
  <2>1. VmOk(st, v) BY <1>13 DEF Fine
  <2>2. \A i \in Slots : t.maps[v][i].len = 0 BY <1>5, <1>10 DEF NoMap
  <2>3. \A i \in Slots : \A g : ~Covers(t.maps[v][i], g) BY <2>2 DEF Covers
  <2>4. MapsFit(t, v) BY <2>2 DEF MapsFit
  <2>5. MapsApart(t, v) /\ KindsApart(t, v) BY <2>3 DEF MapsApart, KindsApart
  <2>6. SameDevs(st, t, v) BY <1>7 DEF SameDevs
  <2>7. WindowsApart(t, v) BY <2>1, <2>6, WindowsSame DEF VmOk, VmCore
  <2>8. \A e \in Devs : st.ppt[e].vm # v
    <3> TAKE e \in Devs
    <3>1. DevOk(st, e) BY <1>13 DEF Fine
    <3> QED BY <1>13, <3>1 DEF DevOk, Idle, AssignedDevices, Params
  <2>9. SpaceExact(t, v) BY <1>6, <1>7, <1>11, <2>3, <2>8 DEF SpaceExact, VmMemAllocated, PptIsMmio
  <2>10. RefsExact(t, v)
    <3>1. \A s : MapsOf(t, v, s) = {} BY <2>2 DEF MapsOf
    <3>2. \A s : Cardinality(MapsOf(t, v, s)) = 0 BY <3>1, FS_EmptySet
    <3> QED BY <1>3, <1>4, <1>8, <1>9, <3>2 DEF RefsExact
  <2>11. Flagged(t, v) = {} BY <2>2 DEF Flagged
  <2>12. FlagsOwned(t, v) BY <2>11 DEF FlagsOwned
  <2>13. DomainExact(t, v)
    <3>1. CASE v \in t.failed BY <3>1 DEF DomainExact
    <3>2. CASE v \notin t.failed
      <4>1. st.dom[v] = {} /\ \A x \in DOMAIN Segs : \A p \in PagesOf(v, x) : p \in st.host
        BY <1>7, <1>13, <2>1, <3>2, IdleDomain
      <4>2. GivenTo(t, v) BY <1>7, <2>11, <4>1 DEF GivenTo
      <4> QED BY <1>7, <4>1, <4>2 DEF DomainExact
    <3> QED BY <3>1, <3>2
  <2>14. DomainOwn(t, v) BY <1>7, <2>1 DEF VmOk, VmCore, DomainOwn
  <2>15. VmOk(t, v) BY <2>4, <2>5, <2>7, <2>9, <2>10, <2>12, <2>13, <2>14 DEF VmOk, VmCore
  <2>16. \A u \in Vms \ {v} : /\ t.seg[u] = st.seg[u] /\ t.refs[u] = st.refs[u]
                              /\ t.maps[u] = st.maps[u] /\ t.space[u] = st.space[u]
    BY <1>8, <1>9, <1>10, <1>11
  <2> QED BY <1>7, <1>12, <1>13, <2>15, <2>16, MemoryFrame
<1> QED BY <1>7, <1>12, <1>13 DEF Apart, t

LEMMA DestroyKeeps ==
    ASSUME Params, Good(sc), NEW v \in Vms, VmDestroy(v)
    PROVE  Good(sc')
<1> DEFINE b == TRUE
           a == Cleanup(v, b)
           t == NewVm(a, v)
<1>1. sc' = Counted(t) /\ sc.assigning[v] = None /\ b \in BOOLEAN BY DEF VmDestroy, Ready
<1>2. sc \in State BY DEF Good
<1> HIDE DEF b
<1>3. a \in State /\ Apart(sc, a) /\ Idle(a, v) /\ (Fine(sc) => Fine(a)) BY <1>1, <1>2, CleanupStep
<1> HIDE DEF a
<1>4. t \in State /\ Apart(a, t) /\ (Fine(a) /\ Idle(a, v) => Fine(t)) BY <1>3, NewVmStep
<1> HIDE DEF t
<1>5. Good(t) BY <1>3, <1>4 DEF Good, Apart
<1> QED BY <1>1, <1>5, CountedGood

-----------------------------------------------------------------------------
(* Every step *)

LEMMA InitGood ==
    ASSUME Params, Init
    PROVE  Good(sc)
<1> DEFINE H == UNION { PagesOf(v, s) : v \in Vms, s \in DOMAIN Segs }
<1>1. sc = [seg |-> [v \in Vms |-> [s \in DOMAIN Segs |-> None]],
            refs |-> [v \in Vms |-> [s \in DOMAIN Segs |-> 0]],
            maps |-> [v \in Vms |-> [i \in Slots |-> NoMap]],
            space |-> [v \in Vms |-> [g \in Gpas |-> None]],
            host |-> H,
            iommu |-> [v \in Vms |-> FALSE], dom |-> [v \in Vms |-> {}],
            ctx |-> [d \in Devs |-> None],
            ppt |-> [d \in Devs |-> NewDev],
            assigning |-> [v \in Vms |-> None],
            panic |-> FALSE, raced |-> FALSE, failed |-> {}, ops |-> 0]
  BY DEF Init
<1>2. H \in HostT
  <2>1. \A v \in Vms, s \in DOMAIN Segs : PagesOf(v, s) \subseteq Vms \X (DOMAIN Segs) \X Nat
    BY DEF PagesOf, Params
  <2> QED BY <2>1 DEF HostT
<1>3. \A v \in Vms, s \in DOMAIN Segs : PagesOf(v, s) \subseteq H OBVIOUS
<1> HIDE DEF H
<1>4. /\ sc.seg = [v \in Vms |-> [s \in DOMAIN Segs |-> None]] /\ sc.refs = [v \in Vms |-> [s \in DOMAIN Segs |-> 0]]
      /\ sc.maps = [v \in Vms |-> [i \in Slots |-> NoMap]] /\ sc.space = [v \in Vms |-> [g \in Gpas |-> None]]
      /\ sc.host = H /\ sc.iommu = [v \in Vms |-> FALSE] /\ sc.dom = [v \in Vms |-> {}]
      /\ sc.ctx = [d \in Devs |-> None] /\ sc.ppt = [d \in Devs |-> NewDev]
      /\ sc.assigning = [v \in Vms |-> None] /\ sc.failed = {}
  BY <1>1
<1>5. NewDev \in Device BY DEF NewDev, Device, None
<1>6. MsiOk(NewDev) BY DEF NewDev, MsiOk, None
<1>7. sc.ppt \in PptT BY <1>4, <1>5, <1>6 DEF PptT
<1>8. sc.seg \in SegT /\ sc.refs \in RefsT /\ sc.maps \in MapsT /\ sc.space \in SpaceT
  BY <1>4 DEF SegT, RefsT, MapsT, SpaceT
<1>9. sc.host \in HostT /\ sc.iommu \in IommuT /\ sc.dom \in DomT /\ sc.ctx \in CtxT /\ sc.assigning \in AssignT /\ sc.failed \in FailedT
  BY <1>2, <1>4 DEF IommuT, DomT, CtxT, AssignT, FailedT
<1>10. sc \in State BY <1>1, <1>7, <1>8, <1>9 DEF State
<1>11. ASSUME NEW v \in Vms PROVE VmOk(sc, v)
  <2>1. \A i \in Slots : sc.maps[v][i].len = 0 BY <1>4 DEF NoMap
  <2>2. \A i \in Slots : \A g : ~Covers(sc.maps[v][i], g) BY <2>1 DEF Covers
  <2>3. MapsFit(sc, v) BY <2>1 DEF MapsFit
  <2>4. MapsApart(sc, v) /\ KindsApart(sc, v) BY <2>2 DEF MapsApart, KindsApart
  <2>5. \A d \in Devs : sc.ppt[d].mmio = {} BY <1>4 DEF NewDev
  <2>6. WindowsApart(sc, v) BY <2>5 DEF WindowsApart
  <2>7. \A g \in Gpas : sc.space[v][g] = None BY <1>4
  <2>8. SpaceExact(sc, v) BY <2>2, <2>5, <2>7 DEF SpaceExact, VmMemAllocated, PptIsMmio
  <2>9. RefsExact(sc, v)
    <3>1. \A s : MapsOf(sc, v, s) = {} BY <2>1 DEF MapsOf
    <3>2. \A s : Cardinality(MapsOf(sc, v, s)) = 0 BY <3>1, FS_EmptySet
    <3>3. \A s \in DOMAIN Segs : sc.refs[v][s] = 0 /\ sc.seg[v][s] = None BY <1>4
    <3> QED BY <3>2, <3>3 DEF RefsExact
  <2>10. Flagged(sc, v) = {} /\ sc.dom[v] = {} BY <1>4, <2>1 DEF Flagged
  <2>11. FlagsOwned(sc, v) /\ DomainOwn(sc, v) BY <2>10 DEF FlagsOwned, DomainOwn
  <2>12. GivenTo(sc, v) BY <2>10 DEF GivenTo
  <2>13. DomainExact(sc, v) BY <1>3, <1>4, <2>10, <2>12 DEF DomainExact
  <2> QED BY <2>3, <2>4, <2>6, <2>8, <2>9, <2>11, <2>13 DEF VmOk, VmCore
<1>12. \A d \in Devs : DevOk(sc, d) BY <1>4 DEF DevOk, NewDev
<1>13. PendingOk(sc) BY <1>4 DEF PendingOk
<1> QED BY <1>10, <1>11, <1>12, <1>13 DEF Good, Fine

LEMMA NextKeepsGood ==
    ASSUME Params, Good(sc), [Next]_sc
    PROVE  Good(sc')
<1>1. CASE UNCHANGED sc BY <1>1
<1>2. ASSUME NEW v \in Vms, NEW s \in DOMAIN Segs, NEW b \in BOOLEAN, VmAllocMemseg(v, s, b) PROVE Good(sc')
  BY <1>2, AllocKeeps
<1>3. ASSUME NEW v \in Vms, NEW s \in DOMAIN Segs, NEW g \in Gpas, NEW f \in 0..(Segs[s] - 1),
             NEW n \in 1..Segs[s], NEW w \in BOOLEAN, NEW x \in BOOLEAN, VmMmapMemseg(v, s, g, f, n, w, x)
      PROVE  Good(sc')
  BY <1>3, MmapKeeps
<1>4. ASSUME NEW v \in Vms, NEW d \in Devs, NEW b \in BOOLEAN, VmAssignBegin(v, d, b) PROVE Good(sc')
  BY <1>4, AssignBeginKeeps
<1>5. ASSUME NEW v \in Vms, NEW d \in Devs, Unassign(v, d) PROVE Good(sc') BY <1>5, UnassignKeeps
<1>6. ASSUME NEW v \in Vms, NEW d \in Devs, NEW g \in Gpas, NEW n \in 1..Cardinality(Gpas), PptMapMmio(v, d, g, n)
      PROVE  Good(sc')
  <2>1. Cardinality(Gpas) \in Nat BY FS_CardinalityType DEF Params
  <2>2. n \in Nat /\ n > 0 BY <2>1
  <2> QED BY <1>6, <2>2, MapMmioKeeps
<1>7. ASSUME NEW v \in Vms, NEW d \in Devs, NEW n \in 0..Msgs, NEW got \in 0..Msgs, NEW l \in BOOLEAN, NEW s \in BOOLEAN,
             PptSetupMsi(v, d, n, l, s, got)
      PROVE  Good(sc')
  BY <1>7, SetupMsiKeeps
<1>8. ASSUME NEW v \in Vms, NEW d \in Devs, NEW k \in 1..Msgs, NEW m \in BOOLEAN, NEW s \in BOOLEAN, NEW g \in BOOLEAN,
             PptSetupMsix(v, d, k, m, s, g)
      PROVE  Good(sc')
  BY <1>8, SetupMsixKeeps
<1>9. ASSUME NEW v \in Vms, VmAssignEnd(v) PROVE Good(sc') BY <1>9, AssignEndKeeps
<1>10. ASSUME NEW v \in Vms, VmReinit(v) PROVE Good(sc') BY <1>10, ReinitKeeps
<1>11. ASSUME NEW v \in Vms, VmDestroy(v) PROVE Good(sc') BY <1>11, DestroyKeeps
<1>12. ASSUME NEW d \in Devs, PptAttach(d) PROVE Good(sc') BY <1>12, AttachKeeps
<1>13. ASSUME NEW d \in Devs, PptDetach(d) PROVE Good(sc') BY <1>13, DetachKeeps
<1> QED BY <1>1, <1>2, <1>3, <1>4, <1>5, <1>6, <1>7, <1>8, <1>9, <1>10, <1>11, <1>12, <1>13 DEF Next

LEMMA AlwaysGood ==
    ASSUME Params
    PROVE  PptSpec => []Good(sc)
<1>1. Init => Good(sc) BY InitGood
<1>2. Good(sc) /\ [Next]_sc => Good(sc)' BY NextKeepsGood
<1> QED BY <1>1, <1>2, PTL DEF PptSpec

\* No vm_mem_allocated() of any VM disagrees with what is mapped, and no
\* segment has lost or gained a reference, however the ioctls of any number of
\* VMs interleave, as long as no device was taken from under its owner.
THEOREM PassthruSpace ==
    ASSUME Params
    PROVE  PptSpec => []SpaceAgrees
<1>1. Good(sc) => SpaceAgrees
  <2> SUFFICES ASSUME Good(sc), Trusted PROVE SpaceAgrees BY DEF SpaceAgrees
  <2>1. Fine(sc) BY DEF Good, Trusted
  <2>2. \A v \in Vms : SpaceExact(sc, v) /\ RefsExact(sc, v) BY <2>1 DEF Fine, VmOk, VmCore
  <2> QED BY <2>2 DEF SpaceAgrees, SpaceExact, RefsExact, MapsOf
<1> QED BY <1>1, AlwaysGood, PTL

\* A page is in the host's domain or in that of one VM, never in both and never
\* in neither, unless the VM's first assignment was refused.
THEOREM PassthruPages ==
    ASSUME Params
    PROVE  PptSpec => []PageInOneDomain
<1>1. Good(sc) => PageInOneDomain
  <2> SUFFICES ASSUME Good(sc), Trusted, NEW v \in Vms \ sc.failed, NEW s \in DOMAIN Segs, NEW k \in 0..Segs[s] - 1
               PROVE  (<<v, s, k>> \in sc.host) <=> ~ \E u \in Vms : \E q \in sc.dom[u] : q[2] = <<v, s, k>>
    BY DEF PageInOneDomain
  <2>1. Fine(sc) BY DEF Good, Trusted
  <2>2. \A u \in Vms : DomainOwn(sc, u) BY <2>1 DEF Fine, VmOk, VmCore
  <2>3. DomainExact(sc, v) BY <2>1 DEF Fine, VmOk, VmCore
  <2>4. <<v, s, k>> \in PagesOf(v, s) BY DEF PagesOf
  <2>5. (<<v, s, k>> \in sc.host) <=> ~ \E q \in sc.dom[v] : q[2] = <<v, s, k>> BY <2>3, <2>4 DEF DomainExact
  <2>6. \A u \in Vms : \A q \in sc.dom[u] : q[2] = <<v, s, k>> => u = v
    <3> TAKE u \in Vms
    <3> TAKE q \in sc.dom[u]
    <3>1. q[2][1] = u BY <2>2 DEF DomainOwn
    <3>2. <<v, s, k>>[1] = v OBVIOUS
    <3> QED BY <3>1, <3>2
  <2> QED BY <2>5, <2>6
<1> QED BY <1>1, AlwaysGood, PTL

\* A device translates through the domain of its owner, of the host or of
\* nobody, and leaves its owner with no window, handler or vector.
THEOREM PassthruConfined ==
    ASSUME Params
    PROVE  PptSpec => []DeviceConfined
<1>1. Good(sc) => DeviceConfined
  <2> SUFFICES ASSUME Good(sc), Trusted PROVE DeviceConfined BY DEF DeviceConfined
  <2>1. Fine(sc) BY DEF Good, Trusted
  <2>2. \A d \in Devs : DevOk(sc, d) BY <2>1 DEF Fine
  <2> QED BY <2>2 DEF DeviceConfined, DevOk
<1> QED BY <1>1, AlwaysGood, PTL

-----------------------------------------------------------------------------
(* The vcpu threads and the checkpoint thread *)

LoopSpec == Loop!Init /\ [][Loop!Next]_sc

LoopParams == Loop!BSP \notin Aps

Leaving == {"ksusp", "delete", "signal", "check", "reset", "gone", "exit"}
Places  == Leaving \cup {"off", "born", "addwait", "run", "guest", "spinup", "addcpu", "debug", "idle", "parked"}
Stages  == {"idle", "pause", "wait", "save", "stopped", "resume", "kernel", "broadcast"}
PcT     == [Loop!Vcpus -> Places]
Threads == SUBSET Loop!Vcpus

LoopState ==
    [pc : PcT, active : Threads, cpumask : Threads, booting : Loop!Vcpus, debug : Threads, susp : BOOLEAN,
     ksusp : Threads, vactive : Threads, vidle : Threads, ckact : BOOLEAN, canrun : Threads, ck : Stages,
     idlewoken : BOOLEAN, bspwoken : BOOLEAN, raced : BOOLEAN, exited : BOOLEAN, n : Nat]

\* Where a thread is decides in which of the sets it is, and what only the boot
\* processor does.
ThreadOk(s, v) ==
    LET at == s.pc[v] IN
    /\ v \in s.vactive <=> at \notin {"off", "born"}
    /\ v \in s.vidle <=> at \in {"addwait", "idle", "parked"}
    /\ v \in s.cpumask <=> at \notin {"off", "signal", "check", "reset", "gone", "exit"}
    /\ at # "off" => v \in s.active
    /\ at \in {"spinup", "addcpu", "check", "reset", "exit"} => v = Loop!BSP
    /\ at = "signal" => v # Loop!BSP
    /\ at \in Leaving => s.susp
    /\ v \in s.canrun => at \in {"addwait", "parked"}
    /\ at \in {"addwait", "parked"} => v \in s.canrun \/ s.ck \notin {"idle", "pause"}

BootOk(s) ==
    /\ s.pc[Loop!BSP] \in {"spinup", "addcpu"} => s.booting \in Aps /\ s.pc[s.booting] = "off"
    /\ s.pc[Loop!BSP] = "addcpu" => s.booting \in s.active
    /\ s.bspwoken => s.pc[Loop!BSP] = "reset"
    /\ s.pc[Loop!BSP] = "reset" /\ ~s.bspwoken => \E v \in Aps : s.pc[v] \notin {"off", "gone"}
    /\ s.pc[Loop!BSP] = "exit" => s.exited /\ \A v \in Aps : s.pc[v] \in {"off", "signal", "gone"}

CheckpointOk(s) ==
    /\ s.ck \in {"wait", "save", "stopped"} => s.ckact
    /\ s.ckact => s.ck \in {"wait", "save", "stopped", "resume"}
    /\ s.ck \in {"save", "stopped"} => s.vactive = s.vidle
    /\ s.ck = "wait" /\ ~s.idlewoken => s.vactive # s.vidle
    /\ s.ckact /\ ~s.raced => ~s.susp
    /\ s.idlewoken => s.vactive # {}

LoopInv(s) == s \in LoopState /\ BootOk(s) /\ CheckpointOk(s) /\ \A v \in Loop!Vcpus : ThreadOk(s, v)

LEMMA LoopStarts ==
    ASSUME LoopParams, Loop!Init
    PROVE  LoopInv(sc)
<1>1. sc \in LoopState
  BY DEF Loop!Init, LoopState, PcT, Threads, Places, Stages, Leaving, Loop!Vcpus, Loop!BSP
<1>2. BootOk(sc) /\ CheckpointOk(sc) BY DEF Loop!Init, BootOk, CheckpointOk, Loop!Vcpus
<1>3. \A v \in Loop!Vcpus : ThreadOk(sc, v) BY DEF Loop!Init, ThreadOk, Leaving
<1> QED BY <1>1, <1>2, <1>3 DEF LoopInv

\* A thread that goes on disturbs neither the start of another nor the exit.
LEMMA BootFrame ==
    ASSUME LoopParams, NEW s \in LoopState, BootOk(s), ~s.exited, NEW v \in Loop!Vcpus, NEW l, NEW t,
           t.pc = [s.pc EXCEPT ![v] = l], t.booting = s.booting, t.bspwoken = s.bspwoken, s.active \subseteq t.active,
           s.pc[v] # "off", l \notin {"off", "gone"},
           v = Loop!BSP => s.pc[v] # "reset" /\ l \notin {"spinup", "addcpu", "reset", "exit"}
    PROVE  BootOk(t)
<1>1. s.pc \in PcT /\ s.booting \in Loop!Vcpus BY DEF LoopState
<1>2. t.pc[v] = l /\ \A u \in Loop!Vcpus \ {v} : t.pc[u] = s.pc[u] BY <1>1 DEF PcT
<1>3. Aps \subseteq Loop!Vcpus /\ Loop!BSP \in Loop!Vcpus BY DEF Loop!Vcpus
<1>4. s.pc[Loop!BSP] # "exit" BY DEF BootOk
<1>5. CASE v = Loop!BSP BY <1>2, <1>3, <1>5 DEF BootOk
<1>6. CASE v # Loop!BSP
  <2>1. t.pc[Loop!BSP] = s.pc[Loop!BSP] BY <1>2, <1>3, <1>6
  <2>2. t.pc[Loop!BSP] \in {"spinup", "addcpu"} => t.booting \in Aps /\ t.pc[t.booting] = "off"
    BY <1>1, <1>2, <2>1 DEF BootOk
  <2>3. t.pc[Loop!BSP] = "reset" /\ ~t.bspwoken => \E u \in Aps : t.pc[u] \notin {"off", "gone"}
    BY <1>2, <1>3, <2>1 DEF BootOk
  <2> QED BY <1>4, <2>1, <2>2, <2>3 DEF BootOk
<1> QED BY <1>5, <1>6

LEMMA AddKeeps ==
    ASSUME LoopParams, LoopInv(sc), NEW v \in Loop!Vcpus, Loop!CpuAdd(v)
    PROVE  LoopInv(sc')
<1>1. sc \in LoopState /\ ThreadOk(sc, v) /\ BootOk(sc) /\ CheckpointOk(sc) BY DEF LoopInv
<1>2. sc' \in LoopState
  BY <1>1 DEF Loop!CpuAdd, Loop!Goto, LoopState, PcT, Threads, Places
<1>3. ThreadOk(sc', v)
  BY <1>1 DEF Loop!CpuAdd, Loop!Goto, LoopState, PcT, Threads, ThreadOk, CheckpointOk, Leaving
<1>4. \A u \in Loop!Vcpus \ {v} : ThreadOk(sc, u) => ThreadOk(sc', u)
  BY <1>1 DEF Loop!CpuAdd, Loop!Goto, LoopState, PcT, Threads, ThreadOk, Leaving
<1>5. BootOk(sc')
  <2> DEFINE l == sc'.pc[v]
  <2>1. /\ sc'.pc = [sc.pc EXCEPT ![v] = l] /\ l \in {"addwait", "run"} /\ sc.pc[v] = "born" /\ ~sc.exited
        /\ sc'.booting = sc.booting /\ sc'.bspwoken = sc.bspwoken /\ sc'.active = sc.active
    BY <1>1 DEF Loop!CpuAdd, Loop!Goto, Loop!Alive, LoopState, PcT
  <2> HIDE DEF l
  <2> QED BY <1>1, <2>1, BootFrame
<1>6. CheckpointOk(sc')
  <2>1. /\ sc'.vactive = sc.vactive \cup {v} /\ sc'.vidle = (IF sc.ckact THEN sc.vidle \cup {v} ELSE sc.vidle)
        /\ sc'.ck = sc.ck /\ sc'.ckact = sc.ckact /\ sc'.idlewoken = sc.idlewoken /\ sc'.raced = sc.raced
        /\ sc'.susp = sc.susp /\ sc.pc[v] = "born"
    BY <1>1 DEF Loop!CpuAdd, Loop!Goto, LoopState
  <2>2. v \notin sc.vactive /\ v \notin sc.vidle BY <1>1, <2>1 DEF ThreadOk
  <2>3. sc.vactive # sc.vidle => sc.vactive \cup {v} # sc.vidle \cup {v} BY <2>2
  <2> QED BY <1>1, <2>1, <2>3 DEF CheckpointOk
<1> QED BY <1>2, <1>3, <1>4, <1>5, <1>6 DEF LoopInv


LEMMA CanRunKeeps ==
    ASSUME LoopParams, LoopInv(sc), NEW v \in Loop!Vcpus, Loop!CanRun(v)
    PROVE  LoopInv(sc')
<1>1. sc \in LoopState /\ ThreadOk(sc, v) /\ BootOk(sc) /\ CheckpointOk(sc) BY DEF LoopInv
<1>2. sc' \in LoopState BY <1>1 DEF Loop!CanRun, Loop!Goto, LoopState, PcT, Threads, Places
<1>3. sc.pc[v] \in {"addwait", "parked"} /\ ~sc.exited BY <1>1 DEF Loop!CanRun, Loop!Alive, ThreadOk
<1>4. ThreadOk(sc', v)
  BY <1>1, <1>3 DEF Loop!CanRun, Loop!Goto, LoopState, PcT, Threads, ThreadOk, CheckpointOk, Leaving
<1>5. \A u \in Loop!Vcpus \ {v} : ThreadOk(sc, u) => ThreadOk(sc', u)
  BY <1>1 DEF Loop!CanRun, Loop!Goto, LoopState, PcT, Threads, ThreadOk, Leaving
<1>6. BootOk(sc')
  <2> DEFINE l == sc'.pc[v]
  <2>1. /\ sc'.pc = [sc.pc EXCEPT ![v] = l] /\ l \in {"addwait", "parked", "run"}
        /\ sc'.booting = sc.booting /\ sc'.bspwoken = sc.bspwoken /\ sc'.active = sc.active
    BY <1>1, <1>3 DEF Loop!CanRun, Loop!Goto, LoopState, PcT
  <2> HIDE DEF l
  <2> QED BY <1>1, <1>3, <2>1, BootFrame
<1>7. CheckpointOk(sc')
  <2>1. /\ sc'.vactive = sc.vactive /\ sc'.vidle = (IF sc.ckact THEN sc.vidle ELSE sc.vidle \ {v})
        /\ sc'.ck = sc.ck /\ sc'.ckact = sc.ckact /\ sc'.idlewoken = sc.idlewoken /\ sc'.raced = sc.raced
        /\ sc'.susp = sc.susp
    BY <1>1 DEF Loop!CanRun, Loop!Goto, LoopState
  <2> QED BY <1>1, <2>1 DEF CheckpointOk
<1> QED BY <1>2, <1>4, <1>5, <1>6, <1>7 DEF LoopInv

LEMMA SpinupKeeps ==
    ASSUME LoopParams, LoopInv(sc), NEW v \in Aps, Loop!SpinupAp(v)
    PROVE  LoopInv(sc')
<1>0. v \in Loop!Vcpus /\ Loop!BSP \in Loop!Vcpus /\ v # Loop!BSP /\ Aps \subseteq Loop!Vcpus BY DEF Loop!Vcpus, LoopParams
<1>1. sc \in LoopState /\ BootOk(sc) /\ CheckpointOk(sc) /\ sc.pc \in PcT BY DEF LoopInv, LoopState
<1>2. /\ sc'.pc = [sc.pc EXCEPT ![Loop!BSP] = "spinup"] /\ sc'.booting = v
      /\ sc.pc[Loop!BSP] = "guest" /\ sc.pc[v] = "off"
      /\ sc'.bspwoken = sc.bspwoken
  BY <1>1 DEF Loop!SpinupAp, Loop!Goto, LoopState
<1>3. sc' \in LoopState BY <1>0, <1>1 DEF Loop!SpinupAp, Loop!Goto, LoopState, PcT, Places
<1>4. \A u \in Loop!Vcpus : ThreadOk(sc, u) => ThreadOk(sc', u)
  BY <1>0, <1>1, <1>2 DEF Loop!SpinupAp, Loop!Goto, LoopState, PcT, ThreadOk, Leaving
<1>5. sc'.pc[Loop!BSP] = "spinup" /\ sc'.pc[v] = "off" BY <1>0, <1>1, <1>2 DEF PcT
<1>6. BootOk(sc') BY <1>1, <1>2, <1>5 DEF BootOk
<1>7. CheckpointOk(sc') BY <1>1 DEF Loop!SpinupAp, Loop!Goto, LoopState, CheckpointOk
<1> QED BY <1>3, <1>4, <1>6, <1>7 DEF LoopInv

LEMMA ActivateKeeps ==
    ASSUME LoopParams, LoopInv(sc), Loop!Activate
    PROVE  LoopInv(sc')
<1>0. Loop!BSP \in Loop!Vcpus /\ Aps \subseteq Loop!Vcpus BY DEF Loop!Vcpus
<1>1. sc \in LoopState /\ BootOk(sc) /\ CheckpointOk(sc) /\ sc.pc \in PcT BY DEF LoopInv, LoopState
<1>2. /\ sc'.pc = [sc.pc EXCEPT ![Loop!BSP] = "addcpu"] /\ sc'.booting = sc.booting
      /\ sc.pc[Loop!BSP] = "spinup" /\ sc'.active = sc.active \cup {sc.booting}
      /\ sc'.bspwoken = sc.bspwoken
  BY <1>1 DEF Loop!Activate, Loop!Goto, LoopState
<1>3. sc.booting \in Aps /\ sc.pc[sc.booting] = "off" BY <1>1, <1>2 DEF BootOk
<1>4. sc' \in LoopState BY <1>0, <1>1, <1>3 DEF Loop!Activate, Loop!Goto, LoopState, PcT, Places, Threads
<1>5. \A u \in Loop!Vcpus : ThreadOk(sc, u) => ThreadOk(sc', u)
  BY <1>0, <1>1, <1>2 DEF Loop!Activate, Loop!Goto, LoopState, PcT, ThreadOk, Leaving
<1>6. sc'.pc[Loop!BSP] = "addcpu" /\ sc'.pc[sc.booting] = "off" BY <1>0, <1>1, <1>2, <1>3 DEF PcT
<1>7. BootOk(sc') BY <1>1, <1>2, <1>3, <1>6 DEF BootOk
<1>8. CheckpointOk(sc') BY <1>1 DEF Loop!Activate, Loop!Goto, LoopState, CheckpointOk
<1> QED BY <1>4, <1>5, <1>7, <1>8 DEF LoopInv

LEMMA AddCpuKeeps ==
    ASSUME LoopParams, LoopInv(sc), Loop!AddCpu
    PROVE  LoopInv(sc')
<1>0. Loop!BSP \in Loop!Vcpus /\ Aps \subseteq Loop!Vcpus BY DEF Loop!Vcpus
<1>1. sc \in LoopState /\ BootOk(sc) /\ CheckpointOk(sc) /\ sc.pc \in PcT BY DEF LoopInv, LoopState
<1> DEFINE b == sc.booting
<1>2. sc.pc[Loop!BSP] = "addcpu" /\ sc' = [Loop!Goto(Loop!Goto(sc, Loop!BSP, "run"), b, "born") EXCEPT !.cpumask = @ \cup {b}]
  BY DEF Loop!AddCpu
<1>3. b \in Aps /\ sc.pc[b] = "off" /\ b \in Loop!Vcpus /\ b # Loop!BSP /\ b \in sc.active
  BY <1>0, <1>1, <1>2 DEF BootOk, LoopParams
<1> HIDE DEF b
<1>4. /\ sc'.pc = [[sc.pc EXCEPT ![Loop!BSP] = "run"] EXCEPT ![b] = "born"] /\ sc'.cpumask = sc.cpumask \cup {b}
      /\ sc'.active = sc.active /\ sc'.booting = sc.booting /\ sc'.debug = sc.debug /\ sc'.susp = sc.susp
      /\ sc'.ksusp = sc.ksusp /\ sc'.vactive = sc.vactive /\ sc'.vidle = sc.vidle /\ sc'.ckact = sc.ckact
      /\ sc'.canrun = sc.canrun /\ sc'.ck = sc.ck /\ sc'.idlewoken = sc.idlewoken /\ sc'.bspwoken = sc.bspwoken
      /\ sc'.raced = sc.raced /\ sc'.exited = sc.exited
  BY <1>1, <1>2 DEF Loop!Goto, LoopState
<1>5. sc' \in LoopState BY <1>0, <1>1, <1>2, <1>3 DEF Loop!Goto, LoopState, PcT, Places, Threads
<1>6. /\ sc'.pc[Loop!BSP] = "run" /\ sc'.pc[b] = "born"
      /\ \A u \in Loop!Vcpus \ {b, Loop!BSP} : sc'.pc[u] = sc.pc[u]
  BY <1>0, <1>1, <1>3, <1>4 DEF PcT
<1>7. ThreadOk(sc, b) /\ ThreadOk(sc, Loop!BSP) BY <1>0, <1>3 DEF LoopInv
<1>8. ThreadOk(sc', b) BY <1>3, <1>4, <1>6, <1>7 DEF ThreadOk, Leaving
<1>9. ThreadOk(sc', Loop!BSP) BY <1>2, <1>3, <1>4, <1>6, <1>7 DEF ThreadOk, Leaving
<1>10. \A u \in Loop!Vcpus \ {b, Loop!BSP} : ThreadOk(sc, u) => ThreadOk(sc', u) BY <1>4, <1>6 DEF ThreadOk
<1>11. \A u \in Loop!Vcpus : ThreadOk(sc', u) BY <1>8, <1>9, <1>10 DEF LoopInv
<1>12. BootOk(sc') BY <1>1, <1>2, <1>4, <1>6 DEF BootOk
<1>13. CheckpointOk(sc') BY <1>1, <1>4 DEF CheckpointOk
<1> QED BY <1>5, <1>11, <1>12, <1>13 DEF LoopInv

LEMMA RunKeeps ==
    ASSUME LoopParams, LoopInv(sc), NEW v \in Loop!Vcpus, Loop!VmRun(v)
    PROVE  LoopInv(sc')
<1>1. sc \in LoopState /\ ThreadOk(sc, v) /\ BootOk(sc) /\ CheckpointOk(sc) /\ sc.pc \in PcT BY DEF LoopInv, LoopState
<1>2. sc.pc[v] \in {"run", "guest"} /\ ~sc.exited BY DEF Loop!VmRun, Loop!Alive
<1>3. PICK l \in {"ksusp", "debug", "guest"} :
        /\ sc' = [Loop!Goto(sc, v, l) EXCEPT !.ksusp = IF l = "ksusp" THEN @ \cup {v} ELSE @]
        /\ l = "ksusp" => sc.susp
  <2>1. CASE sc.susp BY <2>1 DEF Loop!VmRun
  <2>2. CASE ~sc.susp /\ v \in sc.debug
    <3>1. sc' = Loop!Goto(sc, v, "debug") BY <2>2 DEF Loop!VmRun
    <3>2. sc' = [Loop!Goto(sc, v, "debug") EXCEPT !.ksusp = @] BY <1>1, <3>1 DEF Loop!Goto, LoopState
    <3> QED BY <3>2
  <2>3. CASE ~sc.susp /\ v \notin sc.debug
    <3>1. sc' = Loop!Goto(sc, v, "guest") BY <2>3 DEF Loop!VmRun
    <3>2. sc' = [Loop!Goto(sc, v, "guest") EXCEPT !.ksusp = @] BY <1>1, <3>1 DEF Loop!Goto, LoopState
    <3> QED BY <3>2
  <2> QED BY <2>1, <2>2, <2>3
<1>4. /\ sc'.pc = [sc.pc EXCEPT ![v] = l] /\ sc'.cpumask = sc.cpumask
      /\ sc'.active = sc.active /\ sc'.booting = sc.booting /\ sc'.debug = sc.debug /\ sc'.susp = sc.susp
      /\ sc'.vactive = sc.vactive /\ sc'.vidle = sc.vidle /\ sc'.ckact = sc.ckact
      /\ sc'.canrun = sc.canrun /\ sc'.ck = sc.ck /\ sc'.idlewoken = sc.idlewoken /\ sc'.bspwoken = sc.bspwoken
      /\ sc'.raced = sc.raced /\ sc'.exited = sc.exited
  BY <1>1, <1>3 DEF Loop!Goto, LoopState
<1>5. sc' \in LoopState BY <1>1, <1>3, <1>4 DEF Loop!Goto, LoopState, PcT, Places, Leaving, Threads
<1>6. sc'.pc[v] = l /\ \A u \in Loop!Vcpus \ {v} : sc'.pc[u] = sc.pc[u] BY <1>1, <1>4 DEF PcT
<1>7. ThreadOk(sc', v) BY <1>1, <1>2, <1>3, <1>4, <1>6 DEF ThreadOk, Leaving
<1>8. \A u \in Loop!Vcpus \ {v} : ThreadOk(sc, u) => ThreadOk(sc', u) BY <1>4, <1>6 DEF ThreadOk
<1>9. BootOk(sc') BY <1>1, <1>2, <1>4, BootFrame
<1>10. CheckpointOk(sc') BY <1>1, <1>4 DEF CheckpointOk
<1> QED BY <1>5, <1>7, <1>8, <1>9, <1>10 DEF LoopInv

LEMMA SuspendKeeps ==
    ASSUME LoopParams, LoopInv(sc), NEW v \in Loop!Vcpus, Loop!Suspend(v)
    PROVE  LoopInv(sc')
<1>1. sc \in LoopState /\ ThreadOk(sc, v) /\ BootOk(sc) /\ CheckpointOk(sc) /\ sc.pc \in PcT BY DEF LoopInv, LoopState
<1>2. sc.pc[v] = "guest" /\ ~sc.exited BY DEF Loop!Suspend, Loop!Alive
<1>3. /\ sc'.pc = [sc.pc EXCEPT ![v] = "run"] /\ sc'.cpumask = sc.cpumask
      /\ sc'.active = sc.active /\ sc'.booting = sc.booting /\ sc'.debug = sc.debug /\ sc'.susp = TRUE
      /\ sc'.vactive = sc.vactive /\ sc'.vidle = sc.vidle /\ sc'.ckact = sc.ckact
      /\ sc'.canrun = sc.canrun /\ sc'.ck = sc.ck /\ sc'.idlewoken = sc.idlewoken /\ sc'.bspwoken = sc.bspwoken
      /\ sc'.raced = (sc.raced \/ sc.ckact) /\ sc'.exited = sc.exited
  BY <1>1 DEF Loop!Suspend, Loop!Goto, LoopState
<1>4. sc' \in LoopState BY <1>1 DEF Loop!Suspend, Loop!Goto, LoopState, PcT, Places
<1>5. sc'.pc[v] = "run" /\ \A u \in Loop!Vcpus \ {v} : sc'.pc[u] = sc.pc[u] BY <1>1, <1>3 DEF PcT
<1>6. ThreadOk(sc', v) BY <1>1, <1>2, <1>3, <1>5 DEF ThreadOk
<1>7. \A u \in Loop!Vcpus \ {v} : ThreadOk(sc, u) => ThreadOk(sc', u) BY <1>3, <1>5 DEF ThreadOk
<1>8. BootOk(sc') BY <1>1, <1>2, <1>3, BootFrame
<1>9. CheckpointOk(sc') BY <1>1, <1>3 DEF CheckpointOk
<1> QED BY <1>4, <1>6, <1>7, <1>8, <1>9 DEF LoopInv

LEMMA SuspendedKeeps ==
    ASSUME LoopParams, LoopInv(sc), NEW v \in Loop!Vcpus, Loop!Suspended(v)
    PROVE  LoopInv(sc')
<1>1. sc \in LoopState /\ ThreadOk(sc, v) /\ BootOk(sc) /\ CheckpointOk(sc) /\ sc.pc \in PcT BY DEF LoopInv, LoopState
<1>2. sc.pc[v] = "ksusp" /\ ~sc.exited BY DEF Loop!Suspended, Loop!Alive
<1>3. /\ sc'.pc = [sc.pc EXCEPT ![v] = "delete"] /\ sc'.cpumask = sc.cpumask
      /\ sc'.active = sc.active /\ sc'.booting = sc.booting /\ sc'.susp = sc.susp
      /\ sc'.vactive = sc.vactive /\ sc'.vidle = sc.vidle /\ sc'.ckact = sc.ckact
      /\ sc'.canrun = sc.canrun /\ sc'.ck = sc.ck /\ sc'.idlewoken = sc.idlewoken /\ sc'.bspwoken = sc.bspwoken
      /\ sc'.raced = sc.raced /\ sc'.exited = sc.exited
  BY <1>1 DEF Loop!Suspended, Loop!Goto, LoopState
<1>4. sc' \in LoopState BY <1>1 DEF Loop!Suspended, Loop!Goto, LoopState, PcT, Places, Leaving
<1>5. sc'.pc[v] = "delete" /\ \A u \in Loop!Vcpus \ {v} : sc'.pc[u] = sc.pc[u] BY <1>1, <1>3 DEF PcT
<1>6. ThreadOk(sc', v) BY <1>1, <1>2, <1>3, <1>5 DEF ThreadOk, Leaving
<1>7. \A u \in Loop!Vcpus \ {v} : ThreadOk(sc, u) => ThreadOk(sc', u) BY <1>3, <1>5 DEF ThreadOk
<1>8. BootOk(sc') BY <1>1, <1>2, <1>3, BootFrame
<1>9. CheckpointOk(sc') BY <1>1, <1>3 DEF CheckpointOk
<1> QED BY <1>4, <1>6, <1>7, <1>8, <1>9 DEF LoopInv

LEMMA ParkKeeps ==
    ASSUME LoopParams, LoopInv(sc), NEW v \in Loop!Vcpus, Loop!CpuSuspend(v)
    PROVE  LoopInv(sc')
<1>1. sc \in LoopState /\ ThreadOk(sc, v) /\ BootOk(sc) /\ CheckpointOk(sc) /\ sc.pc \in PcT BY DEF LoopInv, LoopState
<1>2. sc.pc[v] = "debug" /\ ~sc.exited BY DEF Loop!CpuSuspend, Loop!Alive
<1>3. /\ sc'.pc = [sc.pc EXCEPT ![v] = "idle"] /\ sc'.cpumask = sc.cpumask
      /\ sc'.active = sc.active /\ sc'.booting = sc.booting /\ sc'.susp = sc.susp
      /\ sc'.vactive = sc.vactive /\ sc'.vidle = sc.vidle \cup {v} /\ sc'.ckact = sc.ckact
      /\ sc'.canrun = sc.canrun /\ sc'.ck = sc.ck /\ sc'.bspwoken = sc.bspwoken
      /\ sc'.idlewoken = (sc.idlewoken \/ (sc.ck = "wait" /\ sc.ckact /\ sc.vactive = sc.vidle \cup {v}))
      /\ sc'.raced = sc.raced /\ sc'.exited = sc.exited
  BY <1>1 DEF Loop!CpuSuspend, Loop!Goto, LoopState
<1>4. sc' \in LoopState BY <1>1 DEF Loop!CpuSuspend, Loop!Goto, LoopState, PcT, Places, Threads
<1>5. sc'.pc[v] = "idle" /\ \A u \in Loop!Vcpus \ {v} : sc'.pc[u] = sc.pc[u] BY <1>1, <1>3 DEF PcT
<1>6. ThreadOk(sc', v) BY <1>1, <1>2, <1>3, <1>5 DEF ThreadOk, Leaving
<1>7. \A u \in Loop!Vcpus \ {v} : ThreadOk(sc, u) => ThreadOk(sc', u) BY <1>3, <1>5 DEF ThreadOk
<1>8. BootOk(sc') BY <1>1, <1>2, <1>3, BootFrame
<1>9. v \in sc.vactive /\ v \notin sc.vidle BY <1>1, <1>2 DEF ThreadOk
<1>10. CheckpointOk(sc') BY <1>1, <1>3, <1>9 DEF CheckpointOk
<1> QED BY <1>4, <1>6, <1>7, <1>8, <1>10 DEF LoopInv

LEMMA UnparkKeeps ==
    ASSUME LoopParams, LoopInv(sc), NEW v \in Loop!Vcpus, Loop!CpuResume(v)
    PROVE  LoopInv(sc')
<1>1. sc \in LoopState /\ ThreadOk(sc, v) /\ BootOk(sc) /\ CheckpointOk(sc) /\ sc.pc \in PcT BY DEF LoopInv, LoopState
<1> DEFINE l == IF sc.ckact THEN "parked" ELSE "run"
<1>2. sc.pc[v] = "idle" /\ ~sc.exited BY DEF Loop!CpuResume, Loop!Alive
<1>3. /\ sc'.pc = [sc.pc EXCEPT ![v] = l] /\ sc'.cpumask = sc.cpumask
      /\ sc'.active = sc.active /\ sc'.booting = sc.booting /\ sc'.susp = sc.susp
      /\ sc'.vactive = sc.vactive /\ sc'.vidle = (IF sc.ckact THEN sc.vidle ELSE sc.vidle \ {v}) /\ sc'.ckact = sc.ckact
      /\ sc'.canrun = sc.canrun /\ sc'.ck = sc.ck /\ sc'.idlewoken = sc.idlewoken /\ sc'.bspwoken = sc.bspwoken
      /\ sc'.raced = sc.raced /\ sc'.exited = sc.exited
  BY <1>1 DEF Loop!CpuResume, Loop!Goto, LoopState
<1>4. sc' \in LoopState BY <1>1 DEF Loop!CpuResume, Loop!Goto, LoopState, PcT, Places, Threads
<1>5. sc'.pc[v] = l /\ \A u \in Loop!Vcpus \ {v} : sc'.pc[u] = sc.pc[u] BY <1>1, <1>3 DEF PcT
<1>6. ThreadOk(sc', v) BY <1>1, <1>2, <1>3, <1>5 DEF ThreadOk, Leaving, CheckpointOk
<1>7. \A u \in Loop!Vcpus \ {v} : ThreadOk(sc, u) => ThreadOk(sc', u) BY <1>3, <1>5 DEF ThreadOk
<1>8. BootOk(sc') BY <1>1, <1>2, <1>3, BootFrame
<1>9. CheckpointOk(sc') BY <1>1, <1>3 DEF CheckpointOk
<1> QED BY <1>4, <1>6, <1>7, <1>8, <1>9 DEF LoopInv

LEMMA DeleteKeeps ==
    ASSUME LoopParams, LoopInv(sc), NEW v \in Loop!Vcpus, Loop!DeleteCpu(v)
    PROVE  LoopInv(sc')
<1>1. sc \in LoopState /\ ThreadOk(sc, v) /\ BootOk(sc) /\ CheckpointOk(sc) /\ sc.pc \in PcT BY DEF LoopInv, LoopState
<1> DEFINE l == IF v = Loop!BSP THEN "check" ELSE "signal"
<1>2. sc.pc[v] = "delete" /\ ~sc.exited BY DEF Loop!DeleteCpu, Loop!Alive
<1>3. /\ sc'.pc = [sc.pc EXCEPT ![v] = l] /\ sc'.cpumask = sc.cpumask \ {v}
      /\ sc'.active = sc.active /\ sc'.booting = sc.booting /\ sc'.susp = sc.susp
      /\ sc'.vactive = sc.vactive /\ sc'.vidle = sc.vidle /\ sc'.ckact = sc.ckact
      /\ sc'.canrun = sc.canrun /\ sc'.ck = sc.ck /\ sc'.idlewoken = sc.idlewoken /\ sc'.bspwoken = sc.bspwoken
      /\ sc'.raced = sc.raced /\ sc'.exited = sc.exited
  BY <1>1 DEF Loop!DeleteCpu, Loop!Goto, LoopState
<1>4. sc' \in LoopState BY <1>1 DEF Loop!DeleteCpu, Loop!Goto, LoopState, PcT, Places, Leaving, Threads
<1>5. sc'.pc[v] = l /\ \A u \in Loop!Vcpus \ {v} : sc'.pc[u] = sc.pc[u] BY <1>1, <1>3 DEF PcT
<1>6. ThreadOk(sc', v) BY <1>1, <1>2, <1>3, <1>5 DEF ThreadOk, Leaving
<1>7. \A u \in Loop!Vcpus \ {v} : ThreadOk(sc, u) => ThreadOk(sc', u) BY <1>3, <1>5 DEF ThreadOk
<1>8. BootOk(sc') BY <1>1, <1>2, <1>3, BootFrame
<1>9. CheckpointOk(sc') BY <1>1, <1>3 DEF CheckpointOk
<1> QED BY <1>4, <1>6, <1>7, <1>8, <1>9 DEF LoopInv

LEMMA SignalKeeps ==
    ASSUME LoopParams, LoopInv(sc), NEW v \in Loop!Vcpus, Loop!Signal(v)
    PROVE  LoopInv(sc')
<1>1. sc \in LoopState /\ ThreadOk(sc, v) /\ BootOk(sc) /\ CheckpointOk(sc) /\ sc.pc \in PcT BY DEF LoopInv, LoopState
<1>2. sc.pc[v] = "signal" /\ ~sc.exited /\ v # Loop!BSP BY DEF Loop!Signal, Loop!Alive
<1>3. /\ sc'.pc = [sc.pc EXCEPT ![v] = "gone"] /\ sc'.cpumask = sc.cpumask
      /\ sc'.active = sc.active /\ sc'.booting = sc.booting /\ sc'.susp = sc.susp
      /\ sc'.vactive = sc.vactive /\ sc'.vidle = sc.vidle /\ sc'.ckact = sc.ckact
      /\ sc'.canrun = sc.canrun /\ sc'.ck = sc.ck /\ sc'.idlewoken = sc.idlewoken
      /\ sc'.bspwoken = (sc.bspwoken \/ sc.pc[Loop!BSP] = "reset")
      /\ sc'.raced = sc.raced /\ sc'.exited = sc.exited
  BY <1>1 DEF Loop!Signal, Loop!Goto, LoopState
<1>4. sc' \in LoopState BY <1>1 DEF Loop!Signal, Loop!Goto, LoopState, PcT, Places, Leaving
<1>5. sc'.pc[v] = "gone" /\ \A u \in Loop!Vcpus \ {v} : sc'.pc[u] = sc.pc[u] BY <1>1, <1>3 DEF PcT
<1>6. ThreadOk(sc', v) BY <1>1, <1>2, <1>3, <1>5 DEF ThreadOk, Leaving
<1>7. \A u \in Loop!Vcpus \ {v} : ThreadOk(sc, u) => ThreadOk(sc', u) BY <1>3, <1>5 DEF ThreadOk
<1>8. BootOk(sc')
  <2>1. sc'.pc[Loop!BSP] = sc.pc[Loop!BSP] BY <1>2, <1>5 DEF Loop!Vcpus
  <2>2. sc'.pc[Loop!BSP] \in {"spinup", "addcpu"} => sc'.booting \in Aps /\ sc'.pc[sc'.booting] = "off"
    BY <1>1, <1>2, <1>3, <1>5, <2>1 DEF BootOk, LoopState
  <2>3. sc'.pc[Loop!BSP] = "reset" => sc'.bspwoken BY <1>3, <2>1
  <2>4. sc'.pc[Loop!BSP] # "exit" BY <1>1, <1>2, <2>1 DEF BootOk
  <2> QED BY <1>1, <1>3, <2>1, <2>2, <2>3, <2>4 DEF BootOk
<1>9. CheckpointOk(sc') BY <1>1, <1>3 DEF CheckpointOk
<1> QED BY <1>4, <1>6, <1>7, <1>8, <1>9 DEF LoopInv

LEMMA ResetCheckKeeps ==
    ASSUME LoopParams, LoopInv(sc), Loop!ResetCheck
    PROVE  LoopInv(sc')
<1> DEFINE v == Loop!BSP
           l == IF sc.cpumask = {} THEN "exit" ELSE "reset"
<1>0. v \in Loop!Vcpus /\ Aps \subseteq Loop!Vcpus /\ Loop!Vcpus = Aps \cup {v} /\ v \notin Aps BY DEF Loop!Vcpus, LoopParams
<1>1. sc \in LoopState /\ ThreadOk(sc, v) /\ BootOk(sc) /\ CheckpointOk(sc) /\ sc.pc \in PcT BY <1>0 DEF LoopInv, LoopState
<1>2. sc.pc[v] \in {"check", "reset"} /\ ~sc.exited BY <1>1 DEF Loop!ResetCheck, Loop!Alive, BootOk
<1>3. /\ sc'.pc = [sc.pc EXCEPT ![v] = l] /\ sc'.cpumask = sc.cpumask
      /\ sc'.active = sc.active /\ sc'.booting = sc.booting /\ sc'.susp = sc.susp
      /\ sc'.vactive = sc.vactive /\ sc'.vidle = sc.vidle /\ sc'.ckact = sc.ckact
      /\ sc'.canrun = sc.canrun /\ sc'.ck = sc.ck /\ sc'.idlewoken = sc.idlewoken /\ sc'.bspwoken = FALSE
      /\ sc'.raced = sc.raced /\ (l = "exit" => sc'.exited = TRUE)
  BY <1>1 DEF Loop!ResetCheck, Loop!Goto, LoopState
<1>4. sc' \in LoopState BY <1>0, <1>1 DEF Loop!ResetCheck, Loop!Goto, LoopState, PcT, Places, Leaving
<1> HIDE DEF v
<1>5. sc'.pc[v] = l /\ \A u \in Loop!Vcpus \ {v} : sc'.pc[u] = sc.pc[u] BY <1>0, <1>1, <1>3 DEF PcT
<1>6. ThreadOk(sc', v) BY <1>1, <1>2, <1>3, <1>5 DEF ThreadOk, Leaving, v
<1>7. \A u \in Loop!Vcpus \ {v} : ThreadOk(sc, u) => ThreadOk(sc', u) BY <1>3, <1>5 DEF ThreadOk
<1>8. \A u \in Aps : ThreadOk(sc, u) /\ u \in Loop!Vcpus \ {v} BY <1>0 DEF LoopInv
<1>9. BootOk(sc')
  <2>1. CASE sc.cpumask = {}
    <3>1. \A u \in Aps : sc.pc[u] \in {"off", "signal", "gone"} BY <1>0, <1>8, <2>1 DEF ThreadOk, v
    <3>2. \A u \in Aps : sc'.pc[u] \in {"off", "signal", "gone"} BY <1>5, <1>8, <3>1
    <3> QED BY <1>3, <1>5, <2>1, <3>2 DEF BootOk, v
  <2>2. CASE sc.cpumask # {}
    <3>1. PICK u \in sc.cpumask : TRUE BY <2>2
    <3>2. u \in Loop!Vcpus BY <1>1, <3>1 DEF LoopState, Threads
    <3>3. v \notin sc.cpumask BY <1>1, <1>2 DEF ThreadOk
    <3>4. u \in Aps BY <1>0, <3>1, <3>2, <3>3
    <3>5. sc.pc[u] \notin {"off", "gone"} BY <1>8, <3>1, <3>4 DEF ThreadOk
    <3>6. sc'.pc[u] \notin {"off", "gone"} BY <1>5, <1>8, <3>4, <3>5
    <3> QED BY <1>3, <1>5, <2>2, <3>4, <3>6 DEF BootOk, v
  <2> QED BY <2>1, <2>2
<1>10. CheckpointOk(sc') BY <1>1, <1>3 DEF CheckpointOk
<1> QED BY <1>4, <1>6, <1>7, <1>9, <1>10 DEF LoopInv

\* The checkpoint thread moves no vcpu.
CkStep(s, t) ==
    /\ t \in LoopState
    /\ t.pc = s.pc /\ t.cpumask = s.cpumask /\ t.active = s.active /\ t.booting = s.booting /\ t.susp = s.susp
    /\ t.vactive = s.vactive /\ t.vidle = s.vidle /\ t.bspwoken = s.bspwoken /\ (s.exited => t.exited)

LEMMA CkFrame ==
    ASSUME LoopInv(sc), NEW t, CkStep(sc, t), CheckpointOk(t),
           \A v \in Loop!Vcpus :
               /\ v \in t.canrun => sc.pc[v] \in {"addwait", "parked"}
               /\ sc.pc[v] \in {"addwait", "parked"} => v \in t.canrun \/ t.ck \notin {"idle", "pause"}
    PROVE  LoopInv(t)
<1>1. BootOk(t) BY DEF LoopInv, BootOk, CkStep
<1>2. \A v \in Loop!Vcpus : ThreadOk(t, v) BY DEF LoopInv, ThreadOk, CkStep
<1> QED BY <1>1, <1>2 DEF LoopInv, CkStep

LEMMA CheckpointKeeps ==
    ASSUME LoopParams, LoopInv(sc), Loop!Checkpoint
    PROVE  LoopInv(sc')
<1>1. sc \in LoopState /\ CheckpointOk(sc) BY DEF LoopInv
<1>2. \A v \in Loop!Vcpus : /\ v \in sc.canrun => sc.pc[v] \in {"addwait", "parked"}
                            /\ sc.pc[v] \in {"addwait", "parked"} => v \in sc.canrun \/ sc.ck \notin {"idle", "pause"}
  BY DEF LoopInv, ThreadOk
<1>3. ASSUME NEW opened \in BOOLEAN, Loop!Request(opened) PROVE LoopInv(sc')
  <2> DEFINE x == IF opened THEN "pause" ELSE "resume"
  <2>0. sc' = [sc EXCEPT !.n = @ + 1, !.ck = x] /\ x \in Stages BY <1>3 DEF Loop!Request, Stages
  <2> HIDE DEF x
  <2> DEFINE k == sc.n + 1
  <2>1. k \in Nat BY <1>1 DEF LoopState
  <2>2. sc' = [sc EXCEPT !.n = k, !.ck = x] BY <1>1, <2>0 DEF LoopState
  <2> HIDE DEF k
  <2>3. sc' \in LoopState BY <1>1, <2>0, <2>1, <2>2 DEF LoopState
  <2>4. /\ sc'.pc = sc.pc /\ sc'.cpumask = sc.cpumask /\ sc'.active = sc.active /\ sc'.booting = sc.booting
        /\ sc'.susp = sc.susp /\ sc'.vactive = sc.vactive /\ sc'.vidle = sc.vidle /\ sc'.bspwoken = sc.bspwoken
        /\ sc'.exited = sc.exited
    BY <1>1, <2>2 DEF LoopState
  <2>5. CkStep(sc, sc') BY <2>3, <2>4 DEF CkStep
  <2>6. CheckpointOk(sc') BY <1>1, <1>3 DEF Loop!Request, LoopState, CheckpointOk
  <2>7. sc'.canrun = sc.canrun /\ sc.ck = "idle" BY <1>1, <1>3 DEF Loop!Request, LoopState
  <2> QED BY <1>2, <2>5, <2>6, <2>7, CkFrame
<1>4. CASE Loop!VcpuPause
  <2>1. CkStep(sc, sc') BY <1>1, <1>4 DEF Loop!VcpuPause, CkStep, LoopState, Stages
  <2>2. /\ sc.ck = "pause" /\ sc'.canrun = sc.canrun /\ sc'.ckact = TRUE /\ sc'.raced = (sc.raced \/ sc.susp)
        /\ sc'.ck = (IF sc.vactive = sc.vidle THEN "save" ELSE "wait") /\ sc'.idlewoken = sc.idlewoken
        /\ sc'.vactive = sc.vactive /\ sc'.vidle = sc.vidle /\ sc'.susp = sc.susp
    BY <1>1, <1>4 DEF Loop!VcpuPause, LoopState
  <2>3. CheckpointOk(sc') BY <1>1, <2>2 DEF CheckpointOk
  <2> QED BY <1>2, <2>1, <2>2, <2>3, CkFrame
<1>5. CASE Loop!PauseWoken
  <2>1. CkStep(sc, sc') BY <1>1, <1>5 DEF Loop!PauseWoken, CkStep, LoopState, Stages
  <2>2. CheckpointOk(sc') BY <1>1, <1>5 DEF Loop!PauseWoken, LoopState, CheckpointOk
  <2>3. sc'.canrun = sc.canrun /\ sc'.ck \in {"save", "wait"} BY <1>1, <1>5 DEF Loop!PauseWoken, LoopState
  <2> QED BY <1>2, <2>1, <2>2, <2>3, CkFrame
<1>6. ASSUME NEW stop \in BOOLEAN, Loop!Save(stop) PROVE LoopInv(sc')
  <2>1. CkStep(sc, sc') BY <1>1, <1>6 DEF Loop!Save, CkStep, LoopState, Stages
  <2>2. CheckpointOk(sc') BY <1>1, <1>6 DEF Loop!Save, LoopState, CheckpointOk
  <2>3. sc'.canrun = sc.canrun /\ sc'.ck \in {"stopped", "resume"} BY <1>1, <1>6 DEF Loop!Save, LoopState
  <2> QED BY <1>2, <2>1, <2>2, <2>3, CkFrame
<1>7. CASE Loop!ResumeFlag
  <2>1. CkStep(sc, sc') BY <1>1, <1>7 DEF Loop!ResumeFlag, CkStep, LoopState, Stages
  <2>2. CheckpointOk(sc') BY <1>1, <1>7 DEF Loop!ResumeFlag, LoopState, CheckpointOk
  <2>3. sc'.canrun = sc.canrun /\ sc'.ck = "kernel" BY <1>1, <1>7 DEF Loop!ResumeFlag, LoopState
  <2> QED BY <1>2, <2>1, <2>2, <2>3, CkFrame
<1>8. CASE Loop!ResumeKernel
  <2>1. CkStep(sc, sc') BY <1>1, <1>8 DEF Loop!ResumeKernel, CkStep, LoopState, Stages, Threads
  <2>2. CheckpointOk(sc') BY <1>1, <1>8 DEF Loop!ResumeKernel, LoopState, CheckpointOk
  <2>3. sc'.canrun = sc.canrun /\ sc'.ck = "broadcast" BY <1>1, <1>8 DEF Loop!ResumeKernel, LoopState
  <2> QED BY <1>2, <2>1, <2>2, <2>3, CkFrame
<1>9. CASE Loop!Broadcast
  <2>1. CkStep(sc, sc') BY <1>1, <1>9 DEF Loop!Broadcast, Loop!Waiters, CkStep, LoopState, Stages, Threads
  <2>2. CheckpointOk(sc') BY <1>1, <1>9 DEF Loop!Broadcast, LoopState, CheckpointOk
  <2>3. \A v \in Loop!Vcpus : v \in sc'.canrun <=> sc.pc[v] \in {"addwait", "parked"}
    BY <1>1, <1>9 DEF Loop!Broadcast, Loop!Waiters, LoopState
  <2> QED BY <2>1, <2>2, <2>3, CkFrame
<1> QED BY <1>3, <1>4, <1>5, <1>6, <1>7, <1>8, <1>9 DEF Loop!Checkpoint

LEMMA LoopKeeps ==
    ASSUME LoopParams, LoopInv(sc), [Loop!Next]_sc
    PROVE  LoopInv(sc')
<1>1. CASE UNCHANGED sc BY <1>1
<1>2. ASSUME NEW v \in Loop!Vcpus, Loop!Vcpu(v) PROVE LoopInv(sc')
  BY <1>2, AddKeeps, CanRunKeeps, RunKeeps, SuspendKeeps, SuspendedKeeps, ParkKeeps, UnparkKeeps, DeleteKeeps,
     SignalKeeps DEF Loop!Vcpu
<1>3. CASE Loop!Boot BY <1>3, SpinupKeeps, ActivateKeeps, AddCpuKeeps, ResetCheckKeeps DEF Loop!Boot
<1>4. CASE Loop!Checkpoint BY <1>4, CheckpointKeeps
<1> QED BY <1>1, <1>2, <1>3, <1>4 DEF Loop!Next

LEMMA LoopAlways ==
    ASSUME LoopParams
    PROVE  LoopSpec => []LoopInv(sc)
<1>1. Loop!Init => LoopInv(sc) BY LoopStarts
<1>2. LoopInv(sc) /\ [Loop!Next]_sc => LoopInv(sc)' BY LoopKeeps
<1> QED BY <1>1, <1>2, PTL DEF LoopSpec

\* A checkpoint saves only vcpus that stand still, for any number of vcpus,
\* also of those started after the request; whoever waits for its end is woken,
\* and the pause does not sleep through the last vcpu's report.
THEOREM CheckpointSafe ==
    ASSUME LoopParams
    PROVE  LoopSpec => [](Loop!SavedIsStill /\ Loop!ParkedIsWoken /\ Loop!PauseIsWoken /\ Loop!PauseHasHope)
<1>1. LoopInv(sc) => Loop!SavedIsStill /\ Loop!ParkedIsWoken /\ Loop!PauseIsWoken /\ Loop!PauseHasHope
  <2> SUFFICES ASSUME LoopInv(sc)
               PROVE  Loop!SavedIsStill /\ Loop!ParkedIsWoken /\ Loop!PauseIsWoken /\ Loop!PauseHasHope
    OBVIOUS
  <2>1. sc \in LoopState /\ CheckpointOk(sc) /\ \A v \in Loop!Vcpus : ThreadOk(sc, v) BY DEF LoopInv
  <2>2. sc.pc \in PcT /\ sc.ck \in Stages /\ sc.vactive \subseteq Loop!Vcpus /\ sc.vidle \subseteq Loop!Vcpus
    BY <2>1 DEF LoopState, Threads
  <2>3. Loop!SavedIsStill BY <2>1 DEF Loop!SavedIsStill, CheckpointOk, ThreadOk
  <2>4. Loop!ParkedIsWoken BY <2>1, <2>2 DEF Loop!ParkedIsWoken, Loop!Waiters, ThreadOk, Stages
  <2>5. Loop!PauseIsWoken BY <2>1 DEF Loop!PauseIsWoken, CheckpointOk
  <2>6. ASSUME sc.ck = "wait", ~sc.raced
        PROVE  \E v \in sc.vactive : sc.pc[v] \in {"run", "guest", "spinup", "addcpu", "debug"} \/ sc.idlewoken
    <3>1. ~sc.susp BY <2>1, <2>6 DEF CheckpointOk
    <3>2. CASE sc.idlewoken BY <2>1, <3>2 DEF CheckpointOk
    <3>3. CASE ~sc.idlewoken
      <4>1. sc.vactive # sc.vidle BY <2>1, <2>6, <3>3 DEF CheckpointOk
      <4>2. sc.vidle \subseteq sc.vactive BY <2>1, <2>2 DEF ThreadOk
      <4>3. PICK v \in sc.vactive : v \notin sc.vidle BY <4>1, <4>2
      <4>4. v \in Loop!Vcpus BY <2>2, <4>3
      <4>5. ThreadOk(sc, v) /\ sc.pc[v] \in Places BY <2>1, <2>2, <4>4 DEF PcT
      <4>6. sc.pc[v] \in {"run", "guest", "spinup", "addcpu", "debug"}
        BY <3>1, <4>3, <4>5 DEF ThreadOk, Places
      <4> QED BY <4>3, <4>6
    <3> QED BY <3>2, <3>3
  <2>7. Loop!PauseHasHope BY <2>6 DEF Loop!PauseHasHope
  <2> QED BY <2>3, <2>4, <2>5, <2>7
<1> QED BY <1>1, LoopAlways, PTL

\* The boot processor waits only for threads that will still signal it and ends
\* the process only when all have left their loop; a running vcpu is active.
THEOREM ShutdownSafe ==
    ASSUME LoopParams
    PROVE  LoopSpec => [](Loop!TypeOK /\ Loop!ExitIsReached /\ Loop!ExitsLast /\ Loop!LoopAsserts)
<1>1. LoopInv(sc) => Loop!TypeOK /\ Loop!ExitIsReached /\ Loop!ExitsLast /\ Loop!LoopAsserts
  <2> SUFFICES ASSUME LoopInv(sc) PROVE Loop!TypeOK /\ Loop!ExitIsReached /\ Loop!ExitsLast /\ Loop!LoopAsserts
    OBVIOUS
  <2>1. sc \in LoopState /\ BootOk(sc) /\ \A v \in Loop!Vcpus : ThreadOk(sc, v) BY DEF LoopInv
  <2>2. sc.pc \in PcT /\ sc.vactive \subseteq Loop!Vcpus /\ sc.vidle \subseteq Loop!Vcpus /\ sc.canrun \subseteq Loop!Vcpus
    BY <2>1 DEF LoopState, Threads
  <2>3. sc.vidle \subseteq sc.vactive BY <2>1, <2>2 DEF ThreadOk
  <2>4. Loop!TypeOK BY <2>2, <2>3 DEF Loop!TypeOK, PcT, Places, Leaving
  <2>5. Loop!ExitIsReached /\ Loop!ExitsLast BY <2>1 DEF BootOk, Loop!ExitIsReached, Loop!ExitsLast
  <2>6. Loop!LoopAsserts BY <2>1 DEF ThreadOk, Loop!LoopAsserts
  <2> QED BY <2>4, <2>5, <2>6
<1> QED BY <1>1, LoopAlways, PTL

-----------------------------------------------------------------------------
(* The INTx lines of emulated devices *)

IntxSpec == Intx!Init /\ [][Intx!Next]_sc

Pci == Intx!Devs

\* Routing needs an interrupt the router may use; pins of the router and of the
\* I/O APIC are numbered as in the code.
IntxParams ==
    /\ IsFiniteSet(Pci) /\ Order \in Seq(Pci) /\ Slot \in [Pci -> Nat]
    /\ IntPins \subseteq Nat /\ IntPins # {}
    /\ IsFiniteSet(Pirqs) /\ Pirqs # {} /\ Pirqs = 1..Cardinality(Pirqs)
    /\ Irqs \subseteq Nat /\ \E i \in Irqs : i \in Permitted /\ i \notin Reserved
    /\ Ioapics \in Nat \ {0}

Pins    == 0..(Ioapics - 1)
RegT    == [Pirqs -> Irqs \cup {Intx!Dis}]
PirqT   == [Pci -> Pirqs]
LineT   == [Pci -> Pins]
ActiveT == [Pirqs -> Int]
PicT    == [Irqs -> Int]
ApicT   == [Pins -> Int]
LintrT  == [Pci -> {"IDLE", "PENDING", "ASSERTED"}]
WantT   == [Pci -> BOOLEAN]
OffT    == [Pci -> SUBSET Intx!Reasons]
CfgT    == SUBSET Pci

IntxState ==
    [pirq : PirqT, line : LineT, reg : RegT, active : ActiveT, pic : PicT, ioapic : ApicT, state : LintrT,
     want : WantT, off : OffT, cfg : CfgT, ops : Nat]

\* What drives a pin of each controller and of the router.
OnLine(s, l) == {d \in Pci : s.state[d] = "ASSERTED" /\ s.line[d] = l}
OnPirq(s, p) == {d \in Pci : s.state[d] = "ASSERTED" /\ s.pirq[d] = p}
OnPic(s, i)  == {p \in Pirqs : s.active[p] > 0 /\ Intx!ValidIrq(s.reg[p]) /\ s.reg[p] = i}

Agree(s) ==
    /\ \A l \in Pins : s.ioapic[l] = Cardinality(OnLine(s, l))
    /\ \A p \in Pirqs : s.active[p] = Cardinality(OnPirq(s, p))
    /\ \A i \in Irqs : s.pic[i] = Cardinality(OnPic(s, i))

Shown(s) ==
    \A d \in Pci \ s.cfg :
        s.state[d] = IF ~s.want[d] THEN "IDLE" ELSE IF s.off[d] = {} THEN "ASSERTED" ELSE "PENDING"

\* A device that is not wanted is idle also during a configuration write.
Kept(s) == \A d \in Pci : s.state[d] = "IDLE" <=> ~s.want[d]

IntxInv(s) == s \in IntxState /\ Agree(s) /\ Shown(s) /\ Kept(s)

\* The instance's copy of the standard operator.
LEMMA SameCount == \A S : Intx!Cardinality(S) = Cardinality(S)
BY DEF Intx!Cardinality, Cardinality

LEMMA FinitePins ==
    ASSUME IntxParams, NEW s
    PROVE  /\ \A l : IsFiniteSet(OnLine(s, l)) /\ Cardinality(OnLine(s, l)) \in Nat
           /\ \A p : IsFiniteSet(OnPirq(s, p)) /\ Cardinality(OnPirq(s, p)) \in Nat
           /\ \A i : IsFiniteSet(OnPic(s, i)) /\ Cardinality(OnPic(s, i)) \in Nat
<1>1. IsFiniteSet(Pci) /\ IsFiniteSet(Pirqs) BY DEF IntxParams
<1>2. \A l : OnLine(s, l) \subseteq Pci BY DEF OnLine
<1>3. \A p : OnPirq(s, p) \subseteq Pci BY DEF OnPirq
<1>4. \A i : OnPic(s, i) \subseteq Pirqs BY DEF OnPic
<1> QED BY <1>1, <1>2, <1>3, <1>4, FS_Subset, FS_CardinalityType

\* One more, and one less, in a count.
LEMMA OneMore ==
    ASSUME NEW S, NEW x, IsFiniteSet(S), x \notin S
    PROVE  Cardinality(S \cup {x}) = Cardinality(S) + 1
BY FS_AddElement

LEMMA OneFewer ==
    ASSUME NEW S, NEW x \in S, IsFiniteSet(S)
    PROVE  Cardinality(S \ {x}) = Cardinality(S) - 1
BY FS_RemoveElement

\* What a step on the lines leaves alone.
LinesOnly(s, t) ==
    /\ t.pirq = s.pirq /\ t.line = s.line /\ t.reg = s.reg /\ t.want = s.want /\ t.off = s.off /\ t.cfg = s.cfg
    /\ t.ops = s.ops /\ t.state = s.state

LEMMA AssertStep ==
    ASSUME IntxParams, NEW s \in IntxState, Agree(s), NEW d \in Pci, s.state[d] # "ASSERTED",
           NEW u \in IntxState, u.state = [s.state EXCEPT ![d] = "ASSERTED"], u.active = s.active, u.pic = s.pic,
           u.ioapic = s.ioapic, u.line = s.line, u.pirq = s.pirq, u.reg = s.reg
    PROVE  LET t == Intx!IrqAssert(u, d) IN t \in IntxState /\ Agree(t) /\ LinesOnly(u, t)
<1> DEFINE t == Intx!IrqAssert(u, d)
           p == u.pirq[d]
           l == u.line[d]
           q == u.reg[p]
           first == s.active[p] + 1 = 1 /\ Intx!ValidIrq(q)
           act == [s.active EXCEPT ![p] = @ + 1]
           io == [s.ioapic EXCEPT ![l] = @ + 1]
           pc == IF first THEN [s.pic EXCEPT ![q] = @ + 1] ELSE s.pic
<1>1. /\ p \in Pirqs /\ l \in Pins /\ q \in Irqs \cup {Intx!Dis} /\ s.active \in ActiveT /\ s.pic \in PicT
      /\ s.ioapic \in ApicT /\ s.state \in LintrT /\ s.line \in LineT /\ s.pirq \in PirqT /\ s.reg \in RegT
  BY DEF IntxState, PirqT, LineT, RegT
<1>2. act \in ActiveT /\ io \in ApicT BY <1>1 DEF ActiveT, ApicT
<1>3. first => q \in Irqs BY <1>1 DEF Intx!ValidIrq
<1>4. pc \in PicT BY <1>1, <1>3 DEF PicT
<1>5. t = [u EXCEPT !.active = act, !.ioapic = io, !.pic = pc]
  <2> HIDE DEF p, l, q
  <2>1. s.active[p] + 1 = act[p] BY <1>1 DEF ActiveT
  <2> QED BY <1>1, <2>1 DEF Intx!IrqAssert, IntxState, p, l, q
<1> HIDE DEF act, io, pc, t
<1>6. t \in IntxState BY <1>2, <1>4, <1>5 DEF IntxState
<1>7. LinesOnly(u, t) /\ t.active = act /\ t.ioapic = io /\ t.pic = pc BY <1>5 DEF IntxState, LinesOnly
<1> HIDE DEF p, l
<1>8. t.state = [s.state EXCEPT ![d] = "ASSERTED"] /\ t.line = s.line /\ t.pirq = s.pirq /\ t.reg = s.reg
  BY <1>7 DEF LinesOnly
<1>9. t.state[d] = "ASSERTED" /\ \A x \in Pci \ {d} : t.state[x] = s.state[x] BY <1>1, <1>8 DEF LintrT
<1>10. ASSUME NEW k \in Pins PROVE t.ioapic[k] = Cardinality(OnLine(t, k))
  <2>1. s.ioapic[k] = Cardinality(OnLine(s, k)) /\ IsFiniteSet(OnLine(s, k)) BY FinitePins DEF Agree
  <2>2. CASE k = l
    <3>1. OnLine(t, k) = OnLine(s, k) \cup {d} /\ d \notin OnLine(s, k) BY <1>8, <1>9, <2>2 DEF OnLine, l
    <3>2. t.ioapic[k] = s.ioapic[k] + 1 BY <1>1, <1>7, <2>2 DEF io, ApicT
    <3> QED BY <2>1, <3>1, <3>2, OneMore
  <2>3. CASE k # l
    <3>1. OnLine(t, k) = OnLine(s, k) BY <1>8, <1>9, <2>3 DEF OnLine, l
    <3>2. t.ioapic[k] = s.ioapic[k] BY <1>1, <1>7, <2>3 DEF io, ApicT
    <3> QED BY <2>1, <3>1, <3>2
  <2> QED BY <2>2, <2>3
<1>11. ASSUME NEW k \in Pirqs PROVE t.active[k] = Cardinality(OnPirq(t, k))
  <2>1. s.active[k] = Cardinality(OnPirq(s, k)) /\ IsFiniteSet(OnPirq(s, k)) BY FinitePins DEF Agree
  <2>2. CASE k = p
    <3>1. OnPirq(t, k) = OnPirq(s, k) \cup {d} /\ d \notin OnPirq(s, k) BY <1>8, <1>9, <2>2 DEF OnPirq, p
    <3>2. t.active[k] = s.active[k] + 1 BY <1>1, <1>7, <2>2 DEF act, ActiveT
    <3> QED BY <2>1, <3>1, <3>2, OneMore
  <2>3. CASE k # p
    <3>1. OnPirq(t, k) = OnPirq(s, k) BY <1>8, <1>9, <2>3 DEF OnPirq, p
    <3>2. t.active[k] = s.active[k] BY <1>1, <1>7, <2>3 DEF act, ActiveT
    <3> QED BY <2>1, <3>1, <3>2
  <2> QED BY <2>2, <2>3
<1>12. t.active[p] = s.active[p] + 1 /\ s.active[p] \in Nat /\ \A k \in Pirqs \ {p} : t.active[k] = s.active[k]
  <2>1. s.active[p] \in Nat BY <1>1, FinitePins DEF Agree
  <2> QED BY <1>1, <1>7, <2>1 DEF act, ActiveT
<1>13. ASSUME NEW i \in Irqs PROVE t.pic[i] = Cardinality(OnPic(t, i))
  <2>1. s.pic[i] = Cardinality(OnPic(s, i)) /\ IsFiniteSet(OnPic(s, i)) BY FinitePins DEF Agree
  <2>2. CASE first /\ i = q
    <3>1. OnPic(t, i) = OnPic(s, i) \cup {p} /\ p \notin OnPic(s, i) BY <1>1, <1>8, <1>12, <2>2 DEF OnPic
    <3>2. t.pic[i] = s.pic[i] + 1 BY <1>1, <1>3, <1>7, <2>2 DEF pc, PicT
    <3> QED BY <2>1, <3>1, <3>2, OneMore
  <2>3. CASE ~(first /\ i = q)
    <3>1. p \in OnPic(t, i) <=> p \in OnPic(s, i) BY <1>1, <1>8, <1>12, <2>3 DEF OnPic
    <3>2. \A k \in Pirqs \ {p} : k \in OnPic(t, i) <=> k \in OnPic(s, i) BY <1>8, <1>12 DEF OnPic
    <3>3. OnPic(t, i) \subseteq Pirqs /\ OnPic(s, i) \subseteq Pirqs BY DEF OnPic
    <3>4. OnPic(t, i) = OnPic(s, i) BY <3>1, <3>2, <3>3
    <3>5. t.pic[i] = s.pic[i] BY <1>1, <1>3, <1>7, <2>3 DEF pc, PicT
    <3> QED BY <2>1, <3>4, <3>5
  <2> QED BY <2>2, <2>3
<1>14. Agree(t) BY <1>10, <1>11, <1>13 DEF Agree
<1> QED BY <1>6, <1>7, <1>14 DEF t

LEMMA DeassertStep ==
    ASSUME IntxParams, NEW s \in IntxState, Agree(s), NEW d \in Pci, s.state[d] = "ASSERTED", NEW lvl \in {"IDLE", "PENDING"},
           NEW u \in IntxState, u.state = [s.state EXCEPT ![d] = lvl], u.active = s.active, u.pic = s.pic,
           u.ioapic = s.ioapic, u.line = s.line, u.pirq = s.pirq, u.reg = s.reg
    PROVE  LET t == Intx!IrqDeassert(u, d) IN t \in IntxState /\ Agree(t) /\ LinesOnly(u, t)
<1> DEFINE t == Intx!IrqDeassert(u, d)
           p == u.pirq[d]
           l == u.line[d]
           q == u.reg[p]
           last == s.active[p] - 1 = 0 /\ Intx!ValidIrq(q)
           act == [s.active EXCEPT ![p] = @ - 1]
           io == [s.ioapic EXCEPT ![l] = @ - 1]
           pc == IF last THEN [s.pic EXCEPT ![q] = @ - 1] ELSE s.pic
<1>1. /\ p \in Pirqs /\ l \in Pins /\ q \in Irqs \cup {Intx!Dis} /\ s.active \in ActiveT /\ s.pic \in PicT
      /\ s.ioapic \in ApicT /\ s.state \in LintrT /\ s.line \in LineT /\ s.pirq \in PirqT /\ s.reg \in RegT
  BY DEF IntxState, PirqT, LineT, RegT
<1>2. act \in ActiveT /\ io \in ApicT BY <1>1 DEF ActiveT, ApicT
<1>3. last => q \in Irqs BY <1>1 DEF Intx!ValidIrq
<1>4. pc \in PicT BY <1>1, <1>3 DEF PicT
<1>5. t = [u EXCEPT !.active = act, !.ioapic = io, !.pic = pc]
  <2> HIDE DEF p, l, q
  <2>1. s.active[p] - 1 = act[p] BY <1>1 DEF ActiveT
  <2> QED BY <1>1, <2>1 DEF Intx!IrqDeassert, IntxState, p, l, q
<1> HIDE DEF act, io, pc, t
<1>6. t \in IntxState BY <1>2, <1>4, <1>5 DEF IntxState
<1>7. LinesOnly(u, t) /\ t.active = act /\ t.ioapic = io /\ t.pic = pc BY <1>5 DEF IntxState, LinesOnly
<1> HIDE DEF p, l
<1>8. t.state = [s.state EXCEPT ![d] = lvl] /\ t.line = s.line /\ t.pirq = s.pirq /\ t.reg = s.reg
  BY <1>7 DEF LinesOnly
<1>9. t.state[d] = lvl /\ \A x \in Pci \ {d} : t.state[x] = s.state[x] BY <1>1, <1>8 DEF LintrT
<1>10. ASSUME NEW k \in Pins PROVE t.ioapic[k] = Cardinality(OnLine(t, k))
  <2>1. s.ioapic[k] = Cardinality(OnLine(s, k)) /\ IsFiniteSet(OnLine(s, k)) BY FinitePins DEF Agree
  <2>2. CASE k = l
    <3>1. OnLine(t, k) = OnLine(s, k) \ {d} /\ d \in OnLine(s, k) BY <1>8, <1>9, <2>2 DEF OnLine, l
    <3>2. t.ioapic[k] = s.ioapic[k] - 1 BY <1>1, <1>7, <2>2 DEF io, ApicT
    <3> QED BY <2>1, <3>1, <3>2, OneFewer
  <2>3. CASE k # l
    <3>1. OnLine(t, k) = OnLine(s, k) BY <1>8, <1>9, <2>3 DEF OnLine, l
    <3>2. t.ioapic[k] = s.ioapic[k] BY <1>1, <1>7, <2>3 DEF io, ApicT
    <3> QED BY <2>1, <3>1, <3>2
  <2> QED BY <2>2, <2>3
<1>11. ASSUME NEW k \in Pirqs PROVE t.active[k] = Cardinality(OnPirq(t, k))
  <2>1. s.active[k] = Cardinality(OnPirq(s, k)) /\ IsFiniteSet(OnPirq(s, k)) BY FinitePins DEF Agree
  <2>2. CASE k = p
    <3>1. OnPirq(t, k) = OnPirq(s, k) \ {d} /\ d \in OnPirq(s, k) BY <1>8, <1>9, <2>2 DEF OnPirq, p
    <3>2. t.active[k] = s.active[k] - 1 BY <1>1, <1>7, <2>2 DEF act, ActiveT
    <3> QED BY <2>1, <3>1, <3>2, OneFewer
  <2>3. CASE k # p
    <3>1. OnPirq(t, k) = OnPirq(s, k) BY <1>8, <1>9, <2>3 DEF OnPirq, p
    <3>2. t.active[k] = s.active[k] BY <1>1, <1>7, <2>3 DEF act, ActiveT
    <3> QED BY <2>1, <3>1, <3>2
  <2> QED BY <2>2, <2>3
<1>12. t.active[p] = s.active[p] - 1 /\ s.active[p] \in Nat /\ \A k \in Pirqs \ {p} : t.active[k] = s.active[k]
  <2>1. s.active[p] \in Nat BY <1>1, FinitePins DEF Agree
  <2> QED BY <1>1, <1>7, <2>1 DEF act, ActiveT
<1>13. ASSUME NEW i \in Irqs PROVE t.pic[i] = Cardinality(OnPic(t, i))
  <2>1. s.pic[i] = Cardinality(OnPic(s, i)) /\ IsFiniteSet(OnPic(s, i)) BY FinitePins DEF Agree
  <2>2. CASE last /\ i = q
    <3>1. OnPic(t, i) = OnPic(s, i) \ {p} /\ p \in OnPic(s, i) BY <1>1, <1>8, <1>12, <2>2 DEF OnPic
    <3>2. t.pic[i] = s.pic[i] - 1 BY <1>1, <1>3, <1>7, <2>2 DEF pc, PicT
    <3> QED BY <2>1, <3>1, <3>2, OneFewer
  <2>3. CASE ~(last /\ i = q)
    <3>1. p \in OnPic(t, i) <=> p \in OnPic(s, i) BY <1>1, <1>8, <1>12, <2>3 DEF OnPic
    <3>2. \A k \in Pirqs \ {p} : k \in OnPic(t, i) <=> k \in OnPic(s, i) BY <1>8, <1>12 DEF OnPic
    <3>3. OnPic(t, i) \subseteq Pirqs /\ OnPic(s, i) \subseteq Pirqs BY DEF OnPic
    <3>4. OnPic(t, i) = OnPic(s, i) BY <3>1, <3>2, <3>3
    <3>5. t.pic[i] = s.pic[i] BY <1>1, <1>3, <1>7, <2>3 DEF pc, PicT
    <3> QED BY <2>1, <3>4, <3>5
  <2> QED BY <2>2, <2>3
<1>14. Agree(t) BY <1>10, <1>11, <1>13 DEF Agree
<1> QED BY <1>6, <1>7, <1>14 DEF t

\* A step that leaves the lines alone.
LEMMA AgreeSame ==
    ASSUME NEW s, NEW t, Agree(s), t.state = s.state, t.active = s.active, t.pic = s.pic, t.ioapic = s.ioapic,
           t.line = s.line, t.pirq = s.pirq, t.reg = s.reg
    PROVE  Agree(t)
<1>1. \A l : OnLine(t, l) = OnLine(s, l) BY DEF OnLine
<1>2. \A p : OnPirq(t, p) = OnPirq(s, p) BY DEF OnPirq
<1>3. \A i : OnPic(t, i) = OnPic(s, i) BY DEF OnPic
<1> QED BY <1>1, <1>2, <1>3 DEF Agree

\* A line changes its state without being asserted before or after.
LEMMA IdleAgree ==
    ASSUME NEW s, NEW t, Agree(s), NEW d \in Pci, s.state[d] # "ASSERTED", t.state[d] # "ASSERTED",
           \A x \in Pci \ {d} : t.state[x] = s.state[x], t.active = s.active, t.pic = s.pic,
           t.ioapic = s.ioapic, t.line = s.line, t.pirq = s.pirq, t.reg = s.reg
    PROVE  Agree(t)
<1>1. \A l : OnLine(t, l) = OnLine(s, l) BY DEF OnLine
<1>2. \A p : OnPirq(t, p) = OnPirq(s, p) BY DEF OnPirq
<1>3. \A i : OnPic(t, i) = OnPic(s, i) BY DEF OnPic
<1> QED BY <1>1, <1>2, <1>3 DEF Agree

LEMMA LintrAssertKeeps ==
    ASSUME IntxParams, IntxInv(sc), NEW d \in Pci, Intx!LintrAssert(d)
    PROVE  IntxInv(sc')
<1> DEFINE w == [sc.want EXCEPT ![d] = TRUE]
           k == sc.ops + 1
           s == [sc EXCEPT !.want = w, !.ops = k]
<1>1. sc \in IntxState /\ Agree(sc) /\ Shown(sc) /\ Kept(sc) /\ sc.state \in LintrT /\ sc.want \in WantT
      /\ sc.ops \in Nat /\ sc.cfg \in CfgT
  BY DEF IntxInv, IntxState
<1>2. w \in WantT /\ w[d] /\ (\A x \in Pci \ {d} : w[x] = sc.want[x]) /\ k \in Nat BY <1>1 DEF WantT
<1>3. s = [Intx!Tick(sc) EXCEPT !.want[d] = TRUE] BY <1>1 DEF Intx!Tick, IntxState
<1> HIDE DEF w, k
<1>4. /\ s \in IntxState /\ s.want = w /\ s.state = sc.state /\ s.active = sc.active /\ s.pic = sc.pic
      /\ s.ioapic = sc.ioapic /\ s.line = sc.line /\ s.pirq = sc.pirq /\ s.reg = sc.reg /\ s.off = sc.off /\ s.cfg = sc.cfg
  BY <1>1, <1>2 DEF IntxState
<1> HIDE DEF s
<1>5. ~sc.want[d] BY DEF Intx!LintrAssert
<1>6. sc.state[d] = "IDLE" BY <1>1, <1>5 DEF Kept
<1>7. CASE s.off[d] = {}
  <2> DEFINE st == [sc.state EXCEPT ![d] = "ASSERTED"]
             u == [s EXCEPT !.state = st]
  <2>1. st \in LintrT /\ st[d] = "ASSERTED" /\ \A x \in Pci \ {d} : st[x] = sc.state[x] BY <1>1 DEF LintrT
  <2>2. u = [s EXCEPT !.state[d] = "ASSERTED"] BY <1>4 DEF IntxState
  <2> HIDE DEF st
  <2>3. /\ u \in IntxState /\ u.state = st /\ u.active = s.active /\ u.pic = s.pic /\ u.ioapic = s.ioapic
        /\ u.line = s.line /\ u.pirq = s.pirq /\ u.reg = s.reg /\ u.want = w /\ u.off = s.off /\ u.cfg = s.cfg
    BY <1>4, <2>1 DEF IntxState
  <2>4. sc' = Intx!IrqAssert(u, d)
    BY <1>3, <1>4, <1>6, <1>7, <2>2 DEF Intx!LintrAssert, Intx!LintrPermitted
  <2> HIDE DEF u
  <2>5. sc' \in IntxState /\ Agree(sc') /\ LinesOnly(u, sc')
    BY <1>1, <1>4, <1>6, <2>3, <2>4, AssertStep DEF st
  <2>6. sc'.state = st /\ sc'.want = w /\ sc'.off = sc.off /\ sc'.cfg = sc.cfg BY <1>4, <2>3, <2>5 DEF LinesOnly
  <2>7. Shown(sc') BY <1>1, <1>2, <1>4, <1>7, <2>1, <2>6 DEF Shown
  <2>8. Kept(sc') BY <1>1, <1>2, <2>1, <2>6 DEF Kept
  <2> QED BY <2>5, <2>7, <2>8 DEF IntxInv
<1>8. CASE s.off[d] # {}
  <2> DEFINE st == [sc.state EXCEPT ![d] = "PENDING"]
  <2>1. st \in LintrT /\ st[d] = "PENDING" /\ \A x \in Pci \ {d} : st[x] = sc.state[x] BY <1>1 DEF LintrT
  <2>2. sc' = [s EXCEPT !.state = st]
    BY <1>3, <1>4, <1>6, <1>8 DEF Intx!LintrAssert, Intx!LintrPermitted, IntxState
  <2> HIDE DEF st
  <2>3. /\ sc' \in IntxState /\ sc'.state = st /\ sc'.active = sc.active /\ sc'.pic = sc.pic /\ sc'.ioapic = sc.ioapic
        /\ sc'.line = sc.line /\ sc'.pirq = sc.pirq /\ sc'.reg = sc.reg /\ sc'.want = w /\ sc'.off = sc.off
        /\ sc'.cfg = sc.cfg
    BY <1>4, <2>1, <2>2 DEF IntxState
  <2>4. Agree(sc') BY <1>1, <1>6, <2>1, <2>3, IdleAgree
  <2>5. Shown(sc') BY <1>1, <1>2, <1>4, <1>8, <2>1, <2>3 DEF Shown
  <2>6. Kept(sc') BY <1>1, <1>2, <2>1, <2>3 DEF Kept
  <2> QED BY <2>3, <2>4, <2>5, <2>6 DEF IntxInv
<1> QED BY <1>7, <1>8

LEMMA LintrDeassertKeeps ==
    ASSUME IntxParams, IntxInv(sc), NEW d \in Pci, Intx!LintrDeassert(d)
    PROVE  IntxInv(sc')
<1> DEFINE w == [sc.want EXCEPT ![d] = FALSE]
           st == [sc.state EXCEPT ![d] = "IDLE"]
           k == sc.ops + 1
           u == [sc EXCEPT !.want = w, !.state = st, !.ops = k]
<1>1. sc \in IntxState /\ Agree(sc) /\ Shown(sc) /\ Kept(sc) /\ sc.state \in LintrT /\ sc.want \in WantT
      /\ sc.ops \in Nat /\ sc.cfg \in CfgT
  BY DEF IntxInv, IntxState
<1>2. w \in WantT /\ ~w[d] /\ (\A x \in Pci \ {d} : w[x] = sc.want[x]) /\ k \in Nat BY <1>1 DEF WantT
<1>3. st \in LintrT /\ st[d] = "IDLE" /\ \A x \in Pci \ {d} : st[x] = sc.state[x] BY <1>1 DEF LintrT
<1>4. u = [Intx!Tick(sc) EXCEPT !.want[d] = FALSE, !.state[d] = "IDLE"] BY <1>1 DEF Intx!Tick, IntxState
<1> HIDE DEF w, k, st
<1>5. /\ u \in IntxState /\ u.want = w /\ u.state = st /\ u.active = sc.active /\ u.pic = sc.pic
      /\ u.ioapic = sc.ioapic /\ u.line = sc.line /\ u.pirq = sc.pirq /\ u.reg = sc.reg /\ u.off = sc.off /\ u.cfg = sc.cfg
  BY <1>1, <1>2, <1>3 DEF IntxState
<1> HIDE DEF u
<1>6. sc' \in IntxState /\ Agree(sc') /\ sc'.state = st /\ sc'.want = w /\ sc'.off = sc.off /\ sc'.cfg = sc.cfg
  <2>1. CASE sc.state[d] = "ASSERTED"
    <3>1. sc' = Intx!IrqDeassert(u, d) BY <1>4, <2>1 DEF Intx!LintrDeassert
    <3>2. sc' \in IntxState /\ Agree(sc') /\ LinesOnly(u, sc') BY <1>1, <1>5, <2>1, <3>1, DeassertStep DEF st
    <3> QED BY <1>5, <3>2 DEF LinesOnly
  <2>2. CASE sc.state[d] # "ASSERTED"
    <3>1. sc' = u BY <1>4, <2>2 DEF Intx!LintrDeassert
    <3>2. Agree(u) BY <1>1, <1>3, <1>5, <2>2, IdleAgree
    <3> QED BY <1>5, <3>1, <3>2
  <2> QED BY <2>1, <2>2
<1>7. Shown(sc') BY <1>1, <1>2, <1>3, <1>6 DEF Shown
<1>8. Kept(sc') BY <1>1, <1>2, <1>3, <1>6 DEF Kept
<1> QED BY <1>6, <1>7, <1>8 DEF IntxInv

LEMMA CfgWriteKeeps ==
    ASSUME IntxParams, IntxInv(sc), NEW d \in Pci, NEW why \in Intx!Reasons, NEW on \in BOOLEAN, Intx!CfgWrite(d, why, on)
    PROVE  IntxInv(sc')
<1> DEFINE o == [sc.off EXCEPT ![d] = IF on THEN @ \cup {why} ELSE @ \ {why}]
           k == sc.ops + 1
           c == sc.cfg \cup {d}
<1>1. sc \in IntxState /\ Agree(sc) /\ Shown(sc) /\ Kept(sc) /\ sc.off \in OffT /\ sc.ops \in Nat /\ sc.cfg \in CfgT
  BY DEF IntxInv, IntxState
<1>2. o \in OffT /\ (\A x \in Pci \ {d} : o[x] = sc.off[x]) /\ k \in Nat /\ c \in CfgT BY <1>1 DEF OffT, CfgT
<1>3. sc' = [sc EXCEPT !.off = o, !.cfg = c, !.ops = k] BY <1>1 DEF Intx!CfgWrite, Intx!Tick, IntxState
<1>4. d \in c /\ sc.cfg \subseteq c OBVIOUS
<1> HIDE DEF o, k, c
<1>5. /\ sc' \in IntxState /\ sc'.want = sc.want /\ sc'.state = sc.state /\ sc'.active = sc.active /\ sc'.pic = sc.pic
      /\ sc'.ioapic = sc.ioapic /\ sc'.line = sc.line /\ sc'.pirq = sc.pirq /\ sc'.reg = sc.reg /\ sc'.off = o
      /\ sc'.cfg = c
  BY <1>1, <1>2, <1>3 DEF IntxState
<1>6. Agree(sc') BY <1>1, <1>5, AgreeSame
<1>7. Shown(sc') BY <1>1, <1>2, <1>4, <1>5 DEF Shown
<1>8. Kept(sc') BY <1>1, <1>5 DEF Kept
<1> QED BY <1>5, <1>6, <1>7, <1>8 DEF IntxInv

LEMMA LintrUpdateKeeps ==
    ASSUME IntxParams, IntxInv(sc), NEW d \in Pci, Intx!LintrUpdate(d)
    PROVE  IntxInv(sc')
<1> DEFINE c == sc.cfg \ {d}
           s == [sc EXCEPT !.cfg = c]
           new == IF sc.state[d] = "IDLE" THEN "IDLE" ELSE IF sc.off[d] = {} THEN "ASSERTED" ELSE "PENDING"
           st == [sc.state EXCEPT ![d] = new]
           u == [s EXCEPT !.state = st]
<1>1. sc \in IntxState /\ Agree(sc) /\ Shown(sc) /\ Kept(sc) /\ sc.state \in LintrT /\ sc.cfg \in CfgT
  BY DEF IntxInv, IntxState
<1>2. c \in CfgT BY <1>1 DEF CfgT
<1>3. st \in LintrT /\ st[d] = new /\ \A x \in Pci \ {d} : st[x] = sc.state[x] BY <1>1 DEF LintrT
<1>4. s = [sc EXCEPT !.cfg = @ \ {d}] BY <1>1 DEF IntxState
<1>5. u = [s EXCEPT !.state[d] = new] BY <1>1 DEF IntxState
<1>6. new = sc.state[d] => st = sc.state BY <1>1 DEF LintrT
<1> HIDE DEF c, st
<1>7. /\ s \in IntxState /\ s.want = sc.want /\ s.state = sc.state /\ s.active = sc.active /\ s.pic = sc.pic
      /\ s.ioapic = sc.ioapic /\ s.line = sc.line /\ s.pirq = sc.pirq /\ s.reg = sc.reg /\ s.off = sc.off /\ s.cfg = c
  BY <1>1, <1>2 DEF IntxState
<1> HIDE DEF s
<1>8. /\ u \in IntxState /\ u.want = sc.want /\ u.state = st /\ u.active = sc.active /\ u.pic = sc.pic
      /\ u.ioapic = sc.ioapic /\ u.line = sc.line /\ u.pirq = sc.pirq /\ u.reg = sc.reg /\ u.off = sc.off /\ u.cfg = c
  BY <1>3, <1>7 DEF IntxState
<1> HIDE DEF u
<1>9. sc' \in IntxState /\ Agree(sc') /\ sc'.state = st /\ sc'.want = sc.want /\ sc'.off = sc.off /\ sc'.cfg = c
  <2>1. CASE sc.state[d] = "ASSERTED" /\ sc.off[d] # {}
    <3>1. sc' = Intx!IrqDeassert(u, d) BY <1>4, <1>5, <1>7, <2>1 DEF Intx!LintrUpdate, Intx!LintrPermitted
    <3>2. sc' \in IntxState /\ Agree(sc') /\ LinesOnly(u, sc') BY <1>1, <1>8, <2>1, <3>1, DeassertStep DEF st
    <3> QED BY <1>8, <3>2 DEF LinesOnly
  <2>2. CASE sc.state[d] = "PENDING" /\ sc.off[d] = {}
    <3>1. sc' = Intx!IrqAssert(u, d) BY <1>4, <1>5, <1>7, <2>2 DEF Intx!LintrUpdate, Intx!LintrPermitted
    <3>2. sc' \in IntxState /\ Agree(sc') /\ LinesOnly(u, sc') BY <1>1, <1>8, <2>2, <3>1, AssertStep DEF st
    <3> QED BY <1>8, <3>2 DEF LinesOnly
  <2>3. CASE ~(sc.state[d] = "ASSERTED" /\ sc.off[d] # {}) /\ ~(sc.state[d] = "PENDING" /\ sc.off[d] = {})
    <3>1. sc' = s BY <1>4, <1>7, <2>3 DEF Intx!LintrUpdate, Intx!LintrPermitted
    <3>2. sc.state[d] \in {"IDLE", "PENDING", "ASSERTED"} BY <1>1 DEF LintrT
    <3>3. st = sc.state BY <1>6, <2>3, <3>2
    <3>4. Agree(s) BY <1>1, <1>7, AgreeSame
    <3> QED BY <1>7, <3>1, <3>3, <3>4
  <2> QED BY <2>1, <2>2, <2>3
<1>10. Shown(sc')
  <2> SUFFICES ASSUME NEW x \in Pci \ sc'.cfg
               PROVE  sc'.state[x] = IF ~sc'.want[x] THEN "IDLE" ELSE IF sc'.off[x] = {} THEN "ASSERTED" ELSE "PENDING"
    BY DEF Shown
  <2>1. CASE x = d BY <1>1, <1>3, <1>9, <2>1 DEF Kept
  <2>2. CASE x # d
    <3>1. x \in Pci \ sc.cfg BY <1>9, <2>2 DEF c
    <3> QED BY <1>1, <1>3, <1>9, <2>2, <3>1 DEF Shown
  <2> QED BY <2>1, <2>2
<1>11. Kept(sc') BY <1>1, <1>3, <1>9 DEF Kept
<1> QED BY <1>9, <1>10, <1>11 DEF IntxInv

LEMMA PirqWriteKeeps ==
    ASSUME IntxParams, IntxInv(sc), NEW p \in Pirqs, NEW v \in Irqs \cup {Intx!Dis}, Intx!PirqWrite(p, v)
    PROVE  IntxInv(sc')
<1> DEFINE busy == sc.active[p] # 0
           old == sc.reg[p]
           up(i) == IF busy /\ Intx!ValidIrq(v) /\ i = v THEN 1 ELSE 0
           dn(i) == IF busy /\ Intx!ValidIrq(old) /\ i = old THEN 1 ELSE 0
           rg == [sc.reg EXCEPT ![p] = v]
           pc == [i \in Irqs |-> sc.pic[i] + (up(i) - dn(i))]
           k == sc.ops + 1
<1>1. sc \in IntxState /\ Agree(sc) /\ Shown(sc) /\ Kept(sc) /\ sc.reg \in RegT /\ sc.pic \in PicT /\ sc.ops \in Nat
      /\ sc.active \in ActiveT
  BY DEF IntxInv, IntxState
<1>2. v # old BY DEF Intx!PirqWrite
<1>3. rg \in RegT /\ rg[p] = v /\ (\A q \in Pirqs \ {p} : rg[q] = sc.reg[q]) /\ k \in Nat BY <1>1 DEF RegT
<1>4. pc \in PicT BY <1>1 DEF PicT
<1>5. sc' = [sc EXCEPT !.reg = rg, !.pic = pc, !.ops = k] BY <1>1 DEF Intx!PirqWrite, Intx!Tick, IntxState
<1>6. \A i \in Irqs : pc[i] = sc.pic[i] + (up(i) - dn(i)) /\ sc.pic[i] \in Int BY <1>1 DEF PicT
<1> HIDE DEF rg, pc, k
<1>7. /\ sc' \in IntxState /\ sc'.want = sc.want /\ sc'.state = sc.state /\ sc'.active = sc.active /\ sc'.pic = pc
      /\ sc'.ioapic = sc.ioapic /\ sc'.line = sc.line /\ sc'.pirq = sc.pirq /\ sc'.reg = rg /\ sc'.off = sc.off
      /\ sc'.cfg = sc.cfg
  BY <1>1, <1>3, <1>4, <1>5 DEF IntxState
<1>8. sc.active[p] \in Nat /\ (busy <=> sc.active[p] > 0) BY <1>1, FinitePins DEF Agree
<1>9. ASSUME NEW i \in Irqs PROVE sc'.pic[i] = Cardinality(OnPic(sc', i))
  <2>1. sc.pic[i] = Cardinality(OnPic(sc, i)) /\ IsFiniteSet(OnPic(sc, i)) /\ sc.pic[i] \in Int
    BY <1>1, <1>6, FinitePins DEF Agree
  <2>2. \A q \in Pirqs \ {p} : q \in OnPic(sc', i) <=> q \in OnPic(sc, i) BY <1>3, <1>7 DEF OnPic
  <2>3. OnPic(sc', i) \subseteq Pirqs /\ OnPic(sc, i) \subseteq Pirqs BY DEF OnPic
  <2>4. p \in OnPic(sc', i) <=> busy /\ Intx!ValidIrq(v) /\ i = v BY <1>3, <1>7, <1>8 DEF OnPic
  <2>5. p \in OnPic(sc, i) <=> busy /\ Intx!ValidIrq(old) /\ i = old BY <1>8 DEF OnPic
  <2>6. sc'.pic[i] = sc.pic[i] + (up(i) - dn(i)) BY <1>6, <1>7
  <2>7. CASE p \in OnPic(sc, i)
    <3>1. up(i) = 0 /\ dn(i) = 1 /\ p \notin OnPic(sc', i) BY <1>2, <2>4, <2>5, <2>7
    <3>2. OnPic(sc', i) = OnPic(sc, i) \ {p} BY <2>2, <2>3, <3>1
    <3> QED BY <2>1, <2>6, <2>7, <3>1, <3>2, OneFewer
  <2>8. CASE p \notin OnPic(sc, i) /\ p \in OnPic(sc', i)
    <3>1. up(i) = 1 /\ dn(i) = 0 BY <2>4, <2>5, <2>8
    <3>2. OnPic(sc', i) = OnPic(sc, i) \cup {p} BY <2>2, <2>3, <2>8
    <3> QED BY <2>1, <2>6, <2>8, <3>1, <3>2, OneMore
  <2>9. CASE p \notin OnPic(sc, i) /\ p \notin OnPic(sc', i)
    <3>1. up(i) = 0 /\ dn(i) = 0 BY <2>4, <2>5, <2>9
    <3>2. OnPic(sc', i) = OnPic(sc, i) BY <2>2, <2>3, <2>9
    <3> QED BY <2>1, <2>6, <3>1, <3>2
  <2> QED BY <2>7, <2>8, <2>9
<1>10. \A l \in Pins : OnLine(sc', l) = OnLine(sc, l) BY <1>7 DEF OnLine
<1>11. \A q \in Pirqs : OnPirq(sc', q) = OnPirq(sc, q) BY <1>7 DEF OnPirq
<1>12. Agree(sc') BY <1>1, <1>7, <1>9, <1>10, <1>11 DEF Agree
<1>13. Shown(sc') /\ Kept(sc') BY <1>1, <1>7 DEF Shown, Kept
<1> QED BY <1>7, <1>12, <1>13 DEF IntxInv

LEMMA IntxKeeps ==
    ASSUME IntxParams, IntxInv(sc), [Intx!Next]_sc
    PROVE  IntxInv(sc')
<1>1. CASE UNCHANGED sc BY <1>1
<1>2. CASE Intx!Device BY <1>2, LintrAssertKeeps, LintrDeassertKeeps DEF Intx!Device, Pci
<1>3. CASE Intx!Guest BY <1>3, LintrUpdateKeeps, CfgWriteKeeps DEF Intx!Guest, Pci
<1>4. CASE Intx!Router BY <1>4, PirqWriteKeeps DEF Intx!Router
<1> QED BY <1>1, <1>2, <1>3, <1>4 DEF Intx!Next

\* The least used member of a set.
LEMMA LeastUsed ==
    ASSUME NEW S, S \subseteq Nat, S # {}, NEW count, \A x \in S : count[x] \in Nat
    PROVE  Intx!Least(S, count) \in S
<1> DEFINE C == {count[x] : x \in S}
<1>1. PICK c \in C : \A e \in C : c <= e BY Least
<1> DEFINE M == {x \in S : count[x] = c}
<1>2. M # {} /\ M \subseteq Nat BY <1>1
<1>3. PICK x \in M : \A y \in M : x <= y BY <1>2, Least
<1>4. ASSUME NEW y \in S PROVE count[x] < count[y] \/ (count[x] = count[y] /\ x <= y)
  <2>1. count[y] \in C /\ count[x] = c /\ count[y] \in Nat /\ c \in Nat BY <1>1, <1>3
  <2>2. c <= count[y] BY <1>1, <2>1
  <2>3. CASE count[y] = c BY <1>3, <2>1, <2>3
  <2>4. CASE count[y] # c BY <2>1, <2>2, <2>4
  <2> QED BY <2>3, <2>4
<1>5. x \in S BY <1>3
<1>6. \E z \in S : \A y \in S : count[z] < count[y] \/ (count[z] = count[y] /\ z <= y) BY <1>4, <1>5
<1> QED BY <1>6 DEF Intx!Least

-----------------------------------------------------------------------------
(* Start-up: every device gets a pin, and every pin a line *)

SlotsUsed == {Slot[d] : d \in Pci}
UsesT     == [SlotsUsed -> [IntPins -> Nat]]

\* After the first n devices have requested a pin.
PinsAfter(r, n) ==
    \E pin, uses : /\ r = [pin |-> pin, uses |-> uses] /\ uses \in UsesT
                   /\ DOMAIN pin = {Order[i] : i \in 1..n} /\ \A d \in DOMAIN pin : pin[d] \in IntPins

LEMMA RequestStep ==
    ASSUME IntxParams, NEW n \in 1..Len(Order), NEW r, PinsAfter(r, n - 1)
    PROVE  PinsAfter(Intx!LintrRequest(r, Order[n]), n)
<1> DEFINE d == Order[n]
<1>0. n \in Nat /\ n - 1 \in Nat /\ Len(Order) \in Nat BY DEF IntxParams
<1>1. PICK pin, uses : /\ r = [pin |-> pin, uses |-> uses] /\ uses \in UsesT
                       /\ DOMAIN pin = {Order[i] : i \in 1..(n - 1)} /\ \A x \in DOMAIN pin : pin[x] \in IntPins
  BY DEF PinsAfter
<1>2. d \in Pci /\ Slot[d] \in SlotsUsed BY DEF IntxParams, SlotsUsed
<1> HIDE DEF d
<1> DEFINE s == Slot[d]
           best == Intx!Least(IntPins, uses[s])
           pin2 == [x \in DOMAIN pin \cup {d} |-> IF x = d THEN best ELSE pin[x]]
           uses2 == [uses EXCEPT ![s][best] = @ + 1]
<1>3. uses[s] \in [IntPins -> Nat] BY <1>1, <1>2 DEF UsesT
<1>4. best \in IntPins BY <1>3, LeastUsed DEF IntxParams
<1>5. Intx!LintrRequest(r, d) = [pin |-> pin2, uses |-> uses2] BY <1>1 DEF Intx!LintrRequest
<1> HIDE DEF best
<1>6. uses2 \in UsesT BY <1>1, <1>2, <1>3, <1>4 DEF UsesT
<1>7. 1..n = (1..(n - 1)) \cup {n} BY <1>0
<1>8. DOMAIN pin2 = {Order[i] : i \in 1..n} BY <1>1, <1>7 DEF d
<1>9. \A x \in DOMAIN pin2 : pin2[x] \in IntPins BY <1>1, <1>4
<1> HIDE DEF pin2, uses2
<1>10. PinsAfter(Intx!LintrRequest(r, d), n) BY <1>5, <1>6, <1>8, <1>9 DEF PinsAfter
<1> QED BY <1>10 DEF d

LEMMA RequestsDefined ==
    ASSUME NEW N \in Nat
    PROVE  \E f : f = [n \in 0..N |-> IF n = 0 THEN Intx!NoPins ELSE Intx!LintrRequest(f[n - 1], Order[n])]
<1> DEFINE Is(f, m) == f = [n \in 0..m |-> IF n = 0 THEN Intx!NoPins ELSE Intx!LintrRequest(f[n - 1], Order[n])]
           E(m) == \E f : Is(f, m)
           B == {m \in Nat : ~E(m)}
<1>1. E(0)
  <2> DEFINE f == [n \in 0..0 |-> Intx!NoPins]
  <2>1. Is(f, 0) OBVIOUS
  <2> HIDE DEF Is
  <2> QED BY <2>1
<1>2. ASSUME NEW m \in Nat, E(m) PROVE E(m + 1)
  <2>1. PICK f : Is(f, m) BY <1>2
  <2> DEFINE g == [n \in 0..(m + 1) |-> IF n = 0 THEN Intx!NoPins ELSE Intx!LintrRequest(f[n - 1], Order[n])]
  <2>2. \A n \in 0..m : g[n] = f[n] BY <2>1
  <2>3. \A n \in 0..(m + 1) : n # 0 => n - 1 \in 0..m OBVIOUS
  <2>4. \A n \in 0..(m + 1) : n # 0 => g[n - 1] = f[n - 1] BY <2>2, <2>3
  <2>5. Is(g, m + 1) BY <2>4
  <2> HIDE DEF Is, g
  <2> QED BY <2>5
<1> HIDE DEF E
<1>3. B = {}
  <2>1. SUFFICES ASSUME B # {} PROVE FALSE OBVIOUS
  <2>2. PICK n \in B : \A m \in B : n <= m BY <2>1, Least
  <2>3. n # 0 BY <1>1, <2>2
  <2>4. n - 1 \in Nat /\ n - 1 \notin B BY <2>2, <2>3
  <2>5. E(n - 1) BY <2>4
  <2>6. E((n - 1) + 1) BY <2>4, <2>5, <1>2
  <2>7. (n - 1) + 1 = n BY <2>2
  <2> QED BY <2>2, <2>6, <2>7
<1>4. E(N) BY <1>3
<1> QED BY <1>4 DEF E

LEMMA PinsGiven ==
    ASSUME IntxParams
    PROVE  \A d \in Pci : Intx!Requested[d] \in IntPins
<1> DEFINE N == Len(Order)
           after[n \in 0..N] == IF n = 0 THEN Intx!NoPins ELSE Intx!LintrRequest(after[n - 1], Order[n])
<1>1. Intx!Requested = after[N].pin BY DEF Intx!Requested
<1>2. N \in Nat /\ DOMAIN Order = 1..N BY DEF IntxParams
<1>3. after = [n \in 0..N |-> IF n = 0 THEN Intx!NoPins ELSE Intx!LintrRequest(after[n - 1], Order[n])]
  BY <1>2, RequestsDefined
<1> HIDE DEF after
<1>4. after[0] = Intx!NoPins /\ \A n \in 1..N : after[n] = Intx!LintrRequest(after[n - 1], Order[n]) BY <1>2, <1>3
<1>5. PinsAfter(after[0], 0)
  <2> DEFINE pin == [d \in {} |-> 0]
             uses == [s \in SlotsUsed |-> [p \in IntPins |-> 0]]
  <2>1. after[0] = [pin |-> pin, uses |-> uses] BY <1>4 DEF Intx!NoPins, SlotsUsed, Pci
  <2>2. uses \in UsesT BY DEF UsesT
  <2>3. DOMAIN pin = {Order[i] : i \in 1..0} OBVIOUS
  <2>4. \A d \in DOMAIN pin : pin[d] \in IntPins OBVIOUS
  <2> HIDE DEF pin, uses
  <2> QED BY <2>1, <2>2, <2>3, <2>4 DEF PinsAfter
<1> DEFINE B == {n \in Nat : n <= N /\ ~PinsAfter(after[n], n)}
<1>6. B = {}
  <2>1. SUFFICES ASSUME B # {} PROVE FALSE OBVIOUS
  <2>2. PICK n \in B : \A m \in B : n <= m BY <2>1, Least
  <2>3. n # 0 /\ n \in Nat /\ n <= N BY <1>5, <2>2
  <2>4. n - 1 \in Nat /\ n - 1 \notin B /\ n - 1 <= N /\ n \in 1..N BY <1>2, <2>2, <2>3
  <2>5. PinsAfter(after[n - 1], n - 1) BY <2>4
  <2>6. PinsAfter(after[n], n) BY <1>4, <2>4, <2>5, RequestStep
  <2> QED BY <2>2, <2>6
<1>7. PinsAfter(after[N], N) BY <1>2, <1>6
<1>8. {Order[i] : i \in 1..N} = Pci BY <1>2 DEF Pci, Intx!Devs
<1>9. PICK pin, uses : /\ after[N] = [pin |-> pin, uses |-> uses] /\ uses \in UsesT
                       /\ DOMAIN pin = {Order[i] : i \in 1..N} /\ \A d \in DOMAIN pin : pin[d] \in IntPins
  BY <1>7 DEF PinsAfter
<1> QED BY <1>1, <1>8, <1>9

UseT  == [Pirqs -> Nat]
TallyT == [Irqs -> Nat]

\* Pins of slots that are routed have a router pin and an I/O APIC pin.
RoutesOk(r) ==
    \E use, reg, irqs, pirq, line, last :
        /\ r = [use |-> use, reg |-> reg, irqs |-> irqs, pirq |-> pirq, line |-> line, last |-> last]
        /\ use \in UseT /\ reg \in RegT /\ irqs \in TallyT /\ last \in Nat /\ DOMAIN line = DOMAIN pirq
        /\ \A k \in DOMAIN pirq : pirq[k] \in Pirqs /\ line[k] \in Pins

LEMMA AllocatedStep ==
    ASSUME IntxParams, NEW a \in Nat, NEW b \in Nat, NEW rom \in BOOLEAN, NEW r, RoutesOk(r)
    PROVE  LET t == Intx!Allocated(r, <<a, b>>, rom) IN RoutesOk(t) /\ DOMAIN t.pirq = DOMAIN r.pirq \cup {<<a, b>>}
<1> DEFINE key == <<a, b>>
           t == Intx!Allocated(r, key, rom)
           p == IF rom THEN 1 + ((5 + a + b) % Cardinality(Pirqs)) ELSE Intx!Least(Pirqs, r.use)
           free == {i \in Irqs : i \in Permitted /\ i \notin Reserved}
           q == Intx!Least(free, r.irqs)
<1>1. PICK use, reg, irqs, pirq, line, last :
        /\ r = [use |-> use, reg |-> reg, irqs |-> irqs, pirq |-> pirq, line |-> line, last |-> last]
        /\ use \in UseT /\ reg \in RegT /\ irqs \in TallyT /\ last \in Nat /\ DOMAIN line = DOMAIN pirq
        /\ \A k \in DOMAIN pirq : pirq[k] \in Pirqs /\ line[k] \in Pins
  BY DEF RoutesOk
<1>2. r.use = use /\ r.irqs = irqs /\ r.pirq = pirq /\ r.reg = reg /\ r.last = last /\ r.line = line BY <1>1
<1>3. Cardinality(Pirqs) \in Nat /\ Pirqs = 1..Cardinality(Pirqs) /\ Pirqs # {} /\ Ioapics \in Nat /\ Ioapics > 0
  BY FS_CardinalityType DEF IntxParams
<1>4. p \in Pirqs
  <2>1. CASE rom
    <3> DEFINE c == Cardinality(Pirqs)
               x == 5 + a + b
    <3>1. c \in Nat /\ c > 0 /\ x \in Int BY <1>3
    <3> HIDE DEF c, x
    <3>2. x % c \in 0..(c - 1) BY <3>1
    <3>3. 1 + (x % c) \in 1..c BY <3>1, <3>2
    <3> QED BY <1>3, <2>1, <3>3 DEF c, x
  <2>2. CASE ~rom
    <3>1. Pirqs \subseteq Nat /\ \A x \in Pirqs : use[x] \in Nat BY <1>1, <1>3 DEF UseT
    <3>2. Intx!Least(Pirqs, use) \in Pirqs BY <1>3, <3>1, LeastUsed
    <3> QED BY <1>2, <2>2, <3>2
  <2> QED BY <2>1, <2>2
<1>5. q \in Irqs
  <2>1. free \subseteq Nat /\ free # {} /\ \A x \in free : irqs[x] \in Nat BY <1>1 DEF IntxParams, TallyT
  <2> HIDE DEF free
  <2>2. Intx!Least(free, irqs) \in free BY <2>1, LeastUsed
  <2> QED BY <1>2, <2>2 DEF free
<1> DEFINE ln == (IF rom THEN 5 + a + b ELSE last) % Ioapics
           use2 == [use EXCEPT ![p] = @ + 1]
           pirq2 == [x \in DOMAIN pirq \cup {key} |-> IF x = key THEN p ELSE pirq[x]]
           line2 == [x \in DOMAIN line \cup {key} |-> IF x = key THEN ln ELSE line[x]]
           fresh == reg[p] = Intx!Dis
           reg2 == IF fresh THEN [reg EXCEPT ![p] = q] ELSE reg
           irqs2 == IF fresh THEN [irqs EXCEPT ![q] = @ + 1] ELSE irqs
<1>6. ln \in Pins
  <2> DEFINE x == IF rom THEN 5 + a + b ELSE last
  <2>1. x \in Int BY <1>1
  <2> HIDE DEF x
  <2>2. x % Ioapics \in 0..(Ioapics - 1) BY <1>3, <2>1
  <2> QED BY <2>2 DEF Pins, x
<1>7. t = [use |-> use2, reg |-> reg2, irqs |-> irqs2, pirq |-> pirq2, line |-> line2, last |-> last + 1]
  <2>1. key[1] = a /\ key[2] = b OBVIOUS
  <2>2. p = IF rom THEN 1 + ((5 + key[1] + key[2]) % Intx!Cardinality(Pirqs)) ELSE Intx!Least(Pirqs, r.use)
    BY <2>1, SameCount
  <2>3. ln = (IF rom THEN 5 + key[1] + key[2] ELSE r.last) % Ioapics BY <1>2, <2>1
  <2> HIDE DEF p, q, ln, key
  <2> QED BY <1>1, <1>2, <2>2, <2>3 DEF Intx!Allocated, q, free
<1> HIDE DEF p, q, ln, t
<1>8. use2 \in UseT /\ last + 1 \in Nat BY <1>1, <1>4 DEF UseT
<1>9. reg2 \in RegT /\ irqs2 \in TallyT BY <1>1, <1>4, <1>5 DEF RegT, TallyT
<1>10. DOMAIN line2 = DOMAIN pirq2 /\ \A k \in DOMAIN pirq2 : pirq2[k] \in Pirqs /\ line2[k] \in Pins
  <2> HIDE DEF key
  <2> QED BY <1>1, <1>4, <1>6
<1>11. DOMAIN pirq2 = DOMAIN r.pirq \cup {key} BY <1>2
<1> HIDE DEF use2, reg2, irqs2, pirq2, line2
<1>12. RoutesOk(t) BY <1>7, <1>8, <1>9, <1>10 DEF RoutesOk
<1>13. t.pirq = pirq2 BY <1>7
<1> QED BY <1>11, <1>12, <1>13 DEF t

\* The function that pci_lintr_route() computes device by device.
Routes(f, m, pin, rom) ==
    f = [n \in 0..m |-> IF n = 0 THEN Intx!NoRoutes
                        ELSE Intx!LintrRoute(f[n - 1], <<Slot[Order[n]], pin[Order[n]]>>, rom)]

LEMMA RoutesDefined ==
    ASSUME NEW N \in Nat, NEW pin, NEW rom
    PROVE  \E f : Routes(f, N, pin, rom)
<1> DEFINE E(m) == \E f : Routes(f, m, pin, rom)
           B == {m \in Nat : ~E(m)}
<1>1. E(0)
  <2> DEFINE f == [n \in 0..0 |-> Intx!NoRoutes]
  <2>1. Routes(f, 0, pin, rom) BY DEF Routes
  <2> QED BY <2>1
<1>2. ASSUME NEW m \in Nat, E(m) PROVE E(m + 1)
  <2>1. PICK f : Routes(f, m, pin, rom) BY <1>2
  <2> DEFINE g == [n \in 0..(m + 1) |-> IF n = 0 THEN Intx!NoRoutes
                                        ELSE Intx!LintrRoute(f[n - 1], <<Slot[Order[n]], pin[Order[n]]>>, rom)]
  <2>2. \A n \in 0..m : g[n] = f[n] BY <2>1 DEF Routes
  <2>3. \A n \in 0..(m + 1) : n # 0 => n - 1 \in 0..m OBVIOUS
  <2>4. \A n \in 0..(m + 1) : n # 0 => g[n - 1] = f[n - 1] BY <2>2, <2>3
  <2>5. Routes(g, m + 1, pin, rom) BY <2>4 DEF Routes
  <2> HIDE DEF g
  <2> QED BY <2>5
<1> HIDE DEF E
<1>3. B = {}
  <2>1. SUFFICES ASSUME B # {} PROVE FALSE OBVIOUS
  <2>2. PICK n \in B : \A m \in B : n <= m BY <2>1, Least
  <2>3. n # 0 BY <1>1, <2>2
  <2>4. n - 1 \in Nat /\ n - 1 \notin B BY <2>2, <2>3
  <2>5. E(n - 1) BY <2>4
  <2>6. E((n - 1) + 1) BY <2>4, <2>5, <1>2
  <2>7. (n - 1) + 1 = n BY <2>2
  <2> QED BY <2>2, <2>6, <2>7
<1>4. E(N) BY <1>3
<1> QED BY <1>4 DEF E

LEMMA LinesGiven ==
    ASSUME IntxParams, NEW pin, \A d \in Pci : pin[d] \in IntPins, NEW rom \in BOOLEAN
    PROVE  LET r == Intx!Routed(pin, rom) IN
           /\ r.reg \in RegT
           /\ \A d \in Pci : r.pirq[<<Slot[d], pin[d]>>] \in Pirqs /\ r.line[<<Slot[d], pin[d]>>] \in Pins
<1> DEFINE N == Len(Order)
           Key(d) == <<Slot[d], pin[d]>>
           after[n \in 0..N] == IF n = 0 THEN Intx!NoRoutes
                                ELSE Intx!LintrRoute(after[n - 1], <<Slot[Order[n]], pin[Order[n]]>>, rom)
           J(n) == RoutesOk(after[n]) /\ \A i \in 1..n : Key(Order[i]) \in DOMAIN after[n].pirq
           B == {n \in Nat : n <= N /\ ~J(n)}
<1>1. Intx!Routed(pin, rom) = after[N] BY DEF Intx!Routed
<1>2. N \in Nat /\ DOMAIN Order = 1..N /\ \A n \in 1..N : Order[n] \in Pci BY DEF IntxParams
<1>3. after = [n \in 0..N |-> IF n = 0 THEN Intx!NoRoutes
                              ELSE Intx!LintrRoute(after[n - 1], <<Slot[Order[n]], pin[Order[n]]>>, rom)]
  <2>1. \E f : f = [n \in 0..N |-> IF n = 0 THEN Intx!NoRoutes
                                   ELSE Intx!LintrRoute(f[n - 1], <<Slot[Order[n]], pin[Order[n]]>>, rom)]
    <3>1. PICK f : Routes(f, N, pin, rom) BY <1>2, RoutesDefined
    <3> QED BY <3>1 DEF Routes
  <2> QED BY <2>1
<1> HIDE DEF after
<1>4. after[0] = Intx!NoRoutes /\ \A n \in 1..N : after[n] = Intx!LintrRoute(after[n - 1], Key(Order[n]), rom)
  BY <1>2, <1>3
<1>5. J(0)
  <2> DEFINE use == [p \in Pirqs |-> 0]
             reg == [p \in Pirqs |-> Intx!Dis]
             irqs == [i \in Irqs |-> 0]
             none == [k \in {} |-> 0]
  <2>1. after[0] = [use |-> use, reg |-> reg, irqs |-> irqs, pirq |-> none, line |-> none, last |-> 0]
    BY <1>4 DEF Intx!NoRoutes
  <2>2. use \in UseT /\ reg \in RegT /\ irqs \in TallyT BY DEF UseT, RegT, TallyT
  <2>3. \A k \in DOMAIN none : none[k] \in Pirqs /\ none[k] \in Pins OBVIOUS
  <2> HIDE DEF use, reg, irqs, none
  <2>4. RoutesOk(after[0]) BY <2>1, <2>2, <2>3 DEF RoutesOk
  <2> QED BY <2>4
<1>6. ASSUME NEW n \in 1..N, J(n - 1) PROVE J(n)
  <2> DEFINE a == Slot[Order[n]]
             b == pin[Order[n]]
             s == after[n - 1]
  <2>1. a \in Nat /\ b \in Nat BY <1>2 DEF IntxParams
  <2>2. after[n] = Intx!LintrRoute(s, <<a, b>>, rom) BY <1>4
  <2>3. RoutesOk(s) /\ \A i \in 1..(n - 1) : Key(Order[i]) \in DOMAIN s.pirq BY <1>6
  <2>4. RoutesOk(after[n]) /\ DOMAIN after[n].pirq = DOMAIN s.pirq \cup {<<a, b>>}
    <3> HIDE DEF a, b, s
    <3>1. CASE <<a, b>> \in DOMAIN s.pirq BY <2>2, <2>3, <3>1 DEF Intx!LintrRoute
    <3>2. CASE <<a, b>> \notin DOMAIN s.pirq BY <2>1, <2>2, <2>3, <3>2, AllocatedStep DEF Intx!LintrRoute
    <3> QED BY <3>1, <3>2
  <2>5. Key(Order[n]) = <<a, b>> OBVIOUS
  <2>6. \A i \in 1..n : i \in 1..(n - 1) \/ i = n BY <1>2
  <2> HIDE DEF Key
  <2>7. \A i \in 1..n : Key(Order[i]) \in DOMAIN after[n].pirq BY <2>3, <2>4, <2>5, <2>6
  <2> QED BY <2>4, <2>7
<1> HIDE DEF J
<1>7. B = {}
  <2>1. SUFFICES ASSUME B # {} PROVE FALSE OBVIOUS
  <2>2. PICK n \in B : \A m \in B : n <= m BY <2>1, Least
  <2>3. n # 0 /\ n \in Nat /\ n <= N BY <1>5, <2>2
  <2>4. n - 1 \in Nat /\ n - 1 \notin B /\ n - 1 <= N /\ n \in 1..N BY <1>2, <2>2, <2>3
  <2>5. J(n - 1) BY <2>4
  <2>6. J(n) BY <1>6, <2>4, <2>5
  <2> QED BY <2>2, <2>6
<1>8. J(N) BY <1>2, <1>7
<1>9. RoutesOk(after[N]) /\ \A i \in 1..N : Key(Order[i]) \in DOMAIN after[N].pirq BY <1>8 DEF J
<1>10. \A d \in Pci : \E i \in 1..N : d = Order[i] BY <1>2 DEF Pci, Intx!Devs
<1> HIDE DEF Key
<1>11. \A d \in Pci : Key(d) \in DOMAIN after[N].pirq BY <1>9, <1>10
<1>12. after[N].reg \in RegT /\ \A k \in DOMAIN after[N].pirq : after[N].pirq[k] \in Pirqs /\ after[N].line[k] \in Pins
  BY <1>9 DEF RoutesOk
<1>13. \A d \in Pci : after[N].pirq[Key(d)] \in Pirqs /\ after[N].line[Key(d)] \in Pins BY <1>11, <1>12
<1> QED BY <1>1, <1>12, <1>13 DEF Key

LEMMA IntxStarts ==
    ASSUME IntxParams, Intx!Init
    PROVE  IntxInv(sc)
<1> DEFINE pin == Intx!Requested
<1>1. \A d \in Pci : pin[d] \in IntPins BY PinsGiven
<1> HIDE DEF pin
<1>2. PICK rom \in BOOLEAN :
        LET r == Intx!Routed(pin, rom)
        IN sc = [pirq |-> [d \in Pci |-> r.pirq[<<Slot[d], pin[d]>>]],
                 line |-> [d \in Pci |-> r.line[<<Slot[d], pin[d]>>]],
                 reg |-> r.reg, active |-> [p \in Pirqs |-> 0], pic |-> [i \in Irqs |-> 0],
                 ioapic |-> [l \in 0..(Ioapics - 1) |-> 0], state |-> [d \in Pci |-> "IDLE"],
                 want |-> [d \in Pci |-> FALSE], off |-> [d \in Pci |-> {}], cfg |-> {}, ops |-> 0]
  BY DEF Intx!Init, pin, Pci
<1> DEFINE r == Intx!Routed(pin, rom)
           pq == [d \in Pci |-> r.pirq[<<Slot[d], pin[d]>>]]
           ln == [d \in Pci |-> r.line[<<Slot[d], pin[d]>>]]
           rg == r.reg
<1>3. rg \in RegT /\ pq \in PirqT /\ ln \in LineT BY <1>1, LinesGiven DEF PirqT, LineT
<1>4. sc = [pirq |-> pq, line |-> ln, reg |-> rg, active |-> [p \in Pirqs |-> 0], pic |-> [i \in Irqs |-> 0],
            ioapic |-> [l \in Pins |-> 0], state |-> [d \in Pci |-> "IDLE"],
            want |-> [d \in Pci |-> FALSE], off |-> [d \in Pci |-> {}], cfg |-> {}, ops |-> 0]
  BY <1>2 DEF Pins
<1> HIDE DEF pq, ln, rg
<1>5. sc \in IntxState BY <1>3, <1>4 DEF IntxState, ActiveT, PicT, ApicT, LintrT, WantT, OffT, CfgT
<1>6. /\ \A p \in Pirqs : sc.active[p] = 0
      /\ \A i \in Irqs : sc.pic[i] = 0
      /\ \A l \in Pins : sc.ioapic[l] = 0
      /\ \A d \in Pci : sc.state[d] = "IDLE" /\ ~sc.want[d]
  BY <1>4
<1>7. /\ \A l : OnLine(sc, l) = {}
      /\ \A p : OnPirq(sc, p) = {}
      /\ \A i : OnPic(sc, i) = {}
  BY <1>6 DEF OnLine, OnPirq, OnPic
<1>8. Agree(sc)
  <2>1. Cardinality({}) = 0 BY FS_EmptySet
  <2> QED BY <1>6, <1>7, <2>1 DEF Agree
<1>9. Shown(sc) /\ Kept(sc) BY <1>6 DEF Shown, Kept
<1> QED BY <1>5, <1>8, <1>9 DEF IntxInv

LEMMA IntxAlways ==
    ASSUME IntxParams
    PROVE  IntxSpec => []IntxInv(sc)
<1>1. Intx!Init => IntxInv(sc) BY IntxStarts
<1>2. IntxInv(sc) /\ [Intx!Next]_sc => IntxInv(sc)' BY IntxKeeps
<1> QED BY <1>1, <1>2, PTL DEF IntxSpec

\* Every pin of the I/O APIC and of the PIC is asserted as often as there are
\* devices and active router pins that drive it, and a level a device wants is
\* on its line or remembered, for any number of devices, slots and pins,
\* with any sharing, rerouting and change between INTx and MSI.
THEOREM IntxLines ==
    ASSUME IntxParams
    PROVE  IntxSpec => [](Intx!TypeOK /\ Intx!LinesAgree /\ Intx!WantedIsShown)
<1>1. IntxInv(sc) => Intx!TypeOK /\ Intx!LinesAgree /\ Intx!WantedIsShown
  <2> SUFFICES ASSUME IntxInv(sc) PROVE Intx!TypeOK /\ Intx!LinesAgree /\ Intx!WantedIsShown
    OBVIOUS
  <2>1. sc \in IntxState /\ Agree(sc) /\ Shown(sc) BY DEF IntxInv
  <2>2. sc.state \in LintrT /\ sc.off \in OffT /\ sc.reg \in RegT /\ sc.active \in ActiveT /\ sc.pic \in PicT
        /\ sc.ioapic \in ApicT /\ sc.cfg \in CfgT
    BY <2>1 DEF IntxState
  <2>3. ASSUME NEW p \in Pirqs PROVE sc.active[p] \in 0..Intx!Cardinality(Pci)
    <3>1. OnPirq(sc, p) \subseteq Pci /\ IsFiniteSet(Pci) BY DEF OnPirq, IntxParams
    <3>2. Cardinality(OnPirq(sc, p)) <= Cardinality(Pci) /\ Cardinality(Pci) \in Nat
      BY <3>1, FS_Subset, FS_CardinalityType
    <3>3. sc.active[p] = Cardinality(OnPirq(sc, p)) /\ Cardinality(OnPirq(sc, p)) \in Nat BY <2>1, FinitePins DEF Agree
    <3>4. Intx!Cardinality(Pci) = Cardinality(Pci) BY SameCount
    <3> QED BY <3>2, <3>3, <3>4
  <2>4. Intx!TypeOK
    <3>1. sc.active \in [Pirqs -> 0..Intx!Cardinality(Pci)] BY <2>2, <2>3 DEF ActiveT
    <3> QED BY <2>2, <3>1 DEF Intx!TypeOK, LintrT, OffT, RegT, PicT, ApicT, CfgT, Pci, Pins
  <2>5. Intx!LinesAgree
    <3>1. DOMAIN sc.ioapic = Pins BY <2>2 DEF ApicT
    <3>2. \A l : OnLine(sc, l) = {d \in Intx!Devs : Intx!On(d) /\ sc.line[d] = l} BY DEF OnLine, Pci, Intx!On
    <3>3. \A p : OnPirq(sc, p) = {d \in Intx!Devs : Intx!On(d) /\ sc.pirq[d] = p} BY DEF OnPirq, Pci, Intx!On
    <3>4. \A i : OnPic(sc, i) = {p \in Pirqs : sc.active[p] > 0 /\ Intx!ValidIrq(sc.reg[p]) /\ sc.reg[p] = i} BY DEF OnPic
    <3>5. \A l \in DOMAIN sc.ioapic : sc.ioapic[l] = Intx!Cardinality({d \in Intx!Devs : Intx!On(d) /\ sc.line[d] = l})
      BY <2>1, <3>1, <3>2, SameCount DEF Agree
    <3>6. \A p \in Pirqs : sc.active[p] = Intx!Cardinality({d \in Intx!Devs : Intx!On(d) /\ sc.pirq[d] = p})
      BY <2>1, <3>3, SameCount DEF Agree
    <3>7. \A i \in Irqs : sc.pic[i] = Intx!Cardinality({p \in Pirqs : sc.active[p] > 0 /\ Intx!ValidIrq(sc.reg[p]) /\ sc.reg[p] = i})
      BY <2>1, <3>4, SameCount DEF Agree
    <3> QED BY <3>5, <3>6, <3>7 DEF Intx!LinesAgree
  <2>6. Intx!WantedIsShown BY <2>1 DEF Intx!WantedIsShown, Shown, Pci, Intx!LintrPermitted
  <2> QED BY <2>4, <2>5, <2>6
<1> QED BY <1>1, IntxAlways, PTL

-----------------------------------------------------------------------------
(* Events on their way into a guest *)

EventSpec == Ev!Init /\ [][Ev!Next]_sc

EventParams == Backends \subseteq {"vmx", "svm"} /\ MaxRip \in Nat

AtT     == {"host", "guest", "task"}
OutT    == {"run", "panic", "triple"}
FaultT  == Ev!Faults \cup {"none"}
EventT  == Ev!Events
RipT    == 0..MaxRip
BoolT   == BOOLEAN

Vcpu ==
    [cpu : Backends, at : AtT, out : OutT, nmi : BoolT, ext : BoolT, apic : BoolT, exc : FaultT, exitint : EventT,
     entry : EventT, blk : BoolT, shadow : BoolT, if : BoolT, intwin : BoolT, nmiwin : BoolT, ipi : BoolT,
     rip : RipT, last : RipT, iret : BoolT, kick : BoolT, handler : BoolT, nested : BoolT, badiret : BoolT,
     taken : Nat, given : Nat, dropped : Nat, n : Nat]

\* Who holds an event: at most one of the places it can be in.
OnePlace(s) ==
    /\ s.at = "guest" => s.exc = "none" /\ s.exitint = "none"
    /\ s.at = "task" => s.cpu = "vmx" /\ s.exc = "none" /\ s.entry = "none"
    /\ s.at = "host" /\ s.entry # "none" => s.exc = "none" /\ s.exitint = "none"

\* What was taken is delivered, on its way or replaced by a fault.
Tallied(s) == s.taken = s.given + Ev!External(s.entry) + Ev!External(s.exitint) + s.dropped

\* Why an NMI cannot come while one is handled: NMIs are blocked, or the
\* intercepted IRET is being restarted in a shadow.
NmiBlocked(s) ==
    /\ s.handler /\ ~s.badiret =>
         s.blk \/ (/\ s.cpu = "svm" /\ s.iret /\ s.shadow /\ s.entry = "none" /\ s.exitint = "none" /\ s.exc = "none"
                   /\ s.at = "host" => s.last = s.rip)
    /\ s.entry = "nmi" \/ s.exitint = "nmi" => ~s.handler \/ s.badiret
    /\ s.nested => s.badiret

\* Why the processor accepts what is given to it.
Acceptable(s) ==
    /\ s.cpu = "vmx" /\ s.entry = "nmi" => ~s.blk
    /\ s.cpu = "vmx" /\ s.at = "host" /\ s.exitint = "nmi" /\ s.exc = "none" => ~s.blk
    /\ s.entry = "intr" \/ s.exitint = "intr" => s.if /\ ~s.shadow

\* What is left pending has a way to interrupt the guest.
Windows(s) ==
    /\ s.ext \/ s.apic => s.intwin
    /\ s.cpu = "vmx" /\ s.nmi => s.nmiwin
    /\ s.cpu = "svm" /\ s.nmi /\ ~s.blk => s.ipi \/ s.intwin

EventCore(s) == s \in Vcpu /\ s.out # "panic" /\ Tallied(s) /\ NmiBlocked(s) /\ Acceptable(s)
EventInv(s)  == EventCore(s) /\ OnePlace(s) /\ (s.at = "guest" /\ ~s.kick => Windows(s))

\* One field of the record at a time.
LEMMA VcpuSet ==
    ASSUME NEW s \in Vcpu
    PROVE  /\ \A v \in AtT : [s EXCEPT !.at = v] \in Vcpu
           /\ \A v \in OutT : [s EXCEPT !.out = v] \in Vcpu
           /\ \A v \in FaultT : [s EXCEPT !.exc = v] \in Vcpu
           /\ \A v \in EventT : [s EXCEPT !.exitint = v] \in Vcpu /\ [s EXCEPT !.entry = v] \in Vcpu
           /\ \A v \in RipT : [s EXCEPT !.rip = v] \in Vcpu /\ [s EXCEPT !.last = v] \in Vcpu
           /\ \A v \in Nat : /\ [s EXCEPT !.taken = v] \in Vcpu /\ [s EXCEPT !.given = v] \in Vcpu /\ [s EXCEPT !.dropped = v] \in Vcpu
                             /\ [s EXCEPT !.n = v] \in Vcpu
           /\ \A v \in BoolT : /\ [s EXCEPT !.nmi = v] \in Vcpu /\ [s EXCEPT !.ext = v] \in Vcpu /\ [s EXCEPT !.apic = v] \in Vcpu
                               /\ [s EXCEPT !.blk = v] \in Vcpu /\ [s EXCEPT !.shadow = v] \in Vcpu /\ [s EXCEPT !.if = v] \in Vcpu
                               /\ [s EXCEPT !.intwin = v] \in Vcpu /\ [s EXCEPT !.nmiwin = v] \in Vcpu /\ [s EXCEPT !.ipi = v] \in Vcpu
                               /\ [s EXCEPT !.iret = v] \in Vcpu /\ [s EXCEPT !.kick = v] \in Vcpu /\ [s EXCEPT !.handler = v] \in Vcpu
                               /\ [s EXCEPT !.nested = v] \in Vcpu /\ [s EXCEPT !.badiret = v] \in Vcpu
BY ZenonT(60) DEF Vcpu

LEMMA EvTypes ==
    /\ TRUE \in BoolT /\ FALSE \in BoolT /\ "none" \in EventT /\ "none" \in FaultT /\ {"host", "guest", "task"} \subseteq AtT
    /\ {"run", "panic", "triple"} \subseteq OutT /\ {"nmi", "intr", "pf", "gp", "ud", "df"} \subseteq EventT /\ {"pf", "gp", "ud"} \subseteq FaultT
BY DEF BoolT, EventT, FaultT, AtT, OutT, Ev!Events, Ev!Faults

LEMMA EvExitType == ASSUME NEW s \in Vcpu  PROVE Ev!Exit(s) \in Vcpu
<1>1. s.rip \in RipT
    BY DEF Vcpu
<1> QED BY <1>1, VcpuSet, EvTypes, ZenonT(30) DEF Ev!Exit

LEMMA EvReceivedType == ASSUME NEW s \in Vcpu, NEW e \in EventT  PROVE Ev!Received(s, e) \in Vcpu
<1>1. s.given \in Nat /\ Ev!External(e) \in Nat
    BY DEF Vcpu, Ev!External
<1>2. s.given + Ev!External(e) \in Nat
    BY <1>1
<1>3. /\ (s.handler \/ e = "nmi") \in BoolT /\ (s.nested \/ (e = "nmi" /\ s.handler)) \in BoolT /\ (s.blk \/ e = "nmi") \in BoolT
      /\ (s.if /\ e # "intr") \in BoolT
    BY Zenon DEF BoolT
<1> DEFINE g == s.given + Ev!External(e)  h == s.handler \/ e = "nmi"  n == s.nested \/ (e = "nmi" /\ s.handler)
           b == s.blk \/ e = "nmi"  i == s.if /\ e # "intr"
<1>4. Ev!Received(s, e) = [s EXCEPT !.given = g, !.handler = h, !.nested = n, !.blk = b, !.if = i, !.shadow = FALSE, !.iret = FALSE]
    BY Zenon DEF Ev!Received
<1>5. g \in Nat /\ h \in BoolT /\ n \in BoolT /\ b \in BoolT /\ i \in BoolT
    BY <1>2, <1>3, Zenon
<1> HIDE DEF g, h, n, b, i
<1> DEFINE x == [s EXCEPT !.given = g, !.handler = h, !.nested = n]
           y == [x EXCEPT !.blk = b, !.if = i]
<1>6. x \in Vcpu
    BY <1>5, VcpuSet, ZenonT(30)
<1>7. Ev!Received(s, e) = [y EXCEPT !.shadow = FALSE, !.iret = FALSE]
    BY <1>4
<1> HIDE DEF x
<1>8. y \in Vcpu
    BY <1>5, <1>6, VcpuSet, ZenonT(30)
<1> HIDE DEF y
<1>9. [y EXCEPT !.shadow = FALSE, !.iret = FALSE] \in Vcpu
    BY <1>8, VcpuSet, EvTypes, ZenonT(30)
<1> QED BY <1>7, <1>9

\* An exit between two instructions.
LEMMA EvExit ==
    ASSUME EventParams, NEW s, EventInv(s), s.at = "guest", s.entry = "none"
    PROVE  EventInv(Ev!Exit(s))
<1> DEFINE t == Ev!Exit(s)
<1>0. s \in Vcpu
    BY DEF EventInv, EventCore
<1>1. s.rip \in RipT
    BY <1>0 DEF Vcpu
<1>2. t \in Vcpu
    BY <1>0, <1>1, VcpuSet, EvTypes, ZenonT(30) DEF Ev!Exit
<1>3. /\ t.at = "host" /\ t.last = s.rip /\ t.ipi = FALSE
      /\ t.cpu = s.cpu /\ t.out = s.out /\ t.nmi = s.nmi /\ t.ext = s.ext /\ t.apic = s.apic /\ t.exc = s.exc
      /\ t.exitint = s.exitint /\ t.entry = s.entry /\ t.blk = s.blk /\ t.shadow = s.shadow /\ t.if = s.if /\ t.intwin = s.intwin
      /\ t.nmiwin = s.nmiwin /\ t.rip = s.rip /\ t.iret = s.iret /\ t.kick = s.kick /\ t.handler = s.handler /\ t.nested = s.nested
      /\ t.badiret = s.badiret /\ t.taken = s.taken /\ t.given = s.given /\ t.dropped = s.dropped /\ t.n = s.n
    BY <1>0, SMTT(30) DEF Vcpu, Ev!Exit
<1> HIDE DEF t
<1>4. Tallied(t)
    BY <1>1, <1>3 DEF EventInv, EventCore, Tallied, OnePlace, Ev!External
<1>5. NmiBlocked(t)
    BY <1>1, <1>3 DEF EventInv, EventCore, NmiBlocked, OnePlace
<1>6. Acceptable(t) /\ OnePlace(t) /\ t.out # "panic"
    BY <1>1, <1>3 DEF EventInv, EventCore, Acceptable, OnePlace
<1>7. t.at = "guest" /\ ~t.kick => Windows(t)
    BY <1>1, <1>3 DEF EventInv, EventCore, Windows
<1> QED BY <1>2, <1>3, <1>4, <1>5, <1>6, <1>7 DEF EventInv, EventCore, t

\* A fault queued behind what is being delivered.
LEMMA EvInject ==
    ASSUME EventParams, NEW s, EventInv(s), s.at \in {"host", "task"}, s.entry = "none",
           s.handler /\ ~s.badiret => s.blk, NEW e \in Ev!Faults
    PROVE  EventInv([s EXCEPT !.exc = e, !.shadow = FALSE, !.at = "host"])
<1> DEFINE t == [s EXCEPT !.exc = e, !.shadow = FALSE, !.at = "host"]
<1>0. s \in Vcpu
    BY DEF EventInv, EventCore
<1>1. e \in FaultT /\ e # "none"
    BY <1>0 DEF Vcpu, FaultT, Ev!Faults
<1>2. t \in Vcpu
    BY <1>0, <1>1, VcpuSet, EvTypes, ZenonT(30)
<1>3. /\ t.exc = e /\ t.shadow = FALSE /\ t.at = "host"
      /\ t.cpu = s.cpu /\ t.out = s.out /\ t.nmi = s.nmi /\ t.ext = s.ext /\ t.apic = s.apic /\ t.exitint = s.exitint
      /\ t.entry = s.entry /\ t.blk = s.blk /\ t.if = s.if /\ t.intwin = s.intwin /\ t.nmiwin = s.nmiwin /\ t.ipi = s.ipi
      /\ t.rip = s.rip /\ t.last = s.last /\ t.iret = s.iret /\ t.kick = s.kick /\ t.handler = s.handler /\ t.nested = s.nested
      /\ t.badiret = s.badiret /\ t.taken = s.taken /\ t.given = s.given /\ t.dropped = s.dropped /\ t.n = s.n
    BY <1>0, SMTT(30) DEF Vcpu
<1> HIDE DEF t
<1>4. Tallied(t)
    BY <1>1, <1>3 DEF EventInv, EventCore, Tallied, OnePlace, Ev!External
<1>5. NmiBlocked(t)
    BY <1>1, <1>3 DEF EventInv, EventCore, NmiBlocked, OnePlace
<1>6. Acceptable(t) /\ OnePlace(t) /\ t.out # "panic"
    BY <1>1, <1>3 DEF EventInv, EventCore, Acceptable, OnePlace
<1>7. t.at = "guest" /\ ~t.kick => Windows(t)
    BY <1>1, <1>3 DEF EventInv, EventCore, Windows
<1> QED BY <1>2, <1>3, <1>4, <1>5, <1>6, <1>7 DEF EventInv, EventCore, t

\* An instruction completed by its exit.
LEMMA EvAdvance ==
    ASSUME EventParams, NEW s, EventInv(s), s.at = "host", s.rip < MaxRip, ~s.iret
    PROVE  EventInv([s EXCEPT !.rip = @ + 1])
<1> DEFINE t == [s EXCEPT !.rip = @ + 1]
<1>0. s \in Vcpu
    BY DEF EventInv, EventCore
<1>1. s.rip \in Nat /\ s.rip + 1 \in RipT
    BY <1>0 DEF Vcpu, RipT, EventParams
<1>2. t \in Vcpu
    BY <1>0, <1>1, VcpuSet, EvTypes, ZenonT(30)
<1>3. /\ t.rip = s.rip + 1
      /\ t.cpu = s.cpu /\ t.at = s.at /\ t.out = s.out /\ t.nmi = s.nmi /\ t.ext = s.ext /\ t.apic = s.apic
      /\ t.exc = s.exc /\ t.exitint = s.exitint /\ t.entry = s.entry /\ t.blk = s.blk /\ t.shadow = s.shadow /\ t.if = s.if
      /\ t.intwin = s.intwin /\ t.nmiwin = s.nmiwin /\ t.ipi = s.ipi /\ t.last = s.last /\ t.iret = s.iret /\ t.kick = s.kick
      /\ t.handler = s.handler /\ t.nested = s.nested /\ t.badiret = s.badiret /\ t.taken = s.taken /\ t.given = s.given /\ t.dropped = s.dropped
      /\ t.n = s.n
    BY <1>0, SMTT(30) DEF Vcpu
<1> HIDE DEF t
<1>4. Tallied(t)
    BY <1>1, <1>3 DEF EventInv, EventCore, Tallied, OnePlace, Ev!External
<1>5. NmiBlocked(t)
    BY <1>1, <1>3 DEF EventInv, EventCore, NmiBlocked, OnePlace
<1>6. Acceptable(t) /\ OnePlace(t) /\ t.out # "panic"
    BY <1>1, <1>3 DEF EventInv, EventCore, Acceptable, OnePlace
<1>7. t.at = "guest" /\ ~t.kick => Windows(t)
    BY <1>1, <1>3 DEF EventInv, EventCore, Windows
<1> QED BY <1>2, <1>3, <1>4, <1>5, <1>6, <1>7 DEF EventInv, EventCore, t

\* An instruction of the guest.
LEMMA EvInstr ==
    ASSUME EventParams, NEW s, EventInv(s), s.at = "guest", s.entry = "none", s.rip < MaxRip, ~s.iret, NEW f \in BoolT
    PROVE  EventInv([Ev!Executed(s) EXCEPT !.if = f])
<1> DEFINE t == [Ev!Executed(s) EXCEPT !.if = f]
<1>0. s \in Vcpu
    BY DEF EventInv, EventCore
<1>1. s.rip \in Nat /\ s.rip + 1 \in RipT
    BY <1>0 DEF Vcpu, RipT, EventParams
<1>2. t \in Vcpu
    BY <1>0, <1>1, VcpuSet, EvTypes, ZenonT(30) DEF Ev!Executed
<1>3. /\ t.rip = s.rip + 1 /\ t.if = f
      /\ t.shadow = FALSE
      /\ t.cpu = s.cpu /\ t.at = s.at /\ t.out = s.out /\ t.nmi = s.nmi /\ t.ext = s.ext /\ t.apic = s.apic
      /\ t.exc = s.exc /\ t.exitint = s.exitint /\ t.entry = s.entry /\ t.blk = s.blk /\ t.intwin = s.intwin /\ t.nmiwin = s.nmiwin
      /\ t.ipi = s.ipi /\ t.last = s.last /\ t.iret = s.iret /\ t.kick = s.kick /\ t.handler = s.handler /\ t.nested = s.nested
      /\ t.badiret = s.badiret /\ t.taken = s.taken /\ t.given = s.given /\ t.dropped = s.dropped /\ t.n = s.n
    BY <1>0, SMTT(30) DEF Vcpu, Ev!Executed
<1> HIDE DEF t
<1>4. Tallied(t)
    BY <1>1, <1>3 DEF EventInv, EventCore, Tallied, OnePlace, Ev!External
<1>5. NmiBlocked(t)
    BY <1>1, <1>3 DEF EventInv, EventCore, NmiBlocked, OnePlace
<1>6. Acceptable(t) /\ OnePlace(t) /\ t.out # "panic"
    BY <1>1, <1>3 DEF EventInv, EventCore, Acceptable, OnePlace
<1>7. t.at = "guest" /\ ~t.kick => Windows(t)
    BY <1>1, <1>3 DEF EventInv, EventCore, Windows
<1> QED BY <1>2, <1>3, <1>4, <1>5, <1>6, <1>7 DEF EventInv, EventCore, t

\* STI: the next instruction is in its shadow.
LEMMA EvSti ==
    ASSUME EventParams, NEW s, EventInv(s), s.at = "guest", s.entry = "none", s.rip < MaxRip, ~s.iret
    PROVE  EventInv([Ev!Executed(s) EXCEPT !.if = TRUE, !.shadow = TRUE])
<1> DEFINE t == [Ev!Executed(s) EXCEPT !.if = TRUE, !.shadow = TRUE]
<1>0. s \in Vcpu
    BY DEF EventInv, EventCore
<1>1. s.rip \in Nat /\ s.rip + 1 \in RipT
    BY <1>0 DEF Vcpu, RipT, EventParams
<1>2. t \in Vcpu
    BY <1>0, <1>1, VcpuSet, EvTypes, ZenonT(30) DEF Ev!Executed
<1>3. /\ t.rip = s.rip + 1 /\ t.if = TRUE
      /\ t.shadow = TRUE
      /\ t.cpu = s.cpu /\ t.at = s.at /\ t.out = s.out /\ t.nmi = s.nmi /\ t.ext = s.ext /\ t.apic = s.apic
      /\ t.exc = s.exc /\ t.exitint = s.exitint /\ t.entry = s.entry /\ t.blk = s.blk /\ t.intwin = s.intwin /\ t.nmiwin = s.nmiwin
      /\ t.ipi = s.ipi /\ t.last = s.last /\ t.iret = s.iret /\ t.kick = s.kick /\ t.handler = s.handler /\ t.nested = s.nested
      /\ t.badiret = s.badiret /\ t.taken = s.taken /\ t.given = s.given /\ t.dropped = s.dropped /\ t.n = s.n
    BY <1>0, SMTT(30) DEF Vcpu, Ev!Executed
<1> HIDE DEF t
<1>4. Tallied(t)
    BY <1>1, <1>3 DEF EventInv, EventCore, Tallied, OnePlace, Ev!External
<1>5. NmiBlocked(t)
    BY <1>1, <1>3 DEF EventInv, EventCore, NmiBlocked, OnePlace
<1>6. Acceptable(t) /\ OnePlace(t) /\ t.out # "panic"
    BY <1>1, <1>3 DEF EventInv, EventCore, Acceptable, OnePlace
<1>7. t.at = "guest" /\ ~t.kick => Windows(t)
    BY <1>1, <1>3 DEF EventInv, EventCore, Windows
<1> QED BY <1>2, <1>3, <1>4, <1>5, <1>6, <1>7 DEF EventInv, EventCore, t

\* The IRET of an NMI handler.
LEMMA EvIret ==
    ASSUME EventParams, NEW s, EventInv(s), s.at = "guest", s.entry = "none", s.rip < MaxRip,
           s.cpu = "svm" => ~s.blk, NEW f \in BoolT
    PROVE  EventInv([Ev!Executed(s) EXCEPT !.blk = FALSE, !.handler = FALSE, !.if = f, !.iret = FALSE])
<1> DEFINE t == [Ev!Executed(s) EXCEPT !.blk = FALSE, !.handler = FALSE, !.if = f, !.iret = FALSE]
<1>0. s \in Vcpu
    BY DEF EventInv, EventCore
<1>1. s.rip \in Nat /\ s.rip + 1 \in RipT
    BY <1>0 DEF Vcpu, RipT, EventParams
<1>2. t \in Vcpu
    BY <1>0, <1>1, VcpuSet, EvTypes, ZenonT(30) DEF Ev!Executed
<1>3. /\ t.rip = s.rip + 1 /\ t.shadow = FALSE
      /\ t.blk = FALSE /\ t.handler = FALSE /\ t.if = f
      /\ t.iret = FALSE
      /\ t.cpu = s.cpu /\ t.at = s.at /\ t.out = s.out /\ t.nmi = s.nmi /\ t.ext = s.ext /\ t.apic = s.apic
      /\ t.exc = s.exc /\ t.exitint = s.exitint /\ t.entry = s.entry /\ t.intwin = s.intwin /\ t.nmiwin = s.nmiwin /\ t.ipi = s.ipi
      /\ t.last = s.last /\ t.kick = s.kick /\ t.nested = s.nested /\ t.badiret = s.badiret /\ t.taken = s.taken /\ t.given = s.given
      /\ t.dropped = s.dropped /\ t.n = s.n
    BY <1>0, SMTT(30) DEF Vcpu, Ev!Executed
<1> HIDE DEF t
<1>4. Tallied(t)
    BY <1>1, <1>3 DEF EventInv, EventCore, Tallied, OnePlace, Ev!External
<1>5. NmiBlocked(t)
    BY <1>1, <1>3 DEF EventInv, EventCore, NmiBlocked, OnePlace
<1>6. Acceptable(t) /\ OnePlace(t) /\ t.out # "panic"
    BY <1>1, <1>3 DEF EventInv, EventCore, Acceptable, OnePlace
<1>7. t.at = "guest" /\ ~t.kick => Windows(t)
    BY <1>1, <1>3 DEF EventInv, EventCore, Windows
<1> QED BY <1>2, <1>3, <1>4, <1>5, <1>6, <1>7 DEF EventInv, EventCore, t

\* The intercepted IRET: it is restarted in a shadow.
LEMMA EvIretExit ==
    ASSUME EventParams, NEW s, EventInv(s), s.at = "guest", s.entry = "none", s.cpu = "svm"
    PROVE  EventInv([Ev!Exit(s) EXCEPT !.blk = FALSE, !.shadow = TRUE, !.iret = TRUE])
<1> DEFINE t == [Ev!Exit(s) EXCEPT !.blk = FALSE, !.shadow = TRUE, !.iret = TRUE]
<1>0. s \in Vcpu
    BY DEF EventInv, EventCore
<1>1. s.rip \in RipT
    BY <1>0 DEF Vcpu
<1>2. t \in Vcpu
    BY <1>0, <1>1, VcpuSet, EvTypes, ZenonT(30) DEF Ev!Exit
<1>3. /\ t.at = "host" /\ t.last = s.rip /\ t.ipi = FALSE
      /\ t.blk = FALSE /\ t.shadow = TRUE /\ t.iret = TRUE
      /\ t.cpu = s.cpu /\ t.out = s.out /\ t.nmi = s.nmi /\ t.ext = s.ext /\ t.apic = s.apic /\ t.exc = s.exc
      /\ t.exitint = s.exitint /\ t.entry = s.entry /\ t.if = s.if /\ t.intwin = s.intwin /\ t.nmiwin = s.nmiwin /\ t.rip = s.rip
      /\ t.kick = s.kick /\ t.handler = s.handler /\ t.nested = s.nested /\ t.badiret = s.badiret /\ t.taken = s.taken /\ t.given = s.given
      /\ t.dropped = s.dropped /\ t.n = s.n
    BY <1>0, SMTT(30) DEF Vcpu, Ev!Exit
<1> HIDE DEF t
<1>4. Tallied(t)
    BY <1>1, <1>3 DEF EventInv, EventCore, Tallied, OnePlace, Ev!External
<1>5. NmiBlocked(t)
    BY <1>1, <1>3 DEF EventInv, EventCore, NmiBlocked, OnePlace
<1>6. Acceptable(t) /\ OnePlace(t) /\ t.out # "panic"
    BY <1>1, <1>3 DEF EventInv, EventCore, Acceptable, OnePlace
<1>7. t.at = "guest" /\ ~t.kick => Windows(t)
    BY <1>1, <1>3 DEF EventInv, EventCore, Windows
<1> QED BY <1>2, <1>3, <1>4, <1>5, <1>6, <1>7 DEF EventInv, EventCore, t

\* A fault in an IRET whose intercept was cleared.
LEMMA EvBadIretSvm ==
    ASSUME EventParams, NEW s, EventInv(s), s.at = "guest", s.entry = "none", NEW h \in BoolT
    PROVE  EventInv(Ev!Exit([[s EXCEPT !.badiret = TRUE] EXCEPT !.shadow = h]))
<1> DEFINE t == Ev!Exit([[s EXCEPT !.badiret = TRUE] EXCEPT !.shadow = h])
<1>0. s \in Vcpu
    BY DEF EventInv, EventCore
<1>1. s.rip \in RipT
    BY <1>0 DEF Vcpu
<1>2. t \in Vcpu
  <2>1. [[s EXCEPT !.badiret = TRUE] EXCEPT !.shadow = h] \in Vcpu
      BY <1>0, VcpuSet, EvTypes, ZenonT(30)
  <2> QED BY <2>1, EvExitType
<1>3. /\ t.at = "host" /\ t.last = s.rip /\ t.ipi = FALSE
      /\ t.badiret = TRUE /\ t.shadow = h
      /\ t.cpu = s.cpu /\ t.out = s.out /\ t.nmi = s.nmi /\ t.ext = s.ext /\ t.apic = s.apic /\ t.exc = s.exc
      /\ t.exitint = s.exitint /\ t.entry = s.entry /\ t.blk = s.blk /\ t.if = s.if /\ t.intwin = s.intwin /\ t.nmiwin = s.nmiwin
      /\ t.rip = s.rip /\ t.iret = s.iret /\ t.kick = s.kick /\ t.handler = s.handler /\ t.nested = s.nested /\ t.taken = s.taken
      /\ t.given = s.given /\ t.dropped = s.dropped /\ t.n = s.n
    BY <1>0, SMTT(30) DEF Vcpu, Ev!Exit
<1> HIDE DEF t
<1>4. Tallied(t)
    BY <1>1, <1>3 DEF EventInv, EventCore, Tallied, OnePlace, Ev!External
<1>5. NmiBlocked(t)
    BY <1>1, <1>3 DEF EventInv, EventCore, NmiBlocked, OnePlace
<1>6. Acceptable(t) /\ OnePlace(t) /\ t.out # "panic"
    BY <1>1, <1>3 DEF EventInv, EventCore, Acceptable, OnePlace
<1>7. t.at = "guest" /\ ~t.kick => Windows(t)
    BY <1>1, <1>3 DEF EventInv, EventCore, Windows
<1> QED BY <1>2, <1>3, <1>4, <1>5, <1>6, <1>7 DEF EventInv, EventCore, t

\* A fault in an IRET under VT-x.
LEMMA EvBadIretVmx ==
    ASSUME EventParams, NEW s, EventInv(s), s.at = "guest", s.entry = "none", s.cpu = "vmx", NEW h \in BoolT
    PROVE  EventInv(Ev!Exit([s EXCEPT !.shadow = h]))
<1> DEFINE t == Ev!Exit([s EXCEPT !.shadow = h])
<1>0. s \in Vcpu
    BY DEF EventInv, EventCore
<1>1. s.rip \in RipT
    BY <1>0 DEF Vcpu
<1>2. t \in Vcpu
  <2>1. [s EXCEPT !.shadow = h] \in Vcpu
      BY <1>0, VcpuSet, EvTypes, ZenonT(30)
  <2> QED BY <2>1, EvExitType
<1>3. /\ t.at = "host" /\ t.last = s.rip /\ t.ipi = FALSE
      /\ t.shadow = h
      /\ t.cpu = s.cpu /\ t.out = s.out /\ t.nmi = s.nmi /\ t.ext = s.ext /\ t.apic = s.apic /\ t.exc = s.exc
      /\ t.exitint = s.exitint /\ t.entry = s.entry /\ t.blk = s.blk /\ t.if = s.if /\ t.intwin = s.intwin /\ t.nmiwin = s.nmiwin
      /\ t.rip = s.rip /\ t.iret = s.iret /\ t.kick = s.kick /\ t.handler = s.handler /\ t.nested = s.nested /\ t.badiret = s.badiret
      /\ t.taken = s.taken /\ t.given = s.given /\ t.dropped = s.dropped /\ t.n = s.n
    BY <1>0, SMTT(30) DEF Vcpu, Ev!Exit
<1> HIDE DEF t
<1>4. Tallied(t)
    BY <1>1, <1>3 DEF EventInv, EventCore, Tallied, OnePlace, Ev!External
<1>5. NmiBlocked(t)
    BY <1>1, <1>3 DEF EventInv, EventCore, NmiBlocked, OnePlace
<1>6. Acceptable(t) /\ OnePlace(t) /\ t.out # "panic"
    BY <1>1, <1>3 DEF EventInv, EventCore, Acceptable, OnePlace
<1>7. t.at = "guest" /\ ~t.kick => Windows(t)
    BY <1>1, <1>3 DEF EventInv, EventCore, Windows
<1> QED BY <1>2, <1>3, <1>4, <1>5, <1>6, <1>7 DEF EventInv, EventCore, t

\* The processor delivers the event of the entry.
LEMMA EvDeliver ==
    ASSUME EventParams, NEW s, EventInv(s), s.at = "guest", s.entry # "none", NEW e, e = s.entry
    PROVE  EventInv(Ev!Received([s EXCEPT !.entry = "none"], e))
<1> DEFINE t == Ev!Received([s EXCEPT !.entry = "none"], e)
<1>0. s \in Vcpu
    BY DEF EventInv, EventCore
<1>1. /\ s.handler \in BOOLEAN /\ s.nested \in BOOLEAN /\ s.blk \in BOOLEAN /\ s.if \in BOOLEAN /\ s.given \in Nat /\ s.taken \in Nat /\ s.dropped \in Nat
      /\ s.given + Ev!External(e) \in Nat /\ s.exitint \in EventT /\ s.entry \in EventT
    BY <1>0 DEF Vcpu, BoolT, Ev!External
<1>2. t \in Vcpu
  <2>1. [s EXCEPT !.entry = "none"] \in Vcpu
      BY <1>0, VcpuSet, EvTypes, ZenonT(30)
  <2> QED BY <1>1, <2>1, EvReceivedType
<1>3. /\ t.handler = (s.handler \/ e = "nmi") /\ t.nested = (s.nested \/ (e = "nmi" /\ s.handler)) /\ t.blk = (s.blk \/ e = "nmi")
      /\ t.if = (s.if /\ e # "intr") /\ t.shadow = FALSE /\ t.iret = FALSE
      /\ t.given = s.given + Ev!External(e) /\ t.entry = "none"
      /\ t.cpu = s.cpu /\ t.at = s.at /\ t.out = s.out /\ t.nmi = s.nmi /\ t.ext = s.ext /\ t.apic = s.apic
      /\ t.exc = s.exc /\ t.exitint = s.exitint /\ t.intwin = s.intwin /\ t.nmiwin = s.nmiwin /\ t.ipi = s.ipi /\ t.rip = s.rip
      /\ t.last = s.last /\ t.kick = s.kick /\ t.badiret = s.badiret /\ t.taken = s.taken /\ t.dropped = s.dropped
      /\ t.n = s.n
    BY <1>0, SMTT(30) DEF Vcpu, Ev!Received
<1> HIDE DEF t
<1>4. Tallied(t)
    BY <1>1, <1>3 DEF EventInv, EventCore, Tallied, OnePlace, Ev!External
<1>5. NmiBlocked(t)
    BY <1>1, <1>3 DEF EventInv, EventCore, NmiBlocked, OnePlace
<1>6. Acceptable(t) /\ OnePlace(t) /\ t.out # "panic"
    BY <1>1, <1>3 DEF EventInv, EventCore, Acceptable, OnePlace
<1>7. t.at = "guest" /\ ~t.kick => Windows(t)
    BY <1>1, <1>3 DEF EventInv, EventCore, Windows
<1> QED BY <1>2, <1>3, <1>4, <1>5, <1>6, <1>7 DEF EventInv, EventCore, t

\* The task gate of an event has been walked.
LEMMA EvTaskDone ==
    ASSUME EventParams, NEW s, EventInv(s), s.at = "task", NEW e, e = s.exitint
    PROVE  EventInv([Ev!Received(s, e) EXCEPT !.exitint = "none", !.at = "host"])
<1> DEFINE t == [Ev!Received(s, e) EXCEPT !.exitint = "none", !.at = "host"]
<1>0. s \in Vcpu
    BY DEF EventInv, EventCore
<1>1. /\ s.handler \in BOOLEAN /\ s.nested \in BOOLEAN /\ s.blk \in BOOLEAN /\ s.if \in BOOLEAN /\ s.given \in Nat /\ s.taken \in Nat /\ s.dropped \in Nat
      /\ s.given + Ev!External(e) \in Nat /\ s.exitint \in EventT /\ s.entry \in EventT
    BY <1>0 DEF Vcpu, BoolT, Ev!External
<1>2. t \in Vcpu
  <2>1. Ev!Received(s, e) \in Vcpu
      BY <1>0, <1>1, EvReceivedType
  <2> QED BY <2>1, VcpuSet, EvTypes, ZenonT(30)
<1>3. /\ t.handler = (s.handler \/ e = "nmi") /\ t.nested = (s.nested \/ (e = "nmi" /\ s.handler)) /\ t.blk = (s.blk \/ e = "nmi")
      /\ t.if = (s.if /\ e # "intr") /\ t.shadow = FALSE /\ t.iret = FALSE
      /\ t.given = s.given + Ev!External(e) /\ t.exitint = "none" /\ t.at = "host"
      /\ t.cpu = s.cpu /\ t.out = s.out /\ t.nmi = s.nmi /\ t.ext = s.ext /\ t.apic = s.apic /\ t.exc = s.exc
      /\ t.entry = s.entry /\ t.intwin = s.intwin /\ t.nmiwin = s.nmiwin /\ t.ipi = s.ipi /\ t.rip = s.rip /\ t.last = s.last
      /\ t.kick = s.kick /\ t.badiret = s.badiret /\ t.taken = s.taken /\ t.dropped = s.dropped /\ t.n = s.n
    BY <1>0, SMTT(30) DEF Vcpu, Ev!Received
<1> HIDE DEF t
<1>4. Tallied(t)
    BY <1>1, <1>3 DEF EventInv, EventCore, Tallied, OnePlace, Ev!External
<1>5. NmiBlocked(t)
    BY <1>1, <1>3 DEF EventInv, EventCore, NmiBlocked, OnePlace
<1>6. Acceptable(t) /\ OnePlace(t) /\ t.out # "panic"
    BY <1>1, <1>3 DEF EventInv, EventCore, Acceptable, OnePlace
<1>7. t.at = "guest" /\ ~t.kick => Windows(t)
    BY <1>1, <1>3 DEF EventInv, EventCore, Windows
<1> QED BY <1>2, <1>3, <1>4, <1>5, <1>6, <1>7 DEF EventInv, EventCore, t

\* An exit in the middle of a delivery: the event goes back to exitintinfo.
LEMMA EvSave ==
    ASSUME EventParams, NEW s, EventInv(s), s.at = "guest", s.entry # "none", NEW b \in BoolT,
           IF s.cpu = "vmx" /\ s.entry = "nmi" THEN ~b ELSE b = s.blk
    PROVE  /\ EventInv(Ev!Exit([s EXCEPT !.exitint = s.entry, !.entry = "none", !.blk = b]))
           /\ LET x == Ev!Exit([s EXCEPT !.exitint = s.entry, !.entry = "none", !.blk = b])
              IN x.at = "host" /\ x.entry = "none" /\ x.exc = "none" /\ (x.handler /\ ~x.badiret => x.blk)
<1> DEFINE t == Ev!Exit([s EXCEPT !.exitint = s.entry, !.entry = "none", !.blk = b])
<1>0. s \in Vcpu
    BY DEF EventInv, EventCore
<1>1. s.rip \in RipT /\ s.entry \in EventT /\ s.given \in Nat /\ s.taken \in Nat /\ s.dropped \in Nat
    BY <1>0 DEF Vcpu
<1>2. t \in Vcpu
  <2>1. [s EXCEPT !.exitint = s.entry, !.entry = "none", !.blk = b] \in Vcpu
      BY <1>0, <1>1, VcpuSet, EvTypes, ZenonT(30)
  <2> QED BY <2>1, EvExitType
<1>3. /\ t.at = "host" /\ t.last = s.rip /\ t.ipi = FALSE
      /\ t.exitint = s.entry /\ t.entry = "none" /\ t.blk = b
      /\ t.cpu = s.cpu /\ t.out = s.out /\ t.nmi = s.nmi /\ t.ext = s.ext /\ t.apic = s.apic /\ t.exc = s.exc
      /\ t.shadow = s.shadow /\ t.if = s.if /\ t.intwin = s.intwin /\ t.nmiwin = s.nmiwin /\ t.rip = s.rip /\ t.iret = s.iret
      /\ t.kick = s.kick /\ t.handler = s.handler /\ t.nested = s.nested /\ t.badiret = s.badiret /\ t.taken = s.taken /\ t.given = s.given
      /\ t.dropped = s.dropped /\ t.n = s.n
    BY <1>0, SMTT(30) DEF Vcpu, Ev!Exit
<1> HIDE DEF t
<1>4. Tallied(t)
    BY <1>1, <1>3 DEF EventInv, EventCore, Tallied, OnePlace, Ev!External
<1>5. NmiBlocked(t)
    BY <1>1, <1>3 DEF EventInv, EventCore, NmiBlocked, OnePlace
<1>6. Acceptable(t) /\ OnePlace(t) /\ t.out # "panic"
    BY <1>1, <1>3 DEF EventInv, EventCore, Acceptable, OnePlace
<1>7. t.at = "guest" /\ ~t.kick => Windows(t)
    BY <1>1, <1>3 DEF EventInv, EventCore, Windows
<1>8. t.exc = "none" /\ (t.handler /\ ~t.badiret => t.blk)
    BY <1>3 DEF EventInv, EventCore, NmiBlocked, OnePlace
<1> QED BY <1>2, <1>3, <1>4, <1>5, <1>6, <1>7, <1>8 DEF EventInv, EventCore, t

\* The delivery goes through a task gate.
LEMMA EvSaveTask ==
    ASSUME EventParams, NEW s, EventInv(s), s.at = "guest", s.entry # "none", s.cpu = "vmx", NEW b \in BoolT,
           s.entry # "nmi" => b = s.blk
    PROVE  EventInv([Ev!Exit([s EXCEPT !.exitint = s.entry, !.entry = "none", !.blk = b]) EXCEPT !.at = "task"])
<1> DEFINE t == [Ev!Exit([s EXCEPT !.exitint = s.entry, !.entry = "none", !.blk = b]) EXCEPT !.at = "task"]
<1>0. s \in Vcpu
    BY DEF EventInv, EventCore
<1>1. s.rip \in RipT /\ s.entry \in EventT /\ s.given \in Nat /\ s.taken \in Nat /\ s.dropped \in Nat
    BY <1>0 DEF Vcpu
<1>2. t \in Vcpu
  <2>1. [s EXCEPT !.exitint = s.entry, !.entry = "none", !.blk = b] \in Vcpu
      BY <1>0, <1>1, VcpuSet, EvTypes, ZenonT(30)
  <2>2. Ev!Exit([s EXCEPT !.exitint = s.entry, !.entry = "none", !.blk = b]) \in Vcpu
      BY <2>1, EvExitType
  <2> QED BY <2>2, VcpuSet, EvTypes, ZenonT(30)
<1>3. /\ t.at = "task" /\ t.last = s.rip /\ t.ipi = FALSE
      /\ t.exitint = s.entry /\ t.entry = "none" /\ t.blk = b
      /\ t.cpu = s.cpu /\ t.out = s.out /\ t.nmi = s.nmi /\ t.ext = s.ext /\ t.apic = s.apic /\ t.exc = s.exc
      /\ t.shadow = s.shadow /\ t.if = s.if /\ t.intwin = s.intwin /\ t.nmiwin = s.nmiwin /\ t.rip = s.rip /\ t.iret = s.iret
      /\ t.kick = s.kick /\ t.handler = s.handler /\ t.nested = s.nested /\ t.badiret = s.badiret /\ t.taken = s.taken /\ t.given = s.given
      /\ t.dropped = s.dropped /\ t.n = s.n
    BY <1>0, SMTT(30) DEF Vcpu, Ev!Exit
<1> HIDE DEF t
<1>4. Tallied(t)
    BY <1>1, <1>3 DEF EventInv, EventCore, Tallied, OnePlace, Ev!External
<1>5. NmiBlocked(t)
    BY <1>1, <1>3 DEF EventInv, EventCore, NmiBlocked, OnePlace
<1>6. Acceptable(t) /\ OnePlace(t) /\ t.out # "panic"
    BY <1>1, <1>3 DEF EventInv, EventCore, Acceptable, OnePlace
<1>7. t.at = "guest" /\ ~t.kick => Windows(t)
    BY <1>1, <1>3 DEF EventInv, EventCore, Windows
<1> QED BY <1>2, <1>3, <1>4, <1>5, <1>6, <1>7 DEF EventInv, EventCore, t

\* An NMI is injected under VT-x.
LEMMA EvVmxGiveNmi ==
    ASSUME EventParams, NEW s, EventInv(s), s.at = "host", s.exc = "none", s.exitint = "none", s.entry = "none", s.cpu = "vmx", ~s.blk
    PROVE  EventInv([s EXCEPT !.entry = "nmi", !.nmi = FALSE, !.taken = @ + 1])
<1> DEFINE t == [s EXCEPT !.entry = "nmi", !.nmi = FALSE, !.taken = @ + 1]
<1>0. s \in Vcpu
    BY DEF EventInv, EventCore
<1>1. s.taken \in Nat /\ s.given \in Nat /\ s.dropped \in Nat /\ s.taken + 1 \in Nat
    BY <1>0 DEF Vcpu
<1>2. t \in Vcpu
    BY <1>0, <1>1, VcpuSet, EvTypes, ZenonT(30)
<1>3. /\ t.entry = "nmi" /\ t.nmi = FALSE /\ t.taken = s.taken + 1
      /\ t.cpu = s.cpu /\ t.at = s.at /\ t.out = s.out /\ t.ext = s.ext /\ t.apic = s.apic /\ t.exc = s.exc
      /\ t.exitint = s.exitint /\ t.blk = s.blk /\ t.shadow = s.shadow /\ t.if = s.if /\ t.intwin = s.intwin /\ t.nmiwin = s.nmiwin
      /\ t.ipi = s.ipi /\ t.rip = s.rip /\ t.last = s.last /\ t.iret = s.iret /\ t.kick = s.kick /\ t.handler = s.handler
      /\ t.nested = s.nested /\ t.badiret = s.badiret /\ t.given = s.given /\ t.dropped = s.dropped /\ t.n = s.n
    BY <1>0, SMTT(30) DEF Vcpu
<1> HIDE DEF t
<1>4. Tallied(t)
    BY <1>1, <1>3 DEF EventInv, EventCore, Tallied, OnePlace, Ev!External
<1>5. NmiBlocked(t)
    BY <1>1, <1>3 DEF EventInv, EventCore, NmiBlocked, OnePlace
<1>6. Acceptable(t) /\ OnePlace(t) /\ t.out # "panic"
    BY <1>1, <1>3 DEF EventInv, EventCore, Acceptable, OnePlace
<1>7. t.at = "guest" /\ ~t.kick => Windows(t)
    BY <1>1, <1>3 DEF EventInv, EventCore, Windows
<1> QED BY <1>2, <1>3, <1>4, <1>5, <1>6, <1>7 DEF EventInv, EventCore, t

\* An NMI is injected under SVM, and IRET intercepted.
LEMMA EvSvmGiveNmi ==
    ASSUME EventParams, NEW s, EventInv(s), s.at = "host", s.exc = "none", s.exitint = "none", s.entry = "none", s.cpu = "svm", ~s.blk, ~s.shadow
    PROVE  EventInv([[s EXCEPT !.entry = "nmi", !.nmi = FALSE, !.taken = @ + 1] EXCEPT !.blk = TRUE])
<1> DEFINE t == [[s EXCEPT !.entry = "nmi", !.nmi = FALSE, !.taken = @ + 1] EXCEPT !.blk = TRUE]
<1>0. s \in Vcpu
    BY DEF EventInv, EventCore
<1>1. s.taken \in Nat /\ s.given \in Nat /\ s.dropped \in Nat /\ s.taken + 1 \in Nat
    BY <1>0 DEF Vcpu
<1>2. t \in Vcpu
    BY <1>0, <1>1, VcpuSet, EvTypes, ZenonT(30)
<1>3. /\ t.entry = "nmi" /\ t.nmi = FALSE /\ t.taken = s.taken + 1
      /\ t.blk = TRUE
      /\ t.cpu = s.cpu /\ t.at = s.at /\ t.out = s.out /\ t.ext = s.ext /\ t.apic = s.apic /\ t.exc = s.exc
      /\ t.exitint = s.exitint /\ t.shadow = s.shadow /\ t.if = s.if /\ t.intwin = s.intwin /\ t.nmiwin = s.nmiwin /\ t.ipi = s.ipi
      /\ t.rip = s.rip /\ t.last = s.last /\ t.iret = s.iret /\ t.kick = s.kick /\ t.handler = s.handler /\ t.nested = s.nested
      /\ t.badiret = s.badiret /\ t.given = s.given /\ t.dropped = s.dropped /\ t.n = s.n
    BY <1>0, SMTT(30) DEF Vcpu
<1> HIDE DEF t
<1>4. Tallied(t)
    BY <1>1, <1>3 DEF EventInv, EventCore, Tallied, OnePlace, Ev!External
<1>5. NmiBlocked(t)
    BY <1>1, <1>3 DEF EventInv, EventCore, NmiBlocked, OnePlace
<1>6. Acceptable(t) /\ OnePlace(t) /\ t.out # "panic"
    BY <1>1, <1>3 DEF EventInv, EventCore, Acceptable, OnePlace
<1>7. t.at = "guest" /\ ~t.kick => Windows(t)
    BY <1>1, <1>3 DEF EventInv, EventCore, Windows
<1> QED BY <1>2, <1>3, <1>4, <1>5, <1>6, <1>7 DEF EventInv, EventCore, t

\* An interrupt is injected.
LEMMA EvGiveIntr ==
    ASSUME EventParams, NEW s, EventInv(s), s.at = "host", s.exc = "none", s.exitint = "none", s.entry = "none",
           s.if = TRUE, s.shadow = FALSE, NEW w \in BoolT, NEW a \in BoolT
    PROVE  EventInv([[s EXCEPT !.entry = "intr", !.taken = @ + 1, !.ext = FALSE, !.apic = a] EXCEPT !.intwin = w])
<1> DEFINE t == [[s EXCEPT !.entry = "intr", !.taken = @ + 1, !.ext = FALSE, !.apic = a] EXCEPT !.intwin = w]
<1>0. s \in Vcpu
    BY DEF EventInv, EventCore
<1>1. s.taken \in Nat /\ s.given \in Nat /\ s.dropped \in Nat /\ s.taken + 1 \in Nat
    BY <1>0 DEF Vcpu
<1>2. t \in Vcpu
  <2>1. [s EXCEPT !.entry = "intr", !.taken = s.taken + 1, !.ext = FALSE] \in Vcpu
      BY <1>0, <1>1, VcpuSet, EvTypes, ZenonT(30)
  <2>2. [[s EXCEPT !.entry = "intr", !.taken = s.taken + 1, !.ext = FALSE] EXCEPT !.apic = a, !.intwin = w] \in Vcpu
      BY <2>1, VcpuSet, ZenonT(30)
  <2> QED BY <2>2
<1>3. /\ t.entry = "intr" /\ t.taken = s.taken + 1 /\ t.ext = FALSE
      /\ t.apic = a /\ t.intwin = w
      /\ t.cpu = s.cpu /\ t.at = s.at /\ t.out = s.out /\ t.nmi = s.nmi /\ t.exc = s.exc /\ t.exitint = s.exitint
      /\ t.blk = s.blk /\ t.shadow = s.shadow /\ t.if = s.if /\ t.nmiwin = s.nmiwin /\ t.ipi = s.ipi /\ t.rip = s.rip
      /\ t.last = s.last /\ t.iret = s.iret /\ t.kick = s.kick /\ t.handler = s.handler /\ t.nested = s.nested /\ t.badiret = s.badiret
      /\ t.given = s.given /\ t.dropped = s.dropped /\ t.n = s.n
    BY <1>0, SMTT(30) DEF Vcpu
<1> HIDE DEF t
<1>4. Tallied(t)
    BY <1>1, <1>3 DEF EventInv, EventCore, Tallied, OnePlace, Ev!External
<1>5. NmiBlocked(t)
    BY <1>1, <1>3 DEF EventInv, EventCore, NmiBlocked, OnePlace
<1>6. Acceptable(t) /\ OnePlace(t) /\ t.out # "panic"
    BY <1>1, <1>3 DEF EventInv, EventCore, Acceptable, OnePlace
<1>7. t.at = "guest" /\ ~t.kick => Windows(t)
    BY <1>1, <1>3 DEF EventInv, EventCore, Windows
<1> QED BY <1>2, <1>3, <1>4, <1>5, <1>6, <1>7 DEF EventInv, EventCore, t

\* The NMI window is asked for, or closed.
LEMMA EvNmiWin ==
    ASSUME EventParams, NEW s, EventInv(s), s.at = "host", NEW w \in BoolT
    PROVE  EventInv([s EXCEPT !.nmiwin = w])
<1> DEFINE t == [s EXCEPT !.nmiwin = w]
<1>0. s \in Vcpu
    BY DEF EventInv, EventCore
<1>1. s.given \in Nat
    BY <1>0 DEF Vcpu
<1>2. t \in Vcpu
    BY <1>0, <1>1, VcpuSet, EvTypes, ZenonT(30)
<1>3. /\ t.nmiwin = w
      /\ t.cpu = s.cpu /\ t.at = s.at /\ t.out = s.out /\ t.nmi = s.nmi /\ t.ext = s.ext /\ t.apic = s.apic
      /\ t.exc = s.exc /\ t.exitint = s.exitint /\ t.entry = s.entry /\ t.blk = s.blk /\ t.shadow = s.shadow /\ t.if = s.if
      /\ t.intwin = s.intwin /\ t.ipi = s.ipi /\ t.rip = s.rip /\ t.last = s.last /\ t.iret = s.iret /\ t.kick = s.kick
      /\ t.handler = s.handler /\ t.nested = s.nested /\ t.badiret = s.badiret /\ t.taken = s.taken /\ t.given = s.given /\ t.dropped = s.dropped
      /\ t.n = s.n
    BY <1>0, SMTT(30) DEF Vcpu
<1> HIDE DEF t
<1>4. Tallied(t)
    BY <1>1, <1>3 DEF EventInv, EventCore, Tallied, OnePlace, Ev!External
<1>5. NmiBlocked(t)
    BY <1>1, <1>3 DEF EventInv, EventCore, NmiBlocked, OnePlace
<1>6. Acceptable(t) /\ OnePlace(t) /\ t.out # "panic"
    BY <1>1, <1>3 DEF EventInv, EventCore, Acceptable, OnePlace
<1>7. t.at = "guest" /\ ~t.kick => Windows(t)
    BY <1>1, <1>3 DEF EventInv, EventCore, Windows
<1> QED BY <1>2, <1>3, <1>4, <1>5, <1>6, <1>7 DEF EventInv, EventCore, t

\* The interrupt window is asked for, or closed.
LEMMA EvIntWin ==
    ASSUME EventParams, NEW s, EventInv(s), s.at = "host", NEW w \in BoolT
    PROVE  EventInv([s EXCEPT !.intwin = w])
<1> DEFINE t == [s EXCEPT !.intwin = w]
<1>0. s \in Vcpu
    BY DEF EventInv, EventCore
<1>1. s.given \in Nat
    BY <1>0 DEF Vcpu
<1>2. t \in Vcpu
    BY <1>0, <1>1, VcpuSet, EvTypes, ZenonT(30)
<1>3. /\ t.intwin = w
      /\ t.cpu = s.cpu /\ t.at = s.at /\ t.out = s.out /\ t.nmi = s.nmi /\ t.ext = s.ext /\ t.apic = s.apic
      /\ t.exc = s.exc /\ t.exitint = s.exitint /\ t.entry = s.entry /\ t.blk = s.blk /\ t.shadow = s.shadow /\ t.if = s.if
      /\ t.nmiwin = s.nmiwin /\ t.ipi = s.ipi /\ t.rip = s.rip /\ t.last = s.last /\ t.iret = s.iret /\ t.kick = s.kick
      /\ t.handler = s.handler /\ t.nested = s.nested /\ t.badiret = s.badiret /\ t.taken = s.taken /\ t.given = s.given /\ t.dropped = s.dropped
      /\ t.n = s.n
    BY <1>0, SMTT(30) DEF Vcpu
<1> HIDE DEF t
<1>4. Tallied(t)
    BY <1>1, <1>3 DEF EventInv, EventCore, Tallied, OnePlace, Ev!External
<1>5. NmiBlocked(t)
    BY <1>1, <1>3 DEF EventInv, EventCore, NmiBlocked, OnePlace
<1>6. Acceptable(t) /\ OnePlace(t) /\ t.out # "panic"
    BY <1>1, <1>3 DEF EventInv, EventCore, Acceptable, OnePlace
<1>7. t.at = "guest" /\ ~t.kick => Windows(t)
    BY <1>1, <1>3 DEF EventInv, EventCore, Windows
<1> QED BY <1>2, <1>3, <1>4, <1>5, <1>6, <1>7 DEF EventInv, EventCore, t

\* The cpu interrupts itself.
LEMMA EvIpi ==
    ASSUME EventParams, NEW s, EventInv(s), s.at = "host", NEW w \in BoolT
    PROVE  EventInv([s EXCEPT !.ipi = w])
<1> DEFINE t == [s EXCEPT !.ipi = w]
<1>0. s \in Vcpu
    BY DEF EventInv, EventCore
<1>1. s.given \in Nat
    BY <1>0 DEF Vcpu
<1>2. t \in Vcpu
    BY <1>0, <1>1, VcpuSet, EvTypes, ZenonT(30)
<1>3. /\ t.ipi = w
      /\ t.cpu = s.cpu /\ t.at = s.at /\ t.out = s.out /\ t.nmi = s.nmi /\ t.ext = s.ext /\ t.apic = s.apic
      /\ t.exc = s.exc /\ t.exitint = s.exitint /\ t.entry = s.entry /\ t.blk = s.blk /\ t.shadow = s.shadow /\ t.if = s.if
      /\ t.intwin = s.intwin /\ t.nmiwin = s.nmiwin /\ t.rip = s.rip /\ t.last = s.last /\ t.iret = s.iret /\ t.kick = s.kick
      /\ t.handler = s.handler /\ t.nested = s.nested /\ t.badiret = s.badiret /\ t.taken = s.taken /\ t.given = s.given /\ t.dropped = s.dropped
      /\ t.n = s.n
    BY <1>0, SMTT(30) DEF Vcpu
<1> HIDE DEF t
<1>4. Tallied(t)
    BY <1>1, <1>3 DEF EventInv, EventCore, Tallied, OnePlace, Ev!External
<1>5. NmiBlocked(t)
    BY <1>1, <1>3 DEF EventInv, EventCore, NmiBlocked, OnePlace
<1>6. Acceptable(t) /\ OnePlace(t) /\ t.out # "panic"
    BY <1>1, <1>3 DEF EventInv, EventCore, Acceptable, OnePlace
<1>7. t.at = "guest" /\ ~t.kick => Windows(t)
    BY <1>1, <1>3 DEF EventInv, EventCore, Windows
<1> QED BY <1>2, <1>3, <1>4, <1>5, <1>6, <1>7 DEF EventInv, EventCore, t

\* The entry.
LEMMA EvEnter ==
    ASSUME EventParams, NEW s, EventInv(s), s.at = "host", s.exc = "none", s.exitint = "none", Windows(s)
    PROVE  EventInv([s EXCEPT !.at = "guest", !.kick = FALSE])
<1> DEFINE t == [s EXCEPT !.at = "guest", !.kick = FALSE]
<1>0. s \in Vcpu
    BY DEF EventInv, EventCore
<1>1. s.given \in Nat
    BY <1>0 DEF Vcpu
<1>2. t \in Vcpu
    BY <1>0, <1>1, VcpuSet, EvTypes, ZenonT(30)
<1>3. /\ t.at = "guest" /\ t.kick = FALSE
      /\ t.cpu = s.cpu /\ t.out = s.out /\ t.nmi = s.nmi /\ t.ext = s.ext /\ t.apic = s.apic /\ t.exc = s.exc
      /\ t.exitint = s.exitint /\ t.entry = s.entry /\ t.blk = s.blk /\ t.shadow = s.shadow /\ t.if = s.if /\ t.intwin = s.intwin
      /\ t.nmiwin = s.nmiwin /\ t.ipi = s.ipi /\ t.rip = s.rip /\ t.last = s.last /\ t.iret = s.iret /\ t.handler = s.handler
      /\ t.nested = s.nested /\ t.badiret = s.badiret /\ t.taken = s.taken /\ t.given = s.given /\ t.dropped = s.dropped
      /\ t.n = s.n
    BY <1>0, SMTT(30) DEF Vcpu
<1> HIDE DEF t
<1>4. Tallied(t)
    BY <1>1, <1>3 DEF EventInv, EventCore, Tallied, OnePlace, Ev!External
<1>5. NmiBlocked(t)
    BY <1>1, <1>3 DEF EventInv, EventCore, NmiBlocked, OnePlace
<1>6. Acceptable(t) /\ OnePlace(t) /\ t.out # "panic"
    BY <1>1, <1>3 DEF EventInv, EventCore, Acceptable, OnePlace
<1>7. t.at = "guest" /\ ~t.kick => Windows(t)
    BY <1>1, <1>3 DEF EventInv, EventCore, Windows
<1> QED BY <1>2, <1>3, <1>4, <1>5, <1>6, <1>7 DEF EventInv, EventCore, t

\* Nothing is taken over from the last exit, or the guest shuts down.
LEMMA EvPendNone ==
    ASSUME EventParams, NEW s, EventInv(s), s.at = "host", s.exitint \in {"none", "df"},
           NEW sh \in BoolT, s.shadow = FALSE => sh = FALSE, s.shadow = TRUE /\ s.last = s.rip => sh = TRUE,
           NEW d, d = s.dropped, NEW o \in {"run", "triple"}
    PROVE  EventInv([[s EXCEPT !.shadow = sh] EXCEPT !.exitint = "none", !.exc = "none", !.dropped = d, !.out = o])
<1> DEFINE t == [[s EXCEPT !.shadow = sh] EXCEPT !.exitint = "none", !.exc = "none", !.dropped = d, !.out = o]
<1>0. s \in Vcpu
    BY DEF EventInv, EventCore
<1>1. s.taken \in Nat /\ s.given \in Nat /\ s.dropped \in Nat /\ s.shadow \in BOOLEAN /\ d \in Nat /\ o \in OutT
    BY <1>0 DEF Vcpu, BoolT, OutT
<1>2. t \in Vcpu
  <2> DEFINE x == [s EXCEPT !.shadow = sh, !.exitint = "none", !.exc = "none"]
  <2>1. x \in Vcpu
      BY <1>0, VcpuSet, EvTypes, ZenonT(30)
  <2>2. [[s EXCEPT !.shadow = sh] EXCEPT !.exitint = "none", !.exc = "none", !.dropped = d, !.out = o] = [x EXCEPT !.dropped = d, !.out = o]
      OBVIOUS
  <2> HIDE DEF x
  <2>3. [x EXCEPT !.dropped = d, !.out = o] \in Vcpu
      BY <1>1, <2>1, VcpuSet, ZenonT(30)
  <2> QED BY <2>2, <2>3
<1>3. /\ t.shadow = sh /\ t.exitint = "none" /\ t.exc = "none"
      /\ t.dropped = d /\ t.out = o
      /\ t.cpu = s.cpu /\ t.at = s.at /\ t.nmi = s.nmi /\ t.ext = s.ext /\ t.apic = s.apic /\ t.entry = s.entry
      /\ t.blk = s.blk /\ t.if = s.if /\ t.intwin = s.intwin /\ t.nmiwin = s.nmiwin /\ t.ipi = s.ipi /\ t.rip = s.rip
      /\ t.last = s.last /\ t.iret = s.iret /\ t.kick = s.kick /\ t.handler = s.handler /\ t.nested = s.nested /\ t.badiret = s.badiret
      /\ t.taken = s.taken /\ t.given = s.given /\ t.n = s.n
    BY <1>0, SMTT(30) DEF Vcpu
<1> HIDE DEF t
<1>4. Tallied(t)
    BY <1>1, <1>3 DEF EventInv, EventCore, Tallied, OnePlace, Ev!External
<1>5. NmiBlocked(t)
    BY <1>1, <1>3 DEF EventInv, EventCore, NmiBlocked, OnePlace, Ev!Faults
<1>6. Acceptable(t) /\ OnePlace(t) /\ t.out # "panic"
    BY <1>1, <1>3 DEF EventInv, EventCore, Acceptable, OnePlace, Ev!Faults
<1>7. t.at = "guest" /\ ~t.kick => Windows(t)
    BY <1>1, <1>3 DEF EventInv, EventCore, Windows
<1> QED BY <1>2, <1>3, <1>4, <1>5, <1>6, <1>7 DEF EventInv, EventCore, t

\* What the last exit left is delivered at the entry.
LEMMA EvPendEntry ==
    ASSUME EventParams, NEW s, EventInv(s), s.at = "host", s.entry = "none", NEW sh \in BoolT,
           s.shadow = FALSE => sh = FALSE, s.shadow = TRUE /\ s.last = s.rip => sh = TRUE,
           NEW d, NEW o, o = "run", NEW i \in EventT, i # "none",
           IF s.exc = "none" THEN i = s.exitint /\ d = s.dropped
           ELSE i \in {"df"} \cup Ev!Faults /\ d = s.dropped + Ev!External(s.exitint)
    PROVE  EventInv([[[s EXCEPT !.shadow = sh] EXCEPT !.exitint = "none", !.exc = "none", !.dropped = d, !.out = o] EXCEPT !.entry = i])
<1> DEFINE t == [[[s EXCEPT !.shadow = sh] EXCEPT !.exitint = "none", !.exc = "none", !.dropped = d, !.out = o] EXCEPT !.entry = i]
<1>0. s \in Vcpu
    BY DEF EventInv, EventCore
<1>1. s.taken \in Nat /\ s.given \in Nat /\ s.dropped \in Nat /\ s.shadow \in BOOLEAN /\ d \in Nat /\ o \in OutT /\ s.exitint \in EventT
    BY <1>0 DEF Vcpu, BoolT, OutT, Ev!External
<1>2. t \in Vcpu
  <2> DEFINE x == [s EXCEPT !.shadow = sh, !.exitint = "none", !.exc = "none"]
  <2>1. x \in Vcpu
      BY <1>0, VcpuSet, EvTypes, ZenonT(30)
  <2>2. [[s EXCEPT !.shadow = sh] EXCEPT !.exitint = "none", !.exc = "none", !.dropped = d, !.out = o] = [x EXCEPT !.dropped = d, !.out = o]
      OBVIOUS
  <2> HIDE DEF x
  <2>3. [x EXCEPT !.dropped = d, !.out = o] \in Vcpu
      BY <1>1, <2>1, VcpuSet, ZenonT(30)
  <2>4. [[s EXCEPT !.shadow = sh] EXCEPT !.exitint = "none", !.exc = "none", !.dropped = d, !.out = o] \in Vcpu
      BY <2>2, <2>3
  <2> DEFINE y == [[s EXCEPT !.shadow = sh] EXCEPT !.exitint = "none", !.exc = "none", !.dropped = d, !.out = o]
  <2> HIDE DEF y
  <2>5. [y EXCEPT !.entry = i] \in Vcpu
      BY <2>4, VcpuSet, ZenonT(30) DEF y
  <2> QED BY <2>5 DEF y
<1>3. /\ t.shadow = sh /\ t.exitint = "none" /\ t.exc = "none"
      /\ t.dropped = d /\ t.out = o /\ t.entry = i
      /\ t.cpu = s.cpu /\ t.at = s.at /\ t.nmi = s.nmi /\ t.ext = s.ext /\ t.apic = s.apic /\ t.blk = s.blk
      /\ t.if = s.if /\ t.intwin = s.intwin /\ t.nmiwin = s.nmiwin /\ t.ipi = s.ipi /\ t.rip = s.rip /\ t.last = s.last
      /\ t.iret = s.iret /\ t.kick = s.kick /\ t.handler = s.handler /\ t.nested = s.nested /\ t.badiret = s.badiret /\ t.taken = s.taken
      /\ t.given = s.given /\ t.n = s.n
    BY <1>0, SMTT(30) DEF Vcpu
<1> HIDE DEF t
<1>4. Tallied(t)
    BY <1>1, <1>3 DEF EventInv, EventCore, Tallied, OnePlace, Ev!External, Ev!Faults
<1>5. NmiBlocked(t)
    BY <1>1, <1>3 DEF EventInv, EventCore, NmiBlocked, OnePlace, Ev!Faults
<1>6. Acceptable(t) /\ OnePlace(t) /\ t.out # "panic"
    BY <1>1, <1>3 DEF EventInv, EventCore, Acceptable, OnePlace, Ev!Faults
<1>7. t.at = "guest" /\ ~t.kick => Windows(t)
    BY <1>1, <1>3 DEF EventInv, EventCore, Windows
<1> QED BY <1>2, <1>3, <1>4, <1>5, <1>6, <1>7 DEF EventInv, EventCore, t

\* The same for a vcpu that has left the guest.
LEMMA EvInjectHost ==
    ASSUME EventParams, NEW s, EventInv(s), s.at = "host", s.entry = "none",
           s.handler /\ ~s.badiret => s.blk, NEW e \in Ev!Faults
    PROVE  EventInv([s EXCEPT !.exc = e, !.shadow = FALSE])
<1> DEFINE t == [s EXCEPT !.exc = e, !.shadow = FALSE]
<1>0. s \in Vcpu
    BY DEF EventInv, EventCore
<1>1. e \in FaultT /\ e # "none"
    BY <1>0 DEF Vcpu, FaultT, Ev!Faults
<1>2. t \in Vcpu
    BY <1>0, <1>1, VcpuSet, EvTypes, ZenonT(30)
<1>3. /\ t.exc = e /\ t.shadow = FALSE
      /\ t.cpu = s.cpu /\ t.at = s.at /\ t.out = s.out /\ t.nmi = s.nmi /\ t.ext = s.ext /\ t.apic = s.apic
      /\ t.exitint = s.exitint /\ t.entry = s.entry /\ t.blk = s.blk /\ t.if = s.if /\ t.intwin = s.intwin /\ t.nmiwin = s.nmiwin
      /\ t.ipi = s.ipi /\ t.rip = s.rip /\ t.last = s.last /\ t.iret = s.iret /\ t.kick = s.kick /\ t.handler = s.handler
      /\ t.nested = s.nested /\ t.badiret = s.badiret /\ t.taken = s.taken /\ t.given = s.given /\ t.dropped = s.dropped
      /\ t.n = s.n
    BY <1>0, SMTT(30) DEF Vcpu
<1> HIDE DEF t
<1>4. Tallied(t)
    BY <1>1, <1>3 DEF EventInv, EventCore, Tallied, OnePlace, Ev!External
<1>5. NmiBlocked(t)
    BY <1>1, <1>3 DEF EventInv, EventCore, NmiBlocked, OnePlace
<1>6. Acceptable(t) /\ OnePlace(t) /\ t.out # "panic"
    BY <1>1, <1>3 DEF EventInv, EventCore, Acceptable, OnePlace
<1>7. t.at = "guest" /\ ~t.kick => Windows(t)
    BY <1>1, <1>3 DEF EventInv, EventCore, Windows
<1> QED BY <1>2, <1>3, <1>4, <1>5, <1>6, <1>7 DEF EventInv, EventCore, t

\* An exit that skips nothing.
LEMMA EvStay ==
    ASSUME EventParams, NEW s, EventInv(s), s.at = "host"
    PROVE  EventInv([s EXCEPT !.rip = s.rip])
<1> DEFINE t == [s EXCEPT !.rip = s.rip]
<1>0. s \in Vcpu
    BY DEF EventInv, EventCore
<1>1. s.rip \in RipT
    BY <1>0 DEF Vcpu
<1>2. t \in Vcpu
    BY <1>0, <1>1, VcpuSet, EvTypes, ZenonT(30)
<1>3. /\ t.cpu = s.cpu /\ t.at = s.at /\ t.out = s.out /\ t.nmi = s.nmi /\ t.ext = s.ext /\ t.apic = s.apic
      /\ t.exc = s.exc /\ t.exitint = s.exitint /\ t.entry = s.entry /\ t.blk = s.blk /\ t.shadow = s.shadow /\ t.if = s.if
      /\ t.intwin = s.intwin /\ t.nmiwin = s.nmiwin /\ t.ipi = s.ipi /\ t.rip = s.rip /\ t.last = s.last /\ t.iret = s.iret
      /\ t.kick = s.kick /\ t.handler = s.handler /\ t.nested = s.nested /\ t.badiret = s.badiret /\ t.taken = s.taken /\ t.given = s.given
      /\ t.dropped = s.dropped /\ t.n = s.n
    BY <1>0, SMTT(30) DEF Vcpu
<1> HIDE DEF t
<1>4. Tallied(t)
    BY <1>1, <1>3 DEF EventInv, EventCore, Tallied, OnePlace, Ev!External
<1>5. NmiBlocked(t)
    BY <1>1, <1>3 DEF EventInv, EventCore, NmiBlocked, OnePlace
<1>6. Acceptable(t) /\ OnePlace(t) /\ t.out # "panic"
    BY <1>1, <1>3 DEF EventInv, EventCore, Acceptable, OnePlace
<1>7. t.at = "guest" /\ ~t.kick => Windows(t)
    BY <1>1, <1>3 DEF EventInv, EventCore, Windows
<1> QED BY <1>2, <1>3, <1>4, <1>5, <1>6, <1>7 DEF EventInv, EventCore, t

\* An event is raised, and a vcpu in its guest is kicked.
LEMMA EvRaiseNmi ==
    ASSUME EventParams, NEW s, EventInv(s), NEW k \in BoolT, s.at = "guest" => k, NEW m \in Nat
    PROVE  EventInv([s EXCEPT !.nmi = TRUE, !.n = m, !.kick = k])
<1> DEFINE t == [s EXCEPT !.nmi = TRUE, !.n = m, !.kick = k]
<1>0. s \in Vcpu
    BY DEF EventInv, EventCore
<1>1. s.given \in Nat
    BY <1>0 DEF Vcpu
<1>2. t \in Vcpu
    BY <1>0, <1>1, VcpuSet, EvTypes, ZenonT(30)
<1>3. /\ t.nmi = TRUE /\ t.n = m /\ t.kick = k
      /\ t.cpu = s.cpu /\ t.at = s.at /\ t.out = s.out /\ t.ext = s.ext /\ t.apic = s.apic /\ t.exc = s.exc
      /\ t.exitint = s.exitint /\ t.entry = s.entry /\ t.blk = s.blk /\ t.shadow = s.shadow /\ t.if = s.if /\ t.intwin = s.intwin
      /\ t.nmiwin = s.nmiwin /\ t.ipi = s.ipi /\ t.rip = s.rip /\ t.last = s.last /\ t.iret = s.iret /\ t.handler = s.handler
      /\ t.nested = s.nested /\ t.badiret = s.badiret /\ t.taken = s.taken /\ t.given = s.given /\ t.dropped = s.dropped
    BY <1>0, SMTT(30) DEF Vcpu
<1> HIDE DEF t
<1>4. Tallied(t)
    BY <1>1, <1>3 DEF EventInv, EventCore, Tallied, OnePlace, Ev!External
<1>5. NmiBlocked(t)
    BY <1>1, <1>3 DEF EventInv, EventCore, NmiBlocked, OnePlace
<1>6. Acceptable(t) /\ OnePlace(t) /\ t.out # "panic"
    BY <1>1, <1>3 DEF EventInv, EventCore, Acceptable, OnePlace
<1>7. t.at = "guest" /\ ~t.kick => Windows(t)
    BY <1>1, <1>3 DEF EventInv, EventCore, Windows
<1> QED BY <1>2, <1>3, <1>4, <1>5, <1>6, <1>7 DEF EventInv, EventCore, t

LEMMA EvRaiseExt ==
    ASSUME EventParams, NEW s, EventInv(s), NEW k \in BoolT, s.at = "guest" => k, NEW m \in Nat
    PROVE  EventInv([s EXCEPT !.ext = TRUE, !.n = m, !.kick = k])
<1> DEFINE t == [s EXCEPT !.ext = TRUE, !.n = m, !.kick = k]
<1>0. s \in Vcpu
    BY DEF EventInv, EventCore
<1>1. s.given \in Nat
    BY <1>0 DEF Vcpu
<1>2. t \in Vcpu
    BY <1>0, <1>1, VcpuSet, EvTypes, ZenonT(30)
<1>3. /\ t.ext = TRUE /\ t.n = m /\ t.kick = k
      /\ t.cpu = s.cpu /\ t.at = s.at /\ t.out = s.out /\ t.nmi = s.nmi /\ t.apic = s.apic /\ t.exc = s.exc
      /\ t.exitint = s.exitint /\ t.entry = s.entry /\ t.blk = s.blk /\ t.shadow = s.shadow /\ t.if = s.if /\ t.intwin = s.intwin
      /\ t.nmiwin = s.nmiwin /\ t.ipi = s.ipi /\ t.rip = s.rip /\ t.last = s.last /\ t.iret = s.iret /\ t.handler = s.handler
      /\ t.nested = s.nested /\ t.badiret = s.badiret /\ t.taken = s.taken /\ t.given = s.given /\ t.dropped = s.dropped
    BY <1>0, SMTT(30) DEF Vcpu
<1> HIDE DEF t
<1>4. Tallied(t)
    BY <1>1, <1>3 DEF EventInv, EventCore, Tallied, OnePlace, Ev!External
<1>5. NmiBlocked(t)
    BY <1>1, <1>3 DEF EventInv, EventCore, NmiBlocked, OnePlace
<1>6. Acceptable(t) /\ OnePlace(t) /\ t.out # "panic"
    BY <1>1, <1>3 DEF EventInv, EventCore, Acceptable, OnePlace
<1>7. t.at = "guest" /\ ~t.kick => Windows(t)
    BY <1>1, <1>3 DEF EventInv, EventCore, Windows
<1> QED BY <1>2, <1>3, <1>4, <1>5, <1>6, <1>7 DEF EventInv, EventCore, t

LEMMA EvRaiseApic ==
    ASSUME EventParams, NEW s, EventInv(s), NEW k \in BoolT, s.at = "guest" => k, NEW m \in Nat
    PROVE  EventInv([s EXCEPT !.apic = TRUE, !.n = m, !.kick = k])
<1> DEFINE t == [s EXCEPT !.apic = TRUE, !.n = m, !.kick = k]
<1>0. s \in Vcpu
    BY DEF EventInv, EventCore
<1>1. s.given \in Nat
    BY <1>0 DEF Vcpu
<1>2. t \in Vcpu
    BY <1>0, <1>1, VcpuSet, EvTypes, ZenonT(30)
<1>3. /\ t.apic = TRUE /\ t.n = m /\ t.kick = k
      /\ t.cpu = s.cpu /\ t.at = s.at /\ t.out = s.out /\ t.nmi = s.nmi /\ t.ext = s.ext /\ t.exc = s.exc
      /\ t.exitint = s.exitint /\ t.entry = s.entry /\ t.blk = s.blk /\ t.shadow = s.shadow /\ t.if = s.if /\ t.intwin = s.intwin
      /\ t.nmiwin = s.nmiwin /\ t.ipi = s.ipi /\ t.rip = s.rip /\ t.last = s.last /\ t.iret = s.iret /\ t.handler = s.handler
      /\ t.nested = s.nested /\ t.badiret = s.badiret /\ t.taken = s.taken /\ t.given = s.given /\ t.dropped = s.dropped
    BY <1>0, SMTT(30) DEF Vcpu
<1> HIDE DEF t
<1>4. Tallied(t)
    BY <1>1, <1>3 DEF EventInv, EventCore, Tallied, OnePlace, Ev!External
<1>5. NmiBlocked(t)
    BY <1>1, <1>3 DEF EventInv, EventCore, NmiBlocked, OnePlace
<1>6. Acceptable(t) /\ OnePlace(t) /\ t.out # "panic"
    BY <1>1, <1>3 DEF EventInv, EventCore, Acceptable, OnePlace
<1>7. t.at = "guest" /\ ~t.kick => Windows(t)
    BY <1>1, <1>3 DEF EventInv, EventCore, Windows
<1> QED BY <1>2, <1>3, <1>4, <1>5, <1>6, <1>7 DEF EventInv, EventCore, t

LEMMA EvNested ==
    ASSUME NEW a, NEW b \in Ev!Faults  PROVE Ev!NestedFault(a, b) \in {"df"} \cup Ev!Faults
BY DEF Ev!NestedFault

\* The cases of vm_entry_intinfo().
LEMMA EvIntinfo ==
    ASSUME NEW s
    PROVE  /\ s.exitint = "none" => Ev!EntryIntinfo(s) = s.exc
           /\ s.exitint # "none" /\ s.exc = "none" => Ev!EntryIntinfo(s) = s.exitint
           /\ s.exitint # "none" /\ s.exc # "none" =>
                Ev!EntryIntinfo(s) = IF s.exitint = "df" THEN "none" ELSE Ev!NestedFault(s.exitint, s.exc)
<1>1. CASE s.exitint = "none"
    BY <1>1 DEF Ev!EntryIntinfo
<1>2. CASE s.exitint # "none" /\ s.exc = "none"
    BY <1>2 DEF Ev!EntryIntinfo
<1>3. CASE s.exitint # "none" /\ s.exc # "none"
    BY <1>3 DEF Ev!EntryIntinfo
<1> QED BY <1>1, <1>2, <1>3

\* vm_entry_intinfo(): what the last exit left is consumed, and one event of it goes to the entry.
LEMMA EvPending ==
    ASSUME EventParams, NEW s, EventInv(s), s.at = "host", s.out = "run"
    PROVE  EventInv(Ev!Pending(s))
<1> DEFINE sh   == s.shadow /\ s.last = s.rip
           d    == s.dropped + (IF s.exc # "none" THEN Ev!External(s.exitint) ELSE 0)
           o    == IF s.exitint = "df" /\ s.exc # "none" THEN "triple" ELSE s.out
           x    == [[s EXCEPT !.shadow = sh] EXCEPT !.exitint = "none", !.exc = "none", !.dropped = d, !.out = o]
           info == Ev!EntryIntinfo(s)
<1>0. s \in Vcpu
    BY DEF EventInv, EventCore
<1>1. s.shadow \in BOOLEAN /\ s.exc \in FaultT /\ s.exitint \in EventT /\ s.dropped \in Nat
    BY <1>0 DEF Vcpu, BoolT
<1>2. sh \in BoolT /\ (s.shadow = FALSE => sh = FALSE) /\ (s.shadow = TRUE /\ s.last = s.rip => sh = TRUE)
    BY <1>1, Zenon DEF BoolT
<1>3. Ev!Consumed([s EXCEPT !.shadow = sh]) = x
  <2> DEFINE y == [s EXCEPT !.shadow = sh]
  <2>1. y.exc = s.exc /\ y.exitint = s.exitint /\ y.dropped = s.dropped /\ y.out = s.out
      BY <1>0, SMTT(30) DEF Vcpu
  <2> HIDE DEF y
  <2>2. Ev!Consumed(y) = [y EXCEPT !.exitint = "none", !.exc = "none", !.dropped = y.dropped + (IF y.exc # "none" THEN Ev!External(y.exitint) ELSE 0),
                                   !.out = IF y.exitint = "df" /\ y.exc # "none" THEN "triple" ELSE y.out]
      BY Zenon DEF Ev!Consumed
  <2>3. Ev!Consumed(y) = [y EXCEPT !.exitint = "none", !.exc = "none", !.dropped = d, !.out = o]
      BY <2>1, <2>2, Zenon
  <2> QED BY <2>3, Zenon DEF y
<1>4. Ev!Pending(s) = IF info = "none" THEN x ELSE IF x.entry # "none" THEN Ev!Panic(x) ELSE [x EXCEPT !.entry = info]
    BY <1>3, Zenon DEF Ev!Pending
<1>5. x.entry = s.entry
    BY <1>0, SMTT(30) DEF Vcpu
<1> HIDE DEF sh, x
<1>6. CASE s.exitint \in {"none", "df"} /\ info = "none"
  <2>1. d = s.dropped /\ o \in {"run", "triple"}
      BY <1>1, <1>6 DEF Ev!External
  <2> HIDE DEF d, o
  <2>2. EventInv(x)
      BY <1>2, <1>6, <2>1, EvPendNone DEF x
  <2> QED BY <1>4, <1>6, <2>2
<1>7. CASE info # "none"
  <2>1. s.entry = "none" /\ o = "run"
      BY <1>1, <1>7, EvIntinfo DEF EventInv, EventCore, OnePlace
  <2>2. info \in EventT /\ IF s.exc = "none" THEN info = s.exitint /\ d = s.dropped
                           ELSE info \in {"df"} \cup Ev!Faults /\ d = s.dropped + Ev!External(s.exitint)
    <3>1. CASE s.exc = "none"
        BY <1>1, <1>7, <3>1, EvIntinfo
    <3>2. CASE s.exc # "none"
      <4>1. s.exc \in Ev!Faults
          BY <1>1, <3>2 DEF FaultT
      <4>2. info = s.exc \/ info = Ev!NestedFault(s.exitint, s.exc)
          BY <1>7, <3>2, EvIntinfo
      <4>3. info \in {"df"} \cup Ev!Faults
          BY <4>1, <4>2, EvNested
      <4> QED BY <3>2, <4>3 DEF EventT, Ev!Events
    <3> QED BY <3>1, <3>2
  <2> HIDE DEF d, o, info
  <2>3. EventInv([x EXCEPT !.entry = info])
      BY <1>2, <1>7, <2>1, <2>2, EvPendEntry DEF x
  <2> QED BY <1>4, <1>5, <1>7, <2>1, <2>3
<1>8. info = "none" => s.exitint \in {"none", "df"}
    BY <1>1, EvNested, EvIntinfo DEF FaultT, Ev!Faults
<1> QED BY <1>6, <1>7, <1>8

\* Nothing of the last exit is left, and the vcpu is where it was.
LEMMA EvPendingAt ==
    ASSUME EventParams, NEW s, EventInv(s), s.at = "host", s.out = "run"
    PROVE  LET p == Ev!Pending(s) IN p.at = "host" /\ p.exc = "none" /\ p.exitint = "none" /\ p.cpu = s.cpu
<1> DEFINE y == [s EXCEPT !.shadow = @ /\ s.last = s.rip]
           x == Ev!Consumed(y)
<1>0. s \in Vcpu
    BY DEF EventInv, EventCore
<1>1. DOMAIN y = DOMAIN s /\ y.at = s.at /\ y.cpu = s.cpu
    BY <1>0 DEF Vcpu
<1>2. {"at", "cpu", "exc", "exitint", "dropped", "out", "entry"} \subseteq DOMAIN s
    BY <1>0 DEF Vcpu
<1> HIDE DEF y
<1>3. x.at = "host" /\ x.exc = "none" /\ x.exitint = "none" /\ x.cpu = s.cpu
    BY <1>1, <1>2 DEF Ev!Consumed
<1>4. DOMAIN x = DOMAIN s
    BY <1>1 DEF Ev!Consumed
<1> HIDE DEF x
<1>5. Ev!Pending(s) \in {x, [x EXCEPT !.out = "panic"], [x EXCEPT !.entry = Ev!EntryIntinfo(s)]}
    BY DEF Ev!Pending, Ev!Panic, x, y
<1> QED BY <1>2, <1>3, <1>4, <1>5

\* A vcpu on its way to an entry, with nothing of the last exit left.
Settled(s) == EventInv(s) /\ s.at = "host" /\ s.exc = "none" /\ s.exitint = "none"

LEMMA EvSettled ==
    ASSUME NEW s, Settled(s)
    PROVE  s \in Vcpu /\ s.nmi \in BOOLEAN /\ s.blk \in BOOLEAN /\ s.shadow \in BOOLEAN /\ s.if \in BOOLEAN /\ s.intwin \in BOOLEAN
           /\ s.ext \in BOOLEAN /\ s.apic \in BOOLEAN /\ s.nmiwin \in BOOLEAN /\ s.ipi \in BOOLEAN
<1>1. s \in Vcpu
    BY DEF Settled, EventInv, EventCore
<1> QED BY <1>1 DEF Vcpu, BoolT

\* vmx_inject_nmi(): an NMI that is not injected leaves its window open.
LEMMA EvVmxNmi ==
    ASSUME EventParams, NEW s, Settled(s), s.cpu = "vmx"
    PROVE  LET r == Ev!VmxNmi(s) IN Settled(r) /\ r.cpu = "vmx" /\ (r.nmi => r.nmiwin)
<1>0. s \in Vcpu /\ s.nmi \in BOOLEAN /\ s.blk \in BOOLEAN
    BY EvSettled
<1>1. CASE s.nmi = FALSE
  <2>1. Ev!VmxNmi(s) = s
      BY <1>1 DEF Ev!VmxNmi
  <2> QED BY <1>1, <2>1
<1>2. CASE s.nmi = TRUE /\ ~s.shadow /\ ~s.blk /\ s.entry = "none"
  <2> DEFINE r == [s EXCEPT !.entry = "nmi", !.nmi = FALSE, !.taken = @ + 1]
  <2>1. Ev!VmxNmi(s) = r
      BY <1>2 DEF Ev!VmxNmi, Ev!GiveNmi
  <2>2. EventInv(r)
      BY <1>2, EvVmxGiveNmi DEF Settled
  <2>3. r.at = s.at /\ r.exc = s.exc /\ r.exitint = s.exitint /\ r.cpu = s.cpu /\ r.nmi = FALSE
      BY <1>0, SMTT(30) DEF Vcpu
  <2> HIDE DEF r
  <2> QED BY <2>1, <2>2, <2>3 DEF Settled
<1>3. CASE s.nmi = TRUE /\ ~(~s.shadow /\ ~s.blk /\ s.entry = "none")
  <2> DEFINE r == [s EXCEPT !.nmiwin = TRUE]
  <2>1. Ev!VmxNmi(s) = r
      BY <1>3 DEF Ev!VmxNmi
  <2>2. EventInv(r)
      BY EvNmiWin, EvTypes DEF Settled
  <2>3. r.at = s.at /\ r.exc = s.exc /\ r.exitint = s.exitint /\ r.cpu = s.cpu /\ r.nmiwin = TRUE
      BY <1>0, SMTT(30) DEF Vcpu
  <2> HIDE DEF r
  <2> QED BY <2>1, <2>2, <2>3 DEF Settled
<1> QED BY <1>0, <1>1, <1>2, <1>3

\* The interrupt that is injected leaves the other's window open.
LEMMA EvIntr ==
    ASSUME EventParams, NEW s, Settled(s), s.entry = "none", s.if = TRUE, s.shadow = FALSE, NEW w \in BoolT, s.ext => w
    PROVE  LET r == [Ev!GiveIntr(s) EXCEPT !.intwin = w]
           IN /\ Settled(r) /\ r.cpu = s.cpu /\ r.nmi = s.nmi /\ r.nmiwin = s.nmiwin /\ r.ipi = s.ipi /\ r.blk = s.blk /\ r.intwin = w
              /\ (r.ext \/ r.apic => w)
<1>0. s \in Vcpu /\ s.ext \in BOOLEAN /\ s.apic \in BOOLEAN
    BY EvSettled
<1> DEFINE a == s.apic /\ s.ext
           r == [[s EXCEPT !.entry = "intr", !.taken = @ + 1, !.ext = FALSE, !.apic = a] EXCEPT !.intwin = w]
<1>1. [Ev!GiveIntr(s) EXCEPT !.intwin = w] = r
    BY DEF Ev!GiveIntr
<1>2. a \in BoolT /\ (a => s.ext)
    BY <1>0, Zenon DEF BoolT
<1> HIDE DEF a
<1>3. EventInv(r)
    BY <1>2, EvGiveIntr DEF Settled
<1>4. /\ r.at = s.at /\ r.exc = s.exc /\ r.exitint = s.exitint /\ r.cpu = s.cpu /\ r.nmi = s.nmi /\ r.nmiwin = s.nmiwin /\ r.ipi = s.ipi
      /\ r.blk = s.blk /\ r.intwin = w /\ r.ext = FALSE /\ r.apic = a
    BY <1>0, SMTT(30) DEF Vcpu
<1> HIDE DEF r
<1>5. r.ext \/ r.apic => w
    BY <1>2, <1>4
<1> QED BY <1>1, <1>3, <1>4, <1>5 DEF Settled

\* Changing the interrupt window disturbs nothing else.
LEMMA EvSetWin ==
    ASSUME EventParams, NEW s, Settled(s), NEW w \in BoolT
    PROVE  LET r == [s EXCEPT !.intwin = w]
           IN /\ Settled(r) /\ r.cpu = s.cpu /\ r.nmi = s.nmi /\ r.nmiwin = s.nmiwin /\ r.ipi = s.ipi /\ r.blk = s.blk /\ r.intwin = w
              /\ r.ext = s.ext /\ r.apic = s.apic
<1> DEFINE r == [s EXCEPT !.intwin = w]
<1>0. s \in Vcpu
    BY EvSettled
<1>1. EventInv(r)
    BY EvIntWin DEF Settled
<1>2. /\ r.at = s.at /\ r.exc = s.exc /\ r.exitint = s.exitint /\ r.cpu = s.cpu /\ r.nmi = s.nmi /\ r.nmiwin = s.nmiwin /\ r.ipi = s.ipi
      /\ r.blk = s.blk /\ r.intwin = w /\ r.ext = s.ext /\ r.apic = s.apic
    BY <1>0, SMTT(30) DEF Vcpu
<1> HIDE DEF r
<1>3. Settled(r)
    BY <1>1, <1>2 DEF Settled
<1> QED BY <1>2, <1>3 DEF r

\* vmx_inject_interrupts(), after the NMI.
LEMMA EvVmxIntr ==
    ASSUME EventParams, NEW s, Settled(s), s.cpu = "vmx", s.nmi => s.nmiwin
    PROVE  LET r == Ev!VmxIntr(s) IN Settled(r) /\ Windows(r)
<1>0. s \in Vcpu /\ s.if \in BOOLEAN /\ s.shadow \in BOOLEAN /\ s.ext \in BOOLEAN
    BY EvSettled
<1>1. CASE s.intwin \/ ~(s.ext \/ s.apic)
  <2>1. Ev!VmxIntr(s) = s
      BY <1>1 DEF Ev!VmxIntr
  <2>2. Windows(s)
      BY <1>1 DEF Windows
  <2> QED BY <2>1, <2>2
<1>2. CASE ~(s.intwin \/ ~(s.ext \/ s.apic)) /\ (~s.if \/ s.shadow \/ s.entry # "none")
  <2> DEFINE r == [s EXCEPT !.intwin = TRUE]
  <2>1. Ev!VmxIntr(s) = r
      BY <1>2 DEF Ev!VmxIntr
  <2>2. Settled(r) /\ r.cpu = s.cpu /\ r.nmi = s.nmi /\ r.nmiwin = s.nmiwin /\ r.intwin = TRUE
      BY EvSetWin, EvTypes
  <2> HIDE DEF r
  <2>3. Windows(r)
      BY <2>2 DEF Windows
  <2> QED BY <2>1, <2>2, <2>3
<1>3. CASE ~(s.intwin \/ ~(s.ext \/ s.apic)) /\ ~(~s.if \/ s.shadow \/ s.entry # "none")
  <2> DEFINE r == [Ev!GiveIntr(s) EXCEPT !.intwin = s.ext]
  <2>1. Ev!VmxIntr(s) = r
      BY <1>3 DEF Ev!VmxIntr
  <2>a. s.entry = "none" /\ s.if = TRUE /\ s.shadow = FALSE /\ s.ext \in BoolT
      BY <1>0, <1>3 DEF BoolT
  <2>2. /\ Settled(r) /\ r.cpu = s.cpu /\ r.nmi = s.nmi /\ r.nmiwin = s.nmiwin /\ r.intwin = s.ext
        /\ (r.ext \/ r.apic => s.ext)
      BY <2>a, EvIntr
  <2> HIDE DEF r
  <2>3. Windows(r)
      BY <2>2 DEF Windows
  <2> QED BY <2>1, <2>2, <2>3
<1> QED BY <1>1, <1>2, <1>3

\* The NMI part of svm_inj_interrupts(): one that is not injected has the cpu interrupt itself.
LEMMA EvSvmNmi ==
    ASSUME EventParams, NEW s, Settled(s), s.cpu = "svm", ~(s.nmi /\ ~s.blk /\ s.shadow)
    PROVE  LET r == Ev!SvmNmi(s) IN Settled(r) /\ r.cpu = "svm" /\ (r.nmi /\ ~r.blk => r.ipi)
<1>0. s \in Vcpu /\ s.nmi \in BOOLEAN /\ s.blk \in BOOLEAN /\ s.shadow \in BOOLEAN
    BY EvSettled
<1>1. CASE ~s.nmi \/ s.blk \/ s.shadow
  <2>1. Ev!SvmNmi(s) = s
      BY <1>1 DEF Ev!SvmNmi
  <2> QED BY <1>1, <2>1
<1>2. CASE ~(~s.nmi \/ s.blk \/ s.shadow) /\ s.entry # "none"
  <2> DEFINE r == [s EXCEPT !.ipi = TRUE]
  <2>1. Ev!SvmNmi(s) = r
      BY <1>2 DEF Ev!SvmNmi
  <2>2. EventInv(r)
      BY EvIpi, EvTypes DEF Settled
  <2>3. r.at = s.at /\ r.exc = s.exc /\ r.exitint = s.exitint /\ r.cpu = s.cpu /\ r.ipi = TRUE
      BY <1>0, SMTT(30) DEF Vcpu
  <2> HIDE DEF r
  <2> QED BY <2>1, <2>2, <2>3 DEF Settled
<1>3. CASE ~(~s.nmi \/ s.blk \/ s.shadow) /\ s.entry = "none"
  <2> DEFINE r == [[s EXCEPT !.entry = "nmi", !.nmi = FALSE, !.taken = @ + 1] EXCEPT !.blk = TRUE]
  <2>1. Ev!SvmNmi(s) = r
      BY <1>3 DEF Ev!SvmNmi, Ev!GiveNmi
  <2>2. EventInv(r)
      BY <1>3, EvSvmGiveNmi DEF Settled
  <2>3. r.at = s.at /\ r.exc = s.exc /\ r.exitint = s.exitint /\ r.cpu = s.cpu /\ r.nmi = FALSE
      BY <1>0, SMTT(30) DEF Vcpu
  <2> HIDE DEF r
  <2> QED BY <2>1, <2>2, <2>3 DEF Settled
<1> QED BY <1>1, <1>2, <1>3

\* The interrupts of svm_inj_interrupts().
LEMMA EvSvmIntr ==
    ASSUME EventParams, NEW s, Settled(s), s.cpu = "svm", s.nmi /\ ~s.blk => s.ipi
    PROVE  LET r == Ev!SvmIntr(s) IN Settled(r) /\ Windows(r)
<1>0. s \in Vcpu /\ s.if \in BOOLEAN /\ s.shadow \in BOOLEAN
    BY EvSettled
<1>1. CASE ~(s.ext \/ s.apic)
  <2> DEFINE r == [s EXCEPT !.intwin = FALSE]
  <2>1. Ev!SvmIntr(s) = r
      BY <1>1 DEF Ev!SvmIntr
  <2>2. Settled(r) /\ r.cpu = s.cpu /\ r.nmi = s.nmi /\ r.blk = s.blk /\ r.ipi = s.ipi /\ r.ext = s.ext /\ r.apic = s.apic
      BY EvSetWin, EvTypes
  <2> HIDE DEF r
  <2>3. Windows(r)
      BY <1>1, <2>2 DEF Windows
  <2> QED BY <2>1, <2>2, <2>3
<1>2. CASE (s.ext \/ s.apic) /\ (~s.if \/ s.shadow \/ s.entry # "none")
  <2> DEFINE r == [s EXCEPT !.intwin = TRUE]
  <2>1. Ev!SvmIntr(s) = r
      BY <1>2 DEF Ev!SvmIntr
  <2>2. Settled(r) /\ r.cpu = s.cpu /\ r.intwin = TRUE
      BY EvSetWin, EvTypes
  <2> HIDE DEF r
  <2>3. Windows(r)
      BY <2>2 DEF Windows
  <2> QED BY <2>1, <2>2, <2>3
<1>3. CASE (s.ext \/ s.apic) /\ ~(~s.if \/ s.shadow \/ s.entry # "none")
  <2> DEFINE r == [Ev!GiveIntr(s) EXCEPT !.intwin = TRUE]
  <2>1. Ev!SvmIntr(s) = r
      BY <1>3 DEF Ev!SvmIntr
  <2>a. s.entry = "none" /\ s.if = TRUE /\ s.shadow = FALSE
      BY <1>0, <1>3
  <2>2. Settled(r) /\ r.cpu = s.cpu /\ r.intwin = TRUE
      BY <2>a, EvIntr, EvTypes
  <2> HIDE DEF r
  <2>3. Windows(r)
      BY <2>2 DEF Windows
  <2> QED BY <2>1, <2>2, <2>3
<1> QED BY <1>1, <1>2, <1>3

LEMMA EvInjected ==
    ASSUME EventParams, NEW s, EventInv(s), s.at = "host", s.out = "run"
    PROVE  Settled(Ev!Injected(s)) /\ Windows(Ev!Injected(s))
<1> DEFINE p == Ev!Pending(s)
<1>1. Settled(p) /\ p.cpu = s.cpu
    BY EvPending, EvPendingAt DEF Settled
<1>2. s.cpu \in {"vmx", "svm"}
    BY DEF EventInv, EventCore, EventParams, Vcpu
<1> HIDE DEF p
<1>3. CASE s.cpu = "vmx"
  <2>1. Ev!Injected(s) = Ev!VmxIntr(Ev!VmxNmi(p))
      BY <1>3 DEF Ev!Injected, Ev!VmxInject, p
  <2> DEFINE q == Ev!VmxNmi(p)
  <2>2. Settled(q) /\ q.cpu = "vmx" /\ (q.nmi => q.nmiwin)
      BY <1>1, <1>3, EvVmxNmi
  <2> HIDE DEF q
  <2>3. Settled(Ev!VmxIntr(q)) /\ Windows(Ev!VmxIntr(q))
      BY <2>2, EvVmxIntr
  <2> QED BY <2>1, <2>3 DEF q
<1>4. CASE s.cpu = "svm" /\ p.nmi /\ ~p.blk /\ p.shadow
  <2> DEFINE r == [p EXCEPT !.intwin = TRUE]
  <2>1. Ev!Injected(s) = r
      BY <1>4 DEF Ev!Injected, Ev!SvmInject, p
  <2>2. Settled(r) /\ r.cpu = p.cpu /\ r.intwin = TRUE
      BY <1>1, EvSetWin, EvTypes
  <2> HIDE DEF r
  <2>3. Windows(r)
      BY <1>1, <1>4, <2>2 DEF Windows
  <2> QED BY <2>1, <2>2, <2>3
<1>5. CASE s.cpu = "svm" /\ ~(p.nmi /\ ~p.blk /\ p.shadow)
  <2>1. Ev!Injected(s) = Ev!SvmIntr(Ev!SvmNmi(p))
      BY <1>5 DEF Ev!Injected, Ev!SvmInject, p
  <2> DEFINE q == Ev!SvmNmi(p)
  <2>2. Settled(q) /\ q.cpu = "svm" /\ (q.nmi /\ ~q.blk => q.ipi)
      BY <1>1, <1>5, EvSvmNmi
  <2> HIDE DEF q
  <2>3. Settled(Ev!SvmIntr(q)) /\ Windows(Ev!SvmIntr(q))
      BY <2>2, EvSvmIntr
  <2> QED BY <2>1, <2>3 DEF q
<1> QED BY <1>2, <1>3, <1>4, <1>5

LEMMA EvEntries ==
    ASSUME EventParams, EventInv(sc), Ev!Enter \/ Ev!Abort  PROVE EventInv(sc')
<1> DEFINE s == Ev!Injected(sc)
<1>1. Settled(s) /\ Windows(s)
    BY EvInjected DEF Ev!Enter, Ev!Abort, Ev!Ready
<1>2. sc' = s \/ sc' = [s EXCEPT !.at = "guest", !.kick = FALSE]
    BY DEF Ev!Enter, Ev!Abort
<1> HIDE DEF s
<1>3. EventInv([s EXCEPT !.at = "guest", !.kick = FALSE])
    BY <1>1, EvEnter DEF Settled
<1> QED BY <1>1, <1>2, <1>3 DEF Settled

\* What the injection of a fault makes of a vcpu that has left the guest.
LEMMA EvFault ==
    ASSUME EventParams, NEW s, EventInv(s), s.at = "host", s.entry = "none", s.exc = "none", s.handler /\ ~s.badiret => s.blk, NEW e \in Ev!Faults
    PROVE  EventInv(Ev!InjectException(s, e))
<1>1. Ev!InjectException(s, e) = [s EXCEPT !.exc = e, !.shadow = FALSE]
    BY DEF Ev!InjectException
<1>2. EventInv([s EXCEPT !.exc = e, !.shadow = FALSE])
    BY EvInjectHost
<1> QED BY <1>1, <1>2

\* An exit between two instructions leaves nothing behind but what was pending.
LEMMA EvLeft ==
    ASSUME EventParams, NEW s, EventInv(s), s.at = "guest", s.out = "run", s.entry = "none"
    PROVE  LET x == Ev!Exit(s)
           IN /\ Settled(x) /\ x.entry = "none" /\ x.rip = s.rip /\ x.iret = s.iret /\ x.cpu = s.cpu /\ x.blk = s.blk /\ x.nmi = s.nmi
              /\ x.nmiwin = s.nmiwin /\ x.intwin = s.intwin /\ (~s.iret /\ x.handler /\ ~x.badiret => x.blk)
<1> DEFINE x == Ev!Exit(s)
<1>0. s \in Vcpu /\ s.exc = "none" /\ s.exitint = "none"
    BY DEF EventInv, EventCore, OnePlace
<1>1. EventInv(x)
    BY EvExit
<1>2. /\ x.at = "host" /\ x.exc = s.exc /\ x.exitint = s.exitint /\ x.entry = s.entry /\ x.rip = s.rip /\ x.iret = s.iret /\ x.cpu = s.cpu
      /\ x.blk = s.blk /\ x.nmi = s.nmi /\ x.nmiwin = s.nmiwin /\ x.intwin = s.intwin /\ x.handler = s.handler /\ x.badiret = s.badiret
    BY <1>0, SMTT(30) DEF Vcpu, Ev!Exit
<1> HIDE DEF x
<1>3. ~s.iret /\ s.handler /\ ~s.badiret => s.blk
    BY DEF EventInv, EventCore, NmiBlocked
<1>4. Settled(x)
    BY <1>0, <1>1, <1>2 DEF Settled
<1> QED BY <1>2, <1>3, <1>4 DEF x

LEMMA EvRunsExits ==
    ASSUME EventParams, EventInv(sc), Ev!Runs,
           \/ \E what \in {"done", "retry", "gp"} : Ev!Emulate(what)
           \/ \E what \in {"done", "ud"} : Ev!Handled(what)
           \/ \E e \in {"pf", "ud"} : Ev!Exception(e)
           \/ Ev!Paging
    PROVE  EventInv(sc')
<1> DEFINE x == Ev!Exit(sc)
<1>1. /\ sc.at = "guest" /\ sc.out = "run" /\ sc.entry = "none" /\ ~sc.iret /\ sc.rip < MaxRip
    BY DEF Ev!Runs, Ev!AtInstr, Ev!InGuest
<1>2. Settled(x) /\ x.entry = "none" /\ x.rip = sc.rip /\ ~x.iret /\ (x.handler /\ ~x.badiret => x.blk)
    BY <1>1, EvLeft
<1>3. \/ sc' = x \/ sc' = [x EXCEPT !.rip = @ + 1]
      \/ \E e \in Ev!Faults : sc' = Ev!InjectException(x, e) \/ sc' = Ev!Advance(Ev!InjectException(x, e), 0)
    BY DEF Ev!Emulate, Ev!Handled, Ev!Exception, Ev!Paging, Ev!Advance, Ev!Faults
<1> HIDE DEF x
<1>4. CASE sc' = x
    BY <1>2, <1>4 DEF Settled
<1>5. CASE sc' = [x EXCEPT !.rip = @ + 1]
    BY <1>1, <1>2, <1>5, EvAdvance DEF Settled
<1>6. ASSUME NEW e \in Ev!Faults, sc' = Ev!InjectException(x, e) \/ sc' = Ev!Advance(Ev!InjectException(x, e), 0)
      PROVE  EventInv(sc')
  <2> DEFINE y == Ev!InjectException(x, e)
  <2>1. EventInv(y)
      BY <1>2, EvFault DEF Settled
  <2> HIDE DEF y
  <2>2. y \in Vcpu
      BY <2>1 DEF EventInv, EventCore
  <2>3. y.rip + 0 = y.rip
      BY <2>2 DEF Vcpu, RipT, EventParams
  <2>4. Ev!Advance(y, 0) = [y EXCEPT !.rip = y.rip]
      BY <2>3, Zenon DEF Ev!Advance
  <2>5. y.at = "host"
    <3>1. x \in Vcpu /\ x.at = "host" /\ y = [x EXCEPT !.exc = e, !.shadow = FALSE]
        BY <1>2, EvSettled DEF Settled, y, Ev!InjectException
    <3> QED BY <3>1, SMTT(30) DEF Vcpu
  <2>6. EventInv([y EXCEPT !.rip = y.rip])
      BY <2>1, <2>5, EvStay
  <2> QED BY <1>6, <2>1, <2>4, <2>6 DEF y
<1> QED BY <1>3, <1>4, <1>5, <1>6

LEMMA EvWindowExits ==
    ASSUME EventParams, EventInv(sc), Ev!HostIntr \/ Ev!IntWindow \/ Ev!NmiWindow
    PROVE  EventInv(sc')
<1> DEFINE x == Ev!Exit(sc)
<1>0. sc.at = "guest" /\ sc.out = "run" /\ sc.entry = "none"
    BY DEF Ev!HostIntr, Ev!IntWindow, Ev!NmiWindow, Ev!InGuest
<1>1. Settled(x) /\ x.entry = "none" /\ x.cpu = sc.cpu /\ x.blk = sc.blk /\ x.nmi = sc.nmi /\ x.intwin = sc.intwin
    BY <1>0, EvLeft
<1>2. CASE Ev!HostIntr
  <2>1. sc' = x
      BY <1>2 DEF Ev!HostIntr
  <2> QED BY <1>1, <2>1 DEF Settled
<1>3. CASE Ev!IntWindow
  <2> DEFINE w == x.intwin /\ sc.cpu = "svm"
  <2>1. sc' = [x EXCEPT !.intwin = w]
      BY <1>3 DEF Ev!IntWindow
  <2>2. w \in BoolT
      BY <1>1, EvSettled, Zenon DEF BoolT
  <2> HIDE DEF w, x
  <2> QED BY <1>1, <2>1, <2>2, EvIntWin DEF Settled
<1>4. CASE Ev!NmiWindow /\ ~sc.nmi
  <2>1. sc' = [x EXCEPT !.nmiwin = FALSE]
      BY <1>4 DEF Ev!NmiWindow
  <2> HIDE DEF x
  <2> QED BY <1>1, <2>1, EvNmiWin, EvTypes DEF Settled
<1>5. CASE Ev!NmiWindow /\ sc.nmi
  <2> DEFINE y == [x EXCEPT !.entry = "nmi", !.nmi = FALSE, !.taken = @ + 1]
  <2>1. sc' = [Ev!GiveNmi(x) EXCEPT !.nmiwin = FALSE]
      BY <1>5 DEF Ev!NmiWindow
  <2> HIDE DEF x
  <2>2. Ev!GiveNmi(x) = y
      BY <1>1, <1>5 DEF Ev!GiveNmi
  <2>3. x.cpu = "vmx" /\ ~x.blk
      BY <1>1, <1>5 DEF Ev!NmiWindow
  <2>4. EventInv(y)
      BY <1>1, <2>3, EvVmxGiveNmi DEF Settled
  <2>5. y.at = "host"
    <3>1. x \in Vcpu /\ x.at = "host"
        BY <1>1, EvSettled DEF Settled
    <3> QED BY <3>1, SMTT(30) DEF Vcpu
  <2> HIDE DEF y
  <2> QED BY <2>1, <2>2, <2>4, <2>5, EvNmiWin, EvTypes
<1> QED BY <1>2, <1>3, <1>4, <1>5

LEMMA EvDeliveryExit ==
    ASSUME EventParams, EventInv(sc), NEW why \in {"paging", "task"} \cup Ev!Faults, Ev!DeliveryExit(why)
    PROVE  EventInv(sc')
<1> DEFINE b == IF sc.cpu = "vmx" /\ sc.entry = "nmi" THEN why = "task" ELSE sc.blk
           y == [sc EXCEPT !.exitint = sc.entry, !.entry = "none", !.blk = b]
           x == Ev!Exit(y)
<1>0. sc \in Vcpu /\ sc.at = "guest" /\ sc.entry # "none" /\ (why = "task" => sc.cpu = "vmx")
    BY DEF Ev!DeliveryExit, Ev!InGuest, EventInv, EventCore
<1>1. sc.blk \in BOOLEAN
    BY <1>0 DEF Vcpu, BoolT
<1>2. b \in BoolT
    BY <1>1, Zenon DEF BoolT
<1>3. Ev!SaveIntinfo(sc, why) = y
    BY DEF Ev!SaveIntinfo
<1>4. sc' = CASE why = "paging" -> x [] why = "task" -> [x EXCEPT !.at = "task"] [] OTHER -> Ev!InjectException(x, why)
    BY <1>3 DEF Ev!DeliveryExit
<1>5. CASE why = "task"
  <2>1. sc.entry # "nmi" => b = sc.blk
      OBVIOUS
  <2>2. sc' = [x EXCEPT !.at = "task"]
      BY <1>4, <1>5
  <2> HIDE DEF b
  <2> QED BY <1>0, <1>2, <1>5, <2>1, <2>2, EvSaveTask
<1>6. CASE why # "task"
  <2>1. IF sc.cpu = "vmx" /\ sc.entry = "nmi" THEN ~b ELSE b = sc.blk
      BY <1>6
  <2>2. sc' = x \/ (why \in Ev!Faults /\ sc' = Ev!InjectException(x, why))
      BY <1>4, <1>6 DEF Ev!Faults
  <2> HIDE DEF b
  <2>3. EventInv(x) /\ x.at = "host" /\ x.entry = "none" /\ x.exc = "none" /\ (x.handler /\ ~x.badiret => x.blk)
      BY <1>0, <1>2, <2>1, EvSave
  <2> HIDE DEF x
  <2> QED BY <2>2, <2>3, EvFault
<1> QED BY <1>5, <1>6

LEMMA EvTask ==
    ASSUME EventParams, EventInv(sc), Ev!TaskDone \/ Ev!TaskFault  PROVE EventInv(sc')
<1>1. CASE Ev!TaskDone
    BY <1>1, EvTaskDone DEF Ev!TaskDone
<1>2. CASE Ev!TaskFault
  <2>1. sc.at = "task" /\ sc.exc = "none" /\ sc.entry = "none" /\ (sc.handler /\ ~sc.badiret => sc.blk)
      BY <1>2 DEF Ev!TaskFault, EventInv, EventCore, OnePlace, NmiBlocked
  <2>2. sc' = [sc EXCEPT !.exc = "gp", !.shadow = FALSE, !.at = "host"]
      BY <1>2, <2>1 DEF Ev!TaskFault, Ev!InjectException
  <2>3. "gp" \in Ev!Faults
      BY DEF Ev!Faults
  <2> QED BY <2>1, <2>2, <2>3, EvInject
<1> QED BY <1>1, <1>2

LEMMA EvGuest ==
    ASSUME EventParams, EventInv(sc), Ev!Guest  PROVE EventInv(sc')
<1>0. sc \in Vcpu /\ sc.if \in BoolT /\ sc.shadow \in BoolT /\ sc.cpu \in {"vmx", "svm"}
    BY DEF EventInv, EventCore, Vcpu, EventParams
<1>1. CASE Ev!Deliver
    BY <1>1, EvDeliver DEF Ev!Deliver, Ev!InGuest
<1>2. CASE Ev!Instr
  <2>1. PICK f \in {sc.if, FALSE} : sc' = [Ev!Executed(sc) EXCEPT !.if = f]
      BY <1>2 DEF Ev!Instr
  <2>2. f \in BoolT
      BY <1>0, EvTypes
  <2> QED BY <1>2, <2>1, <2>2, EvInstr DEF Ev!Instr, Ev!Runs, Ev!AtInstr, Ev!InGuest
<1>3. CASE Ev!Sti
    BY <1>3, EvSti DEF Ev!Sti, Ev!Runs, Ev!AtInstr, Ev!InGuest
<1>4. ASSUME NEW f \in BOOLEAN, Ev!Iret(f)  PROVE EventInv(sc')
  <2>1. sc.at = "guest" /\ sc.entry = "none" /\ sc.rip < MaxRip /\ f \in BoolT
      BY <1>4 DEF Ev!Iret, Ev!AtInstr, Ev!InGuest, BoolT
  <2>2. CASE sc.cpu = "svm" /\ sc.blk
    <3>1. sc' = [Ev!Exit(sc) EXCEPT !.blk = FALSE, !.shadow = TRUE, !.iret = TRUE]
        BY <1>4, <2>2 DEF Ev!Iret
    <3> QED BY <2>1, <2>2, <3>1, EvIretExit
  <2>3. CASE ~(sc.cpu = "svm" /\ sc.blk)
    <3>1. sc' = [Ev!Executed(sc) EXCEPT !.blk = FALSE, !.handler = FALSE, !.if = f, !.iret = FALSE]
        BY <1>4, <2>3 DEF Ev!Iret
    <3> QED BY <2>1, <2>3, <3>1, EvIret
  <2> QED BY <2>2, <2>3
<1>5. ASSUME NEW why \in {"paging", "pf"}, Ev!IretFault(why)  PROVE EventInv(sc')
  <2>1. sc.at = "guest" /\ sc.out = "run" /\ sc.entry = "none" /\ sc.exc = "none"
      BY <1>5 DEF Ev!IretFault, Ev!AtInstr, Ev!InGuest, EventInv, OnePlace
  <2>2. PICK sh \in {sc.shadow, FALSE} :
            LET s == Ev!Exit([Ev!RestoreBlocking(sc) EXCEPT !.shadow = sh])
            IN sc' = IF why = "paging" THEN s ELSE Ev!InjectException(s, why)
      BY <1>5 DEF Ev!IretFault
  <2>3. sh \in BoolT
      BY <1>0, EvTypes
  <2> DEFINE s == Ev!Exit([Ev!RestoreBlocking(sc) EXCEPT !.shadow = sh])
  <2>4. EventInv(s) /\ s.at = "host" /\ s.entry = "none" /\ s.exc = "none" /\ (s.handler /\ ~s.badiret => s.blk)
    <3>1. CASE sc.cpu = "vmx"
      <4>1. s = Ev!Exit([sc EXCEPT !.shadow = sh])
          BY <3>1 DEF Ev!RestoreBlocking
      <4>2. EventInv(s)
          BY <2>1, <2>3, <3>1, <4>1, EvBadIretVmx
      <4> HIDE DEF s
      <4>3. s.at = "host" /\ s.entry = sc.entry /\ s.exc = sc.exc /\ s.cpu = sc.cpu
          BY <1>0, <4>1, SMTT(30) DEF Ev!Exit, Vcpu
      <4>4. s.handler /\ ~s.badiret => s.blk
          BY <3>1, <4>2, <4>3 DEF EventInv, EventCore, NmiBlocked
      <4> QED BY <2>1, <4>2, <4>3, <4>4
    <3>2. CASE sc.cpu = "svm"
      <4>1. s = Ev!Exit([[sc EXCEPT !.badiret = TRUE] EXCEPT !.shadow = sh])
          BY <3>2 DEF Ev!RestoreBlocking
      <4>2. EventInv(s)
          BY <2>1, <2>3, <4>1, EvBadIretSvm
      <4> HIDE DEF s
      <4>3. s.at = "host" /\ s.entry = sc.entry /\ s.exc = sc.exc /\ s.badiret = TRUE
          BY <1>0, <4>1, SMTT(30) DEF Ev!Exit, Vcpu
      <4> QED BY <2>1, <4>2, <4>3
    <3> QED BY <1>0, <3>1, <3>2
  <2>5. sc' = s \/ sc' = Ev!InjectException(s, "pf")
      BY <2>2
  <2> HIDE DEF s
  <2>6. "pf" \in Ev!Faults
      BY DEF Ev!Faults
  <2> QED BY <2>4, <2>5, <2>6, EvFault
<1> QED BY <1>1, <1>2, <1>3, <1>4, <1>5 DEF Ev!Guest

LEMMA EvRaise ==
    ASSUME EventParams, EventInv(sc), NEW f \in {"nmi", "ext", "apic"}, Ev!Raise(f)  PROVE EventInv(sc')
<1>0. sc \in Vcpu
    BY DEF EventInv, EventCore
<1>1. sc.kick \in BOOLEAN /\ sc.n \in Nat
    BY <1>0 DEF Vcpu, BoolT
<1> DEFINE k == sc.kick \/ sc.at = "guest"
           m == sc.n + 1
<1>2. k \in BoolT /\ (sc.at = "guest" => k)
    BY <1>1, Zenon DEF BoolT
<1>3. m \in Nat
    BY <1>1
<1>4. sc' = [sc EXCEPT ![f] = TRUE, !.n = m, !.kick = k]
    BY Zenon DEF Ev!Raise
<1> HIDE DEF k, m
<1>5. EventInv([sc EXCEPT !.nmi = TRUE, !.n = m, !.kick = k])
    BY <1>2, <1>3, EvRaiseNmi
<1>6. EventInv([sc EXCEPT !.ext = TRUE, !.n = m, !.kick = k])
    BY <1>2, <1>3, EvRaiseExt
<1>7. EventInv([sc EXCEPT !.apic = TRUE, !.n = m, !.kick = k])
    BY <1>2, <1>3, EvRaiseApic
<1>8. CASE f = "nmi"
    BY <1>4, <1>5, <1>8
<1>9. CASE f = "ext"
    BY <1>4, <1>6, <1>9
<1>10. CASE f = "apic"
    BY <1>4, <1>7, <1>10
<1> QED BY <1>8, <1>9, <1>10

LEMMA EvInit == ASSUME EventParams, Ev!Init  PROVE EventInv(sc)
<1>1. PICK c \in Backends :
        sc = [cpu |-> c, at |-> "host", out |-> "run", nmi |-> FALSE, ext |-> FALSE, apic |-> FALSE, exc |-> "none", exitint |-> "none",
              entry |-> "none", blk |-> FALSE, shadow |-> FALSE, if |-> TRUE, intwin |-> FALSE, nmiwin |-> FALSE, ipi |-> FALSE,
              rip |-> 0, last |-> 0, iret |-> FALSE, kick |-> FALSE, handler |-> FALSE, nested |-> FALSE, badiret |-> FALSE, taken |-> 0,
              given |-> 0, dropped |-> 0, n |-> 0]
    BY DEF Ev!Init
<1>2. 0 \in RipT /\ 0 \in Nat
    BY DEF RipT, EventParams
<1>3. "host" \in AtT /\ "run" \in OutT
    BY EvTypes
<1>4. sc \in Vcpu
    BY <1>1, <1>2, <1>3, EvTypes, ZenonT(30) DEF Vcpu
<1>5. /\ sc.at = "host" /\ sc.out = "run" /\ sc.exc = "none" /\ sc.exitint = "none" /\ sc.entry = "none" /\ sc.handler = FALSE
      /\ sc.nested = FALSE /\ sc.taken = 0 /\ sc.given = 0 /\ sc.dropped = 0 /\ sc.rip = 0
    BY <1>1
<1>6. Tallied(sc) /\ NmiBlocked(sc) /\ Acceptable(sc) /\ OnePlace(sc)
    BY <1>5 DEF Tallied, NmiBlocked, Acceptable, OnePlace, Ev!External
<1> QED BY <1>4, <1>5, <1>6 DEF EventInv, EventCore

LEMMA EvStep == ASSUME EventParams, EventInv(sc), Ev!Next  PROVE EventInv(sc')
<1>1. CASE Ev!Enter \/ Ev!Abort
    BY <1>1, EvEntries
<1>2. CASE Ev!TaskDone \/ Ev!TaskFault
    BY <1>2, EvTask
<1>3. CASE Ev!Guest
    BY <1>3, EvGuest
<1>4. CASE Ev!Exits
  <2>1. CASE \E why \in {"paging", "task"} \cup Ev!Faults : Ev!DeliveryExit(why)
      BY <2>1, EvDeliveryExit
  <2>2. CASE \/ \E what \in {"done", "retry", "gp"} : Ev!Emulate(what)
             \/ \E what \in {"done", "ud"} : Ev!Handled(what)
             \/ \E e \in {"pf", "ud"} : Ev!Exception(e)
             \/ Ev!Paging
    <3>1. Ev!Runs
        BY <2>2 DEF Ev!Emulate, Ev!Handled, Ev!Exception, Ev!Paging
    <3> QED BY <2>2, <3>1, EvRunsExits
  <2>3. CASE Ev!HostIntr \/ Ev!IntWindow \/ Ev!NmiWindow
      BY <2>3, EvWindowExits
  <2> QED BY <1>4, <2>1, <2>2, <2>3 DEF Ev!Exits
<1>5. CASE \E f \in {"nmi", "ext", "apic"} : Ev!Raise(f)
    BY <1>5, EvRaise
<1> QED BY <1>1, <1>2, <1>3, <1>4, <1>5 DEF Ev!Next

LEMMA EvShows ==
    ASSUME EventParams, EventInv(sc)
    PROVE  /\ Ev!TypeOK /\ Ev!AssertsHold /\ Ev!EventsKept /\ Ev!NoNestedNmi /\ Ev!NoLostEvent /\ Ev!EntryAccepted
<1>0. sc \in Vcpu
    BY DEF EventInv, EventCore
<1>1. /\ sc.cpu \in Backends /\ sc.at \in AtT /\ sc.out \in OutT /\ sc.exitint \in EventT /\ sc.entry \in EventT /\ sc.exc \in FaultT
      /\ sc.rip \in RipT
    BY <1>0 DEF Vcpu
<1>2. Ev!TypeOK
    BY <1>1 DEF Ev!TypeOK, AtT, OutT, EventT, FaultT, RipT
<1>3. Ev!AssertsHold /\ Ev!EventsKept /\ Ev!NoNestedNmi
    BY DEF EventInv, EventCore, Tallied, NmiBlocked, Ev!AssertsHold, Ev!EventsKept, Ev!NoNestedNmi
<1>4. sc.cpu \in {"vmx", "svm"}
    BY <1>1 DEF EventParams
<1>5. Ev!NoLostEvent
    BY <1>4 DEF EventInv, Windows, Ev!NoLostEvent, Ev!InGuest
<1>6. Ev!EntryAccepted
    BY DEF EventInv, EventCore, Acceptable, Ev!EntryAccepted, Ev!InGuest
<1> QED BY <1>2, <1>3, <1>5, <1>6

\* For any number of raised events and instructions and for both back ends: no assertion on the way of an event
\* (vm_inject_exception(), vmx_inject_nmi(), vm_entry_intinfo()) fails; an NMI or interrupt that was taken from its source is
\* delivered once, unless a fault in its own delivery replaces it; no NMI interrupts the NMI handler except after the faulting
\* IRET svm.c warns of; what the injection leaves pending has a window, or a kick, that ends the guest; and the processor
\* accepts every entry.
THEOREM EventsDelivered ==
    ASSUME EventParams
    PROVE  EventSpec => [](/\ Ev!TypeOK /\ Ev!AssertsHold /\ Ev!EventsKept /\ Ev!NoNestedNmi /\ Ev!NoLostEvent
                           /\ Ev!EntryAccepted)
<1> DEFINE I == EventInv(sc)
<1>1. Ev!Init => I
    BY EvInit
<1>2. I /\ [Ev!Next]_sc => I'
  <2>1. ASSUME I, Ev!Next  PROVE I'
      BY <2>1, EvStep
  <2>2. ASSUME I, sc' = sc  PROVE I'
      BY <2>2
  <2> QED BY <2>1, <2>2
<1>3. I => /\ Ev!TypeOK /\ Ev!AssertsHold /\ Ev!EventsKept /\ Ev!NoNestedNmi /\ Ev!NoLostEvent /\ Ev!EntryAccepted
    BY EvShows
<1> HIDE DEF I
<1> QED BY <1>1, <1>2, <1>3, PTL DEF EventSpec
=============================================================================
