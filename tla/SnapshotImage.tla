--------------------------- MODULE SnapshotImage ---------------------------
(* The checkpoint files of snapshot.c: guest memory in one, the state of the    *)
(* kernel's structures and of the monitor's devices behind each other in        *)
(* another, described by metadata records; and their restore into a new VM.     *)
(* A checkpoint may fail at any write.                                          *)
EXTENDS Integers, Sequences, FiniteSets

CONSTANTS Kern,    \* kernel structures, in the order of snapshot_kern_structs
          Devs,    \* device names, in the order of snapshot_devs
          Low, High,  \* bytes of memory below and above 4GB
          MaxSize  \* largest state of a structure or device
VARIABLE sc

Names == {Kern[i] : i \in 1..Len(Kern)} \union {Devs[i] : i \in 1..Len(Devs)}
Mem == [a \in 1..Low + High |-> <<"mem", a>>]
Bytes(name, n) == [i \in 1..n |-> <<name, i>>]

\* A VM with some of the devices, and the VM the image is restored into: it may
\* lack a device, have one more, or have one whose state is of another size.
Sizes == [Names -> 0..MaxSize]
Init ==
    \E size, need \in Sizes :
        /\ \A i \in 1..Len(Kern) : size[Kern[i]] = 1 /\ need[Kern[i]] = 1
        /\ sc = [size |-> size, need |-> need, ph |-> "mem", i |-> 1, foff |-> 0, memfile |-> <<>>, mem |-> <<>>,
                 file |-> <<>>, meta |-> <<>>, finished |-> FALSE, got |-> [n \in Names |-> <<>>]]

----------------------------------------------------------------------------
(* Saving                                                                   *)

\* vm_snapshot_mem_part(): the system writes (reads) part of what is left; the second
\* part starts at file offset lowmem and at 4GB in the guest.
SaveMem ==
    /\ sc.ph = "mem"
    /\ \E k \in 1..(IF sc.foff < Low THEN Low - sc.foff ELSE Low + High - sc.foff) :
          LET s == [sc EXCEPT !.memfile = @ \o SubSeq(Mem, sc.foff + 1, sc.foff + k), !.foff = @ + k]
          IN sc' = IF s.foff = Low + High THEN [s EXCEPT !.ph = "kern"] ELSE s

\* vm_snapshot_buf() fills the buffer; vm_get_snapshot_size() of it is written and
\* described by a record.
\* Mutant: the record has the wrong offset.
Written_NoOffset(s, name) ==
    LET data == Bytes(name, s.size[name])
    IN [s EXCEPT !.file = @ \o data, !.meta = Append(@, [key |-> name, size |-> Len(data), off |-> Len(data)]), !.i = @ + 1]
Written(s, name) ==
    LET data == Bytes(name, s.size[name])
    IN [s EXCEPT !.file = @ \o data, !.meta = Append(@, [key |-> name, size |-> Len(data), off |-> Len(s.file)]), !.i = @ + 1]
\* vm_snapshot_kern_structs() and vm_snapshot_user_devs(); a device that is not there
\* has a record of size 0.
SaveKern ==
    /\ sc.ph = "kern"
    /\ sc' = IF sc.i > Len(Kern) THEN [sc EXCEPT !.ph = "devs", !.i = 1] ELSE Written(sc, Kern[sc.i])
SaveDevs ==
    /\ sc.ph = "devs"
    /\ sc' = IF sc.i > Len(Devs) THEN [sc EXCEPT !.ph = "saved", !.i = 1, !.finished = TRUE, !.foff = 0] ELSE Written(sc, Devs[sc.i])
\* A failed write leaves the files as they are, the metadata unfinished.
SaveFails ==
    /\ sc.ph \in {"mem", "kern", "devs"}
    /\ sc' = [sc EXCEPT !.ph = "saved", !.i = 1, !.foff = 0]

----------------------------------------------------------------------------
(* Restoring                                                                *)

\* load_restore_file(): the metadata must parse. vm_snapshot_mem() compares the sizes.
Load ==
    /\ sc.ph = "saved"
    /\ sc' = [sc EXCEPT !.ph = IF sc.memfile = <<>> \/ sc.file = <<>> \/ ~sc.finished \/ Len(sc.memfile) # Low + High THEN "refused" ELSE "rmem"]
RestoreMem ==
    /\ sc.ph = "rmem"
    /\ \E k \in 1..(IF sc.foff < Low THEN Low - sc.foff ELSE Low + High - sc.foff) :
          LET s == [sc EXCEPT !.mem = @ \o SubSeq(sc.memfile, sc.foff + 1, sc.foff + k), !.foff = @ + k]
          IN sc' = IF s.foff = Low + High THEN [s EXCEPT !.ph = "rdevs"] ELSE s

\* lookup_struct() and lookup_dev(): the first record with the name.
Records(name) == {j \in 1..Len(sc.meta) : sc.meta[j].key = name}
Lookup(name) == sc.meta[CHOOSE j \in Records(name) : \A l \in Records(name) : j <= l]
\* The device takes what it needs: more than was saved is an error, less is not.
Restored(name, r) ==
    IF sc.need[name] > r.size THEN [sc EXCEPT !.ph = "refused"]
    ELSE [sc EXCEPT !.got[name] = SubSeq(sc.file, r.off + 1, r.off + sc.need[name]), !.i = @ + 1]
\* A saved device missing from the new VM: pci_snapshot() clears the buffer, which
\* is the read-only map of the file.
PciSnapshot(name) == IF sc.need[name] = 0 THEN [sc EXCEPT !.ph = "crashed"] ELSE Restored(name, Lookup(name))
\* vm_restore_user_dev(): a device without a record or without state is passed over.
RestoreDevs ==
    /\ sc.ph = "rdevs"
    /\ IF sc.i > Len(Devs) THEN sc' = [sc EXCEPT !.ph = "rkern", !.i = 1]
       ELSE LET name == Devs[sc.i]
            IN sc' = IF Records(name) = {} \/ Lookup(name).size = 0 THEN [sc EXCEPT !.i = @ + 1] ELSE PciSnapshot(name)
\* vm_restore_kern_struct(): a missing structure is an error.
RestoreKern ==
    /\ sc.ph = "rkern"
    /\ IF sc.i > Len(Kern) THEN sc' = [sc EXCEPT !.ph = "running"]
       ELSE LET name == Kern[sc.i]
            IN sc' = IF Records(name) = {} \/ Lookup(name).size = 0 THEN [sc EXCEPT !.ph = "refused"] ELSE Restored(name, Lookup(name))

Next == SaveMem \/ SaveKern \/ SaveDevs \/ SaveFails \/ Load \/ RestoreMem \/ RestoreDevs \/ RestoreKern

----------------------------------------------------------------------------
\* A restored VM runs with exactly the memory and the state that were saved: of a
\* device of the same configuration all of it, of no structure another's bytes; a
\* device that was not saved keeps the state of its own start.
RestoreExact ==
    sc.ph = "running" =>
        /\ sc.mem = Mem
        /\ \A n \in Names : IF sc.size[n] = 0 \/ sc.need[n] = 0 THEN sc.got[n] = <<>> ELSE sc.got[n] = Bytes(n, sc.need[n])
\* Every record lies inside the file (the lookups assert it).
RecordsInside == \A j \in 1..Len(sc.meta) : sc.meta[j].off + sc.meta[j].size <= Len(sc.file)
\* A VM never starts from a checkpoint that failed.
NeverPartial == sc.ph \in {"rmem", "rdevs", "rkern", "running"} => sc.finished
=============================================================================
