----------------------------- MODULE MCDevices -----------------------------
(* The interrupt, timer, bus, network, USB, audio and console devices, the   *)
(* instruction emulator and the services of bhyve for TLC. They share no     *)
(* state, so a behaviour exercises one part, which `part' names; `sc' is its *)
(* state.                                                                    *)
EXTENDS Integers, Sequences

VARIABLES sc, part

devVars == <<sc, part>>

Seg(t, d, r) == [type |-> t, p |-> TRUE, dpl |-> d, rpl |-> r]
Bd(l, i) == [len |-> l, ioc |-> i]

Pic  == INSTANCE Vatpic WITH N <- 4, Wires <- {<<0, 1>>, <<1, 1>>}, PicOps <- 3
Tmr  == INSTANCE TimerChips WITH Channels <- {0}, Byte <- 2, Default <- 2, PitMaxTime <- 6,
            PitOps <- 5, Timers <- {0}, W <- 4, Pins <- {0, 1, 2}, Allowed <- {1, 2},
            HpetMaxTime <- 4, HpetOps <- 4, S <- 2, Rates <- {0, 1}, MaxTime <- 6, MaxSecs <- 3,
            RtcOps <- 3, Hours <- 0..23, Mins <- {0, 9, 10, 59}, Years <- {1970, 1999, 2000, 2069},
            pit <- sc, hpet <- sc, clk <- sc, conv <- sc
Con  == INSTANCE VirtioConsole WITH Bufs <- 3, ConOps <- 8
Intx == INSTANCE PciIntx WITH Order <- <<"a", "b", "c">>,
            Slot <- [d \in {"a", "b", "c"} |-> IF d = "c" THEN 2 ELSE 1],
            IntPins <- {0, 1}, Pirqs <- {1, 2}, Irqs <- {0, 5, 6}, Permitted <- {5, 6},
            Reserved <- {}, Ioapics <- 2, IntxOps <- 5
Bus  == INSTANCE Dispatch WITH Bars <- {"a", "b", "c"},
            Type <- [a |-> "mem64", b |-> "mem32", c |-> "io"],
            Start <- [a |-> 0, b |-> 1, c |-> 0], Half <- 2, Ecfg <- 3, Vcpus <- {"v", "w"},
            CfgOps <- 4, Limit <- 2, MaxCount <- 4, W <- 4, bus <- sc, str <- sc
XEv  == INSTANCE XhciEvents WITH N <- 3, Ports <- {"p"}, EventOps <- 5
Xhc  == INSTANCE Xhci WITH Slots <- {1, 2}, Eps <- {1, 3}, Rings <- {1, 2}, CmdOps <- 7, M <- 4,
            MaxTrbs <- 7, MaxReports <- 6, Sizes <- {2, 3, 6}, MaxLen <- 7, ring <- sc, ctl <- sc
Nic  == INSTANCE E82545 WITH S <- 4, MaxPkts <- 2, NicOps <- 3, Bufs <- 1..4, MaxBufs <- 3, Hdrs <- {1, 2, 3},
            MssSet <- {1, 2, 3}, Addrs <- 2, Base <- 4, ABits <- 2, DBits <- 2, Words <- 3,
            MaxOps <- 3, nic <- sc, eeprom <- sc
Dma  == INSTANCE DmaLists WITH IovMax <- 2, Sector <- 2, PrdtLens <- {1, 2, 3}, MaxPrdt <- 4, Page <- 2,
            ListItems <- 3, Pages <- {0, 1, 2}, BlockIovs <- 4, MaxBytes <- 8, cut <- sc, prp <- sc
Dbg  == INSTANCE Gdb WITH Vcpus <- {0, 1, 2}, Boot <- {0, 1}, Waits <- BOOLEAN, GdbOps <- 6,
            MaxCmds <- 4, Page <- 4, MaxMem <- 7, srv <- sc, conn <- sc
Ins  == INSTANCE Vie WITH Regs <- {0, 1, 2, 5, 10, 127, 128, 129, 240, 255},
            Mems <- {0, 1, 3, 6, 8, 18, 54, 127, 128, 200, 255}, Count <- 3,
            Modes <- {"64", "compat32"}, PrefixSets <- {<<>>, <<102>>, <<100, 243>>},
            RegNums <- {0, 4, 5, 12, 13}, emul <- sc, dec <- sc
Mem  == INSTANCE GuestMemory WITH Levels <- 3, MaxLarge <- 1, Tables <- {1, 2}, GuestOps <- 2,
            SpBits <- 2, Page <- 4, Limits <- {2, 9}, MaxItems <- 4, walk <- sc, acc <- sc,
            Tasks <- 1..3, Codes <- {Seg("code", 0, 0), Seg("conforming", 0, 3)},
            Stacks <- {Seg("stack", 0, 0), Seg("stack", 3, 3)}, Switches <- 4
Aud  == INSTANCE Hda WITH Lists <- {<<Bd(2, TRUE), Bd(1, FALSE)>>, <<Bd(3, TRUE)>>}, Count <- 2,
            StreamTags <- {1, 2}, HdaOps <- 6, Size <- 3, Verbs <- {"get", "set1", "mute"},
            RintCnts <- {0, 2}, strm <- sc, ctlr <- sc
Ev   == INSTANCE VcpuEvents WITH Backends <- {"vmx", "svm"}, MaxRip <- 3, EventOps <- 3
Leg  == INSTANCE LegacyIo WITH UartFifoSz <- 2, MaxTyped <- 3, UartOps <- 5, Keys <- {"a"},
            KbdFifoSz <- 2, PsFifoSz <- 3, MouseFifoSz <- 7, Limit <- 2, KbdOps <- 3,
            Inputs <- 2, uart <- sc, kbd <- sc
Loop == INSTANCE VcpuLoop WITH Aps <- {1, 2}, MaxCkpts <- 2
Snap == INSTANCE SnapshotImage WITH Kern <- <<"vm", "vlapic">>, Devs <- <<"atkbdc", "net", "blk">>,
            Low <- 2, High <- 1, MaxSize <- 2
Fw   == INSTANCE Firmware WITH Oid <- <<"hw.n", "cpu">>, OidLen <- 6, Sizes <- {0, 3, 4, 5, 8, 12},
            MaxData <- 8, MaxReqs <- 2, PmOps <- 5, MaxTerms <- 2, fw <- sc, pm <- sc
Vnc  == INSTANCE Rfb WITH Cells <- 1..5, Colours <- {0, 1}, Thresh <- 25, MaxDraws <- 2,
            MaxConns <- 2
Ppt  == INSTANCE Passthru WITH Vms <- {"x", "y"}, Devs <- {"d"}, Segs <- [ram |-> 2], Gpas <- 0..1,
            MaxMaps <- 2, MaxMmio <- 1, Msgs <- 1, PptOps <- 6

DevInit ==
    \/ part = "pic"    /\ Pic!Init
    \/ part = "pit"    /\ Tmr!PitInit
    \/ part = "hpet"   /\ Tmr!HpetInit
    \/ part = "rtc"    /\ Tmr!RtcInit
    \/ part = "conv"   /\ Tmr!ConvInit
    \/ part = "con"    /\ Con!Init
    \/ part = "intx"   /\ Intx!Init
    \/ part = "bars"   /\ Bus!BarsInit
    \/ part = "inout"  /\ Bus!InoutInit
    \/ part = "xev"    /\ XEv!Init
    \/ part = "xcmd"   /\ Xhc!Init
    \/ part = "ring"   /\ Xhc!RingInit
    \/ part = "umouse" /\ Xhc!UmouseInit
    \/ part = "nic"    /\ Nic!Init
    \/ part = "pkt"    /\ Nic!PktInit
    \/ part = "ee"     /\ Nic!EeInit
    \/ part = "prdt"   /\ Dma!PrdtInit
    \/ part = "prp"    /\ Dma!PrpInit
    \/ part = "gdb"    /\ Dbg!GdbInit
    \/ part = "comm"   /\ Dbg!CommInit
    \/ part = "emul"   /\ Ins!EmulInit
    \/ part = "dec"    /\ Ins!DecInit
    \/ part = "walk"   /\ Mem!WalkInit
    \/ part = "acc"    /\ Mem!AccInit
    \/ part = "task"   /\ Mem!Init
    \/ part = "strm"   /\ Aud!StreamInit
    \/ part = "corb"   /\ Aud!CorbInit
    \/ part = "ev"     /\ Ev!Init
    \/ part = "uart"   /\ Leg!UartInit
    \/ part = "kbd"    /\ Leg!KbdInit
    \/ part = "loop"   /\ Loop!Init
    \/ part = "snap"   /\ Snap!Init
    \/ part = "fw"     /\ Fw!FwInit
    \/ part = "pm"     /\ Fw!PmInit
    \/ part = "vnc"    /\ Vnc!Init
    \/ part = "ppt"    /\ Ppt!Init

PicPart    == part = "pic"    /\ Pic!Next /\ UNCHANGED part
PitPart    == part = "pit"    /\ Tmr!PitNext /\ UNCHANGED part
HpetPart   == part = "hpet"   /\ Tmr!HpetNext /\ UNCHANGED part
RtcPart    == part = "rtc"    /\ Tmr!RtcNext /\ UNCHANGED part
ConvPart   == part = "conv"   /\ Tmr!ConvNext /\ UNCHANGED part
ConPart    == part = "con"    /\ Con!Next /\ UNCHANGED part
IntxPart   == part = "intx"   /\ Intx!Next /\ UNCHANGED part
BarsPart   == part = "bars"   /\ Bus!BarsNext /\ UNCHANGED part
InoutPart  == part = "inout"  /\ Bus!InoutNext /\ UNCHANGED part
XevPart    == part = "xev"    /\ XEv!Next /\ UNCHANGED part
XcmdPart   == part = "xcmd"   /\ Xhc!Next /\ UNCHANGED part
RingPart   == part = "ring"   /\ Xhc!RingNext /\ UNCHANGED part
UmousePart == part = "umouse" /\ Xhc!UmouseNext /\ UNCHANGED part
NicPart    == part = "nic"    /\ Nic!Next /\ UNCHANGED part
PktPart    == part = "pkt"    /\ Nic!PktNext /\ UNCHANGED part
EePart     == part = "ee"     /\ Nic!EeNext /\ UNCHANGED part
PrdtPart   == part = "prdt"   /\ Dma!PrdtNext /\ UNCHANGED part
PrpPart    == part = "prp"    /\ Dma!PrpNext /\ UNCHANGED part
GdbPart    == part = "gdb"    /\ Dbg!GdbNext /\ UNCHANGED part
CommPart   == part = "comm"   /\ Dbg!CommNext /\ UNCHANGED part
EmulPart   == part = "emul"   /\ Ins!EmulNext /\ UNCHANGED part
DecPart    == part = "dec"    /\ Ins!DecNext /\ UNCHANGED part
WalkPart   == part = "walk"   /\ Mem!WalkNext /\ UNCHANGED part
AccPart    == part = "acc"    /\ Mem!AccNext /\ UNCHANGED part
TaskPart   == part = "task"   /\ Mem!Next /\ UNCHANGED part
StrmPart   == part = "strm"   /\ Aud!StreamNext /\ UNCHANGED part
CorbPart   == part = "corb"   /\ Aud!CorbNext /\ UNCHANGED part
EvPart     == part = "ev"     /\ Ev!Next /\ UNCHANGED part
UartPart   == part = "uart"   /\ Leg!UartNext /\ UNCHANGED part
KbdPart    == part = "kbd"    /\ Leg!KbdNext /\ UNCHANGED part
LoopPart   == part = "loop"   /\ Loop!Next /\ UNCHANGED part
SnapPart   == part = "snap"   /\ Snap!Next /\ UNCHANGED part
FwPart     == part = "fw"     /\ Fw!FwNext /\ UNCHANGED part
PmPart     == part = "pm"     /\ Fw!PmNext /\ UNCHANGED part
VncPart    == part = "vnc"    /\ Vnc!Next /\ UNCHANGED part
PptPart    == part = "ppt"    /\ Ppt!Next /\ UNCHANGED part

DevNext ==
    \/ PicPart \/ PitPart \/ HpetPart \/ RtcPart \/ ConvPart
    \/ ConPart \/ IntxPart \/ BarsPart \/ InoutPart \/ XevPart
    \/ XcmdPart \/ RingPart \/ UmousePart \/ NicPart \/ PktPart
    \/ EePart \/ PrdtPart \/ PrpPart \/ GdbPart \/ CommPart \/ EmulPart \/ DecPart
    \/ WalkPart \/ AccPart \/ TaskPart \/ StrmPart \/ CorbPart
    \/ EvPart \/ UartPart \/ KbdPart \/ LoopPart \/ SnapPart
    \/ FwPart \/ PmPart \/ VncPart \/ PptPart

DevSpec == DevInit /\ [][DevNext]_devVars

(* What a device keeps has the shape its code gives it: ring positions and   *)
(* FIFO counts inside their arrays, registers within their width, and modes  *)
(* among the ones the code knows.                                            *)
TypeOK ==
    /\ part = "pic"   => Pic!TypeOK
    /\ part = "pit"   => Tmr!PitTypeOK
    /\ part = "hpet"  => Tmr!HpetTypeOK
    /\ part = "rtc"   => Tmr!RtcTypeOK
    /\ part = "con"   => Con!TypeOK
    /\ part = "intx"  => Intx!TypeOK
    /\ part = "bars"  => Bus!BarsTypeOK
    /\ part = "inout" => Bus!InoutTypeOK
    /\ part = "xev"   => XEv!TypeOK
    /\ part = "xcmd"  => Xhc!TypeOK
    /\ part = "ring"  => Xhc!RingTypeOK
    /\ part = "nic"   => Nic!TypeOK
    /\ part = "gdb"   => Dbg!GdbTypeOK
    /\ part = "walk"  => Mem!WalkTypeOK
    /\ part = "task"  => Mem!TypeOK
    /\ part = "strm"  => Aud!StreamTypeOK
    /\ part = "corb"  => Aud!CorbTypeOK
    /\ part = "ev"    => Ev!TypeOK
    /\ part = "loop"  => Loop!TypeOK

(* A reason to interrupt that the guest has enabled and not acknowledged is  *)
(* on the interrupt line or still to be announced, whatever order the        *)
(* device's threads and the guest's register writes come in: the 8259, the   *)
(* HPET, INTx routing, the e82545, HD audio, the keyboard controller, the    *)
(* UART and the power button; and no NMI or interrupt raised for a vcpu is   *)
(* forgotten. The lines of the HPET, INTx, the audio rings, the UART and the *)
(* power button are up only then. That of the e82545 stays up for a cause    *)
(* masked since, and that of an audio stream after its reset.                *)
LinesAgree ==
    /\ part = "pic"  => Pic!PicNotified /\ Pic!WireKept
    /\ part = "hpet" => Tmr!LineAgrees
    /\ part = "intx" => Intx!LinesAgree /\ Intx!WantedIsShown
    /\ part = "nic"  => Nic!NoLostInterrupt
    /\ part = "strm" => Aud!BufferReported
    /\ part = "corb" => Aud!LineAgrees /\ Aud!ResponsesAnnounced
    /\ part = "ev"   => Ev!NoLostEvent
    /\ part = "uart" => Leg!LineAgrees
    /\ part = "kbd"  => Leg!InputShown /\ Leg!AuxMarked
    /\ part = "pm"   => Fw!LineAgrees

(* A timer that the guest programmed has its callout armed for the moment    *)
(* its registers say, and none fires before it, across reprogramming, late   *)
(* callouts and the host changing the clock (8254, HPET, RTC).               *)
TimersAgree ==
    /\ part = "pit"  => Tmr!PeriodicArmed /\ Tmr!NoEarlyInterrupt
    /\ part = "hpet" => Tmr!DueAgrees
    /\ part = "rtc"  => Tmr!CalloutAgrees /\ Tmr!TimeOwned /\ Tmr!AlarmKept

(* What travels through a ring, a FIFO or a stream arrives once and in order *)
(* and does not wait for a wakeup nobody will send: USB events and transfer  *)
(* descriptors, packets, port I/O, console announcements, audio buffers and  *)
(* commands, typed bytes, keys, mouse movement and screen updates.           *)
RingsInOrder ==
    /\ part = "inout" => Bus!EachOnce
    /\ part = "con"   => Con!GuestTold
    /\ part = "xev"   => XEv!EventsInOrder
    /\ part = "ring"  => Xhc!TrbsInOrder /\ Xhc!ReportNotStuck
    /\ part = "nic"   => Nic!TxInOrder /\ Nic!TxNotStuck /\ Nic!QuietWhenOff /\ Nic!DisableReturns
    /\ part = "strm"  => Aud!PositionExact
    /\ part = "corb"  => Aud!CommandsOnce
    /\ part = "uart"  => Leg!InputNotStuck /\ Leg!BytesInOrder
    /\ part = "kbd"   => Leg!KeysExact /\ Leg!MovementExact
    /\ part = "vnc"   => Vnc!ViewCurrent /\ Vnc!OneUpdate

(* A conversion gives what its definition says: the RTC's fields, USB        *)
(* replies, segmented packets and their checksums, EEPROM words, the         *)
(* requests a disk transfer is cut into, emulated instructions and their     *)
(* encodings, stack accesses, snapshot images, firmware answers and the      *)
(* debugger's view of memory.                                                *)
ConversionsExact ==
    /\ part = "conv"   => Tmr!RoundTrip
    /\ part = "umouse" => Xhc!ReplyExact /\ Xhc!SettingsKept
    /\ part = "pkt"    => Nic!SegmentsExact /\ Nic!HeaderExact
    /\ part = "ee"     => Nic!ReadsBack
    /\ part = "prdt"   => Dma!PrdtTransferExact
    /\ part = "prp"    => Dma!PrpTransferExact
    /\ part = "emul"   => Ins!RegisterRule /\ Ins!FlagsMeanOrder /\ Ins!MemoryRule /\ Ins!ItemsOnce
    /\ part = "dec"    => Ins!DecodeExact
    /\ part = "acc"    => Mem!Lifo /\ Mem!InsideSegment
    /\ part = "snap"   => Snap!RestoreExact /\ Snap!RecordsInside /\ Snap!NeverPartial
    /\ part = "fw"     => Fw!AnswerExact
    /\ part = "comm"   => Dbg!MemoryExact

(* A service keeps its protocol whatever its callers interleave: a stop is   *)
(* reported to the debugger once and a stopped vcpu does not run, a page     *)
(* walk sees one entry per level and loses no write of the guest, a task     *)
(* switch leaves busy bits and saved state right, no event is injected where *)
(* the processor would refuse it, a checkpoint saves only paused vcpus and   *)
(* wakes everything it paused, handlers are called inside their BAR, USB     *)
(* slots are not shared, and an assigned device reaches only its VM's pages. *)
ProtocolKept ==
    /\ part = "bars" => Bus!HandlerInBar /\ Bus!HintsValid /\ Bus!DecodedIsRegistered
    /\ part = "xcmd" => Xhc!SlotsDistinct /\ Xhc!XferReady /\ Xhc!RingOwned
    /\ part = "gdb"  => /\ Dbg!StopReported /\ Dbg!StoppedIsStill /\ Dbg!CapsAgree
                        /\ Dbg!NoSpin /\ Dbg!AssertsHold
    /\ part = "comm" => Dbg!RepliesWhole /\ Dbg!DebuggerNotStuck
    /\ part = "walk" => /\ Mem!GuestWritesKept /\ Mem!WalkExact /\ Mem!DirtyIsWritable
                        /\ Mem!FaultExplained
    /\ part = "task" => /\ Mem!BusyIsInUse /\ Mem!StateKept /\ Mem!EntryCheck
                        /\ Mem!ReturnsFindTask
    /\ part = "strm" => Aud!AssertsHold
    /\ part = "ev"   => /\ Ev!AssertsHold /\ Ev!EventsKept /\ Ev!NoNestedNmi
                        /\ Ev!EntryAccepted
    /\ part = "loop" => /\ Loop!SavedIsStill /\ Loop!ParkedIsWoken /\ Loop!PauseIsWoken
                        /\ Loop!PauseHasHope /\ Loop!ExitIsReached /\ Loop!ExitsLast
                        /\ Loop!LoopAsserts
    /\ part = "fw"   => Fw!InStep
    /\ part = "pm"   => Fw!PressKept /\ Fw!TermIsButton /\ Fw!SciEnKept
    /\ part = "ppt"  => Ppt!SpaceAgrees /\ Ppt!PageInOneDomain /\ Ppt!DeviceConfined
============================================================================
