--------------------------- MODULE VirtioConsole ---------------------------
(* A port of the virtio console of pci_virtio_console.c backed by a socket.   *)
(* The mevent thread accepts connections and reads them without the device    *)
(* mutex; a vcpu runs the notifications of the queues under it.               *)
EXTENDS Naturals

CONSTANTS Bufs,      \* bound: buffers a queue holds
          ConOps     \* bound: connections and driver operations
VARIABLE sc

\* The mevent thread: `at' is inside pci_vtcon_open_port() after the test of
\* vsc_ready. `told': history, the guest got PORT_OPEN of this connection;
\* `lost': history, a control event found no buffer, or the port was found closed
\* while the device became ready.
TypeOK ==
    /\ sc.ctl \in 0..Bufs /\ sc.rx \in 0..Bufs /\ {sc.ready, sc.rxReady, sc.spOpen, sc.ssOpen, sc.conn} \subseteq BOOLEAN
    /\ sc.at \in {"idle", "opening"} /\ sc.data \in 0..Bufs

Init ==
    sc = [ready |-> FALSE, rxReady |-> FALSE, spOpen |-> FALSE, ssOpen |-> FALSE, conn |-> FALSE, at |-> "idle",
          ctl |-> 0, rx |-> 0, data |-> 0, eof |-> FALSE, used |-> 0, intr |-> FALSE,
          added |-> FALSE, told |-> FALSE, lost |-> FALSE, ops |-> 0]

Op == sc.ops < ConOps
Tick(s) == [s EXCEPT !.ops = @ + 1]

----------------------------------------------------------------------------
(* Control messages to the guest                                            *)

\* pci_vtcon_control_send(): dropped when the guest posted no buffer.
ControlSend(s, event) ==
    IF s.ctl = 0 THEN [s EXCEPT !.lost = TRUE]
    ELSE [s EXCEPT !.ctl = @ - 1, !.intr = TRUE, !.told = @ \/ event = "PORT_OPEN", !.added = @ \/ event = "DEVICE_ADD"]
AnnouncePort(s) == ControlSend(ControlSend(s, "DEVICE_ADD"), "PORT_NAME")
OpenPort(s) == ControlSend(s, "PORT_OPEN")

\* pci_vtcon_control_tx(): DEVICE_READY announces the port, and opens it when a
\* connection came first. vsp_open is never reset.
DeviceReady ==
    /\ Op
    /\ LET a == AnnouncePort([Tick(sc) EXCEPT !.ready = TRUE, !.lost = @ \/ sc.at = "opening"])
       IN sc' = IF sc.spOpen THEN OpenPort(a) ELSE a
PortReady == Op /\ sc.added /\ sc' = Tick(sc)   \* answered for a console port only

----------------------------------------------------------------------------
(* The mevent thread                                                        *)

\* pci_vtcon_sock_accept(): a second connection is closed at once.
SockAccept ==
    /\ Op /\ sc.at = "idle"
    /\ sc' = IF sc.ssOpen THEN Tick(sc)
             ELSE LET s == [Tick(sc) EXCEPT !.ssOpen = TRUE, !.conn = TRUE, !.eof = FALSE, !.data = 0, !.told = FALSE,
                                            !.lost = FALSE]
                  IN IF s.ready THEN OpenPort(s) ELSE [s EXCEPT !.at = "opening"]
SetOpen == sc.at = "opening" /\ sc' = [sc EXCEPT !.at = "idle", !.spOpen = TRUE]

Close(s) == [s EXCEPT !.conn = FALSE, !.ssOpen = FALSE, !.data = 0]

\* pci_vtcon_sock_rx(): input is thrown away until the guest is ready for it; it
\* is closed at the end of the stream, and when it filled every buffer.
SockRx ==
    /\ sc.conn /\ sc.at = "idle" /\ (sc.data > 0 \/ sc.eof)
    /\ sc' = IF ~sc.rxReady \/ sc.rx = 0
             THEN IF sc.data = 0 THEN Close(sc) ELSE [sc EXCEPT !.data = 0]
             ELSE LET n == IF sc.data < sc.rx THEN sc.data ELSE sc.rx
                      s == [sc EXCEPT !.rx = @ - n, !.data = @ - n, !.used = @ + n, !.intr = @ \/ n > 0]
                  IN IF s.rx = 0 \/ s.eof THEN Close(s) ELSE s

Peer ==
    \/ sc.conn /\ ~sc.eof /\ sc.data < Bufs /\ sc' = [sc EXCEPT !.data = @ + 1]
    \/ sc.conn /\ ~sc.eof /\ sc' = [sc EXCEPT !.eof = TRUE]

----------------------------------------------------------------------------
(* Notifications and the driver                                             *)

\* pci_vtcon_notify_rx() of the first kick; later kicks are suppressed.
NotifyRx == sc.rx > 0 /\ ~sc.rxReady /\ sc' = [sc EXCEPT !.rxReady = TRUE]
\* pci_vtcon_notify_tx() with pci_vtcon_sock_tx(): a failed write closes.
NotifyTx(ok) == Op /\ sc' = [(IF sc.conn /\ ~ok THEN Close(Tick(sc)) ELSE Tick(sc)) EXCEPT !.intr = TRUE]

PostControl == Op /\ sc.ctl < Bufs /\ sc' = [Tick(sc) EXCEPT !.ctl = @ + 1]
PostRx      == Op /\ sc.rx < Bufs /\ sc' = [Tick(sc) EXCEPT !.rx = @ + 1]
Isr         == sc.intr /\ sc' = [sc EXCEPT !.intr = FALSE, !.used = 0]

Guest == DeviceReady \/ PortReady \/ NotifyRx \/ (\E ok \in BOOLEAN : NotifyTx(ok)) \/ PostControl \/ PostRx \/ Isr
Next == Guest \/ SockAccept \/ SetOpen \/ SockRx \/ Peer

----------------------------------------------------------------------------
(* Properties                                                               *)

\* A ready guest knows of the open connection of the port, whichever came first,
\* unless it left the device without control buffers; the socket is marked open
\* exactly while there is a connection, and bytes put into buffers of the guest
\* are announced to it.
GuestTold ==
    /\ sc.ready /\ sc.ssOpen /\ sc.at = "idle" => sc.told \/ sc.lost
    /\ sc.ssOpen = sc.conn
    /\ sc.used > 0 => sc.intr
=============================================================================
