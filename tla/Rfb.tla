--------------------------------- MODULE Rfb ---------------------------------
(* The VNC server's screen updates (rfb.c). A reader thread serves one client   *)
(* at a time; the writer it starts scans the frame buffer cell by cell, keeps a *)
(* checksum per cell and sends the cells whose checksum changed, or the whole   *)
(* screen. The guest draws at any time. A checksum stands for its contents.     *)
EXTENDS Integers, FiniteSets

CONSTANTS Cells,     \* 1..N, in scan order
          Colours,   \* contents of a cell; 0 is the initial one
          Thresh,    \* RFB_SEND_ALL_THRESH, percent
          MaxDraws,  \* cells drawn by the guest
          MaxConns   \* clients
N == Cardinality(Cells)
Nothing == -1        \* no checksum, or nothing shown
VARIABLE sc

\* screen, crc (checksums), view (the client's picture); wr: the writer; todo: cells
\* still to be scanned or sent; changed: crc_tmp; still: the guest has not drawn since
\* the scan began; back: cells drawn back to their last checksum.
Init ==
    sc = [screen |-> [c \in Cells |-> 0], crc |-> [c \in Cells |-> Nothing], view |-> [c \in Cells |-> Nothing],
          conn |-> FALSE, cfd |-> FALSE, rd |-> "accept", wr |-> "none", sending |-> FALSE, todo |-> {}, changed |-> {},
          mid |-> FALSE, all |-> FALSE, resizeok |-> FALSE, mixed |-> FALSE, still |-> FALSE, back |-> {}, draws |-> 0, conns |-> 0]

First(S) == CHOOSE c \in S : \A d \in S : c <= d

Draw(c, v) ==
    /\ sc.draws < MaxDraws /\ sc.screen[c] # v
    /\ sc' = [sc EXCEPT !.screen[c] = v, !.draws = @ + 1, !.still = FALSE,
                        !.back = IF sc.crc[c] = v THEN @ \union {c} ELSE @]

----------------------------------------------------------------------------
(* rfb_handle() and rfb_thr(): the reader.                                  *)

Accept ==
    /\ sc.rd = "accept" /\ sc.conns < MaxConns
    /\ sc' = [sc EXCEPT !.rd = "init", !.conn = TRUE, !.cfd = TRUE, !.resizeok = FALSE, !.mixed = FALSE,
                        !.view = [c \in Cells |-> Nothing], !.conns = @ + 1]
\* rfb_send_screen(all): the first picture, which touches no checksum; then the writer
\* thread is created.
FirstPicture ==
    /\ sc.rd = "init"
    /\ sc' = [sc EXCEPT !.view = sc.screen, !.back = {}, !.rd = "loop", !.wr = "idle"]
\* rfb_recv_set_encodings_msg(), and rfb_recv_update_msg() for another size than the
\* screen's: the answer is written whatever the writer is doing.
SetEncodings == sc.rd = "loop" /\ sc.conn /\ ~sc.resizeok /\ sc' = [sc EXCEPT !.resizeok = TRUE]
UpdateRequest ==
    /\ sc.rd = "loop" /\ sc.conn /\ sc.resizeok
    /\ sc' = [sc EXCEPT !.mixed = @ \/ sc.mid]
\* The client goes; the reader sees the end of the stream and waits for the writer.
Hangup == sc.conn /\ sc.rd = "loop" /\ sc' = [sc EXCEPT !.conn = FALSE]
ReaderEnds ==
    /\ sc.rd = "loop" /\ ~sc.conn
    /\ sc' = [sc EXCEPT !.cfd = FALSE, !.rd = "join"]
Join ==
    /\ sc.rd = "join" /\ sc.wr = "gone"
    /\ sc' = [sc EXCEPT !.rd = "accept", !.wr = "none"]

----------------------------------------------------------------------------
(* rfb_wr_thr() and rfb_send_screen(): the writer.                          *)

WrThr ==
    /\ sc.wr = "idle"
    /\ sc' = IF ~sc.cfd THEN [sc EXCEPT !.wr = "gone"]
             ELSE [sc EXCEPT !.wr = "scan", !.sending = TRUE, !.todo = Cells, !.changed = {}, !.still = TRUE]
\* The last row of a cell completes its checksum: it is remembered before the cell
\* is sent.
ScanCell ==
    /\ sc.wr = "scan" /\ sc.todo # {}
    /\ LET c == First(sc.todo)
           s == [sc EXCEPT !.todo = @ \ {c}]
       IN sc' = IF sc.crc[c] = sc.screen[c] THEN s
                ELSE [s EXCEPT !.crc[c] = sc.screen[c], !.changed = @ \union {c}, !.back = @ \ {c}]
\* Many changes: the whole screen.
ScanEnds ==
    /\ sc.wr = "scan" /\ sc.todo = {}
    /\ LET all == (Cardinality(sc.changed) * 100) \div N >= Thresh
       IN sc' = [sc EXCEPT !.wr = "send", !.all = all, !.todo = IF all THEN Cells ELSE sc.changed]
\* rfb_send_rect() or, for all of them, rfb_send_all(): the header, then the pixels as
\* they are now.
Header ==
    /\ sc.wr = "send" /\ sc.todo # {} /\ ~sc.mid
    /\ sc' = IF sc.conn THEN [sc EXCEPT !.mid = TRUE] ELSE [sc EXCEPT !.wr = "failed"]
Pixels ==
    /\ sc.wr = "send" /\ sc.mid
    /\ LET c == First(sc.todo)
       IN sc' = IF ~sc.conn THEN [sc EXCEPT !.wr = "failed", !.mid = FALSE]
                ELSE [sc EXCEPT !.view[c] = sc.screen[c], !.todo = @ \ {c}, !.mid = sc.all /\ sc.todo # {c}]
SendDone ==
    /\ \/ sc.wr = "send" /\ sc.todo = {}
       \/ sc.wr = "failed"
    /\ sc' = [sc EXCEPT !.sending = FALSE, !.mid = FALSE, !.wr = IF sc.wr = "failed" THEN "gone" ELSE "idle"]

Reader == Accept \/ FirstPicture \/ SetEncodings \/ UpdateRequest \/ Hangup \/ ReaderEnds \/ Join
Writer == WrThr \/ ScanCell \/ ScanEnds \/ Header \/ Pixels \/ SendDone
Next == Reader \/ Writer \/ \E c \in Cells, v \in Colours : Draw(c, v)

----------------------------------------------------------------------------
\* When a scan during which the guest drew nothing has been sent, the client sees the
\* screen. Only a cell drawn back to the contents of its last checksum may be stale:
\* it is not sent again although the client was shown something else.
ViewCurrent ==
    (sc.wr = "idle" /\ sc.conn /\ sc.still /\ ~sc.mixed) => \A c \in Cells \ sc.back : sc.view[c] = sc.screen[c]
\* One update is in progress at most, and none once its client has been let go.
OneUpdate == /\ sc.sending = (sc.wr \in {"scan", "send", "failed"})
             /\ sc.rd \in {"accept", "init"} => sc.wr = "none" /\ ~sc.sending
=============================================================================
