------------------------------ MODULE DmaLists ------------------------------
(* How pci_ahci.c cuts a transfer described by a guest's PRDT into backend    *)
(* requests of at most IovMax segments, each of whole sectors. A request is   *)
(* built, made, and the rest is built again from the bytes already done.      *)
EXTENDS SequencesExt, Integers

CONSTANTS IovMax,     \* BLOCKIF_IOV_MAX
          Sector,     \* the backend's sector size
          PrdtLens,   \* sizes of a PRDT entry
          MaxPrdt,    \* bound: entries of a PRDT
          Page,       \* bytes of a page
          ListItems,  \* NVME_PRP2_ITEMS: entries of a list page
          Pages,      \* page numbers of the guest's buffers; 0 is no page
          BlockIovs,  \* NVME_MAX_BLOCKIOVS
          MaxBytes    \* bound: bytes of a transfer (2^MDTS pages)
VARIABLES cut, prp

Total(prdt) ==
    LET sum[i \in 0..Len(prdt)] == IF i = 0 THEN 0 ELSE sum[i - 1] + prdt[i]
    IN sum[Len(prdt)]

\* The loop of ahci_build_iov() over the entries: `skip' bytes were done before.
Gather(prdt, done, len) ==
    LET Visit(a, i) ==
            IF Len(a.iov) = IovMax \/ a.left = 0 THEN a
            ELSE IF prdt[i] <= a.skip THEN [a EXCEPT !.skip = @ - prdt[i], !.i = i]
            ELSE LET n == Min({prdt[i] - a.skip, a.left})
                 IN [a EXCEPT !.iov = Append(@, [entry |-> i, from |-> a.skip, len |-> n]),
                              !.left = @ - n, !.todo = @ + n, !.skip = 0, !.i = i]
        after[i \in 0..Len(prdt)] ==
            IF i > 0 THEN Visit(after[i - 1], i)
            ELSE [skip |-> done, left |-> len - done, todo |-> 0, iov |-> <<>>, i |-> 0]
    IN after[Len(prdt)]

\* The segments without their last `extra' bytes.
DropTail(iov, extra) ==
    LET drop[j \in 0..Len(iov)] ==   \* bytes to drop from the first j segments
            IF j = Len(iov) THEN extra
            ELSE IF drop[j + 1] > iov[j + 1].len THEN drop[j + 1] - iov[j + 1].len ELSE 0
        kept == [j \in 1..Len(iov) |-> [iov[j] EXCEPT !.len = IF @ > drop[j] THEN @ - drop[j] ELSE 0]]
    IN SelectSeq(kept, LAMBDA seg : seg.len > 0)

BuildIov(prdt, done, len) ==
    LET g     == Gather(prdt, done, len)
        extra == IF Len(g.iov) = IovMax THEN g.todo % Sector ELSE 0
        d     == done + g.todo - extra
    IN [iov |-> DropTail(g.iov, extra), done |-> d, more |-> d < len /\ g.i < Len(prdt)]

\* A request of whole sectors whose PRDT covers it; its entries are large
\* enough that IovMax of them hold a sector (ahci_build_iov() asserts it).
PrdtInit ==
        \E n \in 1..MaxPrdt : \E prdt \in [1..n -> PrdtLens], len \in {k * Sector : k \in 1..(MaxPrdt * 2)} :
            /\ len <= Total(prdt)
            /\ cut = [prdt |-> prdt, len |-> len, done |-> 0, more |-> TRUE, moved |-> <<>>, requests |-> 0]

\* The bytes of a segment, in the order the backend moves them.
PrdtBytes(seg) == [k \in 1..seg.len |-> <<seg.entry, seg.from + k - 1>>]

Request ==
    /\ cut.more
    /\ LET b == BuildIov(cut.prdt, cut.done, cut.len)
       IN cut' = [cut EXCEPT !.done = b.done, !.more = b.more, !.requests = @ + 1,
                             !.moved = @ \o FlattenSeq([k \in 1..Len(b.iov) |-> PrdtBytes(b.iov[k])])]

PrdtNext == Request
prdtVars == <<cut>>

----------------------------------------------------------------------------
\* Every byte of the guest's buffer in order.
Flat(prdt) == FlattenSeq([i \in 1..Len(prdt) |-> [k \in 1..prdt[i] |-> <<i, k - 1>>]])

\* The requests move the buffer's bytes in order, each once, in whole sectors
\* and with progress in each, and stop only when the transfer is complete.
PrdtTransferExact ==
    /\ cut.moved = SubSeq(Flat(cut.prdt), 1, cut.done)
    /\ cut.done % Sector = 0 /\ cut.requests * Sector <= cut.done
    /\ ~cut.more => cut.done = cut.len

-----------------------------------------------------------------------------
(* How pci_nvme.c turns the PRP entries of a READ or WRITE into the segments  *)
(* of one backend request: a first entry that may start inside a page, a      *)
(* second entry or a chained list of entries, neighbours concatenated.        *)

\* The entries after the first one are pages[1], pages[2], ...
PrpInit ==
       \E off \in 0..(Page - 1), first \in Pages \ {0}, bytes \in 1..MaxBytes :
       \E pages \in [1..((MaxBytes + Page - 1) \div Page) -> Pages] :
           prp = [prp1 |-> first * Page + off, pages |-> pages, bytes |-> bytes, size |-> bytes, i |-> 0,
                  link |-> 0, iov |-> <<>>, start |-> 0, pieces |-> 0, prev |-> [gpaddr |-> 0, size |-> 0], state |-> "prp1"]

\* pci_nvme_append_iov_req(): a piece that continues the previous one in guest
\* memory extends its segment. When the request is full a partial one is made of it:
\* its segments are no longer counted by then (br_iovcnt is 0), so nothing is moved,
\* and the request begins again at this piece, `start' bytes into the transfer.
\* `pieces' counts segments (ghost).
AppendIov(p, gpaddr, n) ==
    IF p.prev.gpaddr + p.prev.size = gpaddr
    THEN [p EXCEPT !.iov[Len(p.iov)] = [base |-> p.prev.gpaddr, len |-> p.prev.size + n],
                   !.prev.size = @ + n]
    ELSE LET q == IF Len(p.iov) = BlockIovs THEN [p EXCEPT !.iov = <<>>, !.start = p.bytes - p.size] ELSE p
         IN [q EXCEPT !.iov = Append(@, [base |-> gpaddr, len |-> n]), !.prev = [gpaddr |-> gpaddr, size |-> n],
                      !.pieces = @ + 1]

Prp1 ==
    /\ prp.state = "prp1"
    /\ LET n == Min({Page - (prp.prp1 % Page), prp.bytes})
       IN prp' = [AppendIov(prp, prp.prp1, n) EXCEPT !.size = prp.bytes - n,
                    !.state = IF prp.bytes = n THEN "submit" ELSE IF prp.bytes - n <= Page THEN "prp2" ELSE "list"]

Prp2 == prp.state = "prp2" /\ prp' = [AppendIov(prp, prp.pages[1] * Page, prp.size) EXCEPT !.size = 0, !.state = "submit"]

\* One turn of the loop over a list: `i' is the item, `link' the pages that
\* the earlier lists gave; the last item of a list with more to come is a link.
PrpList ==
    /\ prp.state = "list" /\ prp.size > 0
    /\ LET n     == Min({prp.size, Page})
           chain == prp.i = ListItems - 1 /\ prp.size > Page
           i     == IF chain THEN 0 ELSE prp.i
           link  == IF chain THEN prp.link + ListItems - 1 ELSE prp.link
           page  == prp.pages[link + i + 1]
       IN IF page = 0 THEN prp' = [prp EXCEPT !.state = "error"]
          ELSE prp' = [AppendIov(prp, page * Page, n) EXCEPT !.size = @ - n, !.i = i + 1, !.link = link]

ListEnds == prp.state = "list" /\ prp.size = 0 /\ prp' = [prp EXCEPT !.state = "submit"]

PrpNext == Prp1 \/ Prp2 \/ PrpList \/ ListEnds
prpVars == <<prp>>

----------------------------------------------------------------------------
PrpBytes(base, n) == [k \in 1..n |-> base + k - 1]
Moved == FlattenSeq([k \in 1..Len(prp.iov) |-> PrpBytes(prp.iov[k].base, prp.iov[k].len)])

\* The guest's buffer as the PRP entries describe it.
Buffer ==
    LET n == Min({Page - (prp.prp1 % Page), prp.bytes})
    IN SubSeq(PrpBytes(prp.prp1, n) \o FlattenSeq([k \in 1..Len(prp.pages) |-> PrpBytes(prp.pages[k] * Page, Page)]),
              1, prp.bytes)

\* The request moves the bytes the entries describe, in their order and from their
\* place on the disk, however their pages lie in memory: all of them if they make no
\* more than BlockIovs segments, and otherwise only those after the partial request.
\* It fails only for a missing entry.
PrpTransferExact ==
    /\ Moved = SubSeq(Buffer, prp.start + 1, prp.bytes - prp.size)
    /\ prp.pieces <= BlockIovs => prp.start = 0
    /\ prp.state = "submit" => prp.size = 0
    /\ prp.state = "error" => \E k \in 1..Len(prp.pages) : prp.pages[k] = 0
=============================================================================
