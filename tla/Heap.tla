-------------------------------- MODULE Heap --------------------------------
(***************************************************************************)
(* The near heap of the C run-time library (bld/clib/heap): _nmalloc,      *)
(* _nfree, _nexpand, _nrealloc and _nheapshrink over a list of mini-heaps, *)
(* called by several threads under the near-heap semaphore.                *)
(*                                                                         *)
(* Memory is counted in tags: an address is a number in 1..Top, NULL is 0, *)
(* a block's tag takes one unit and ROUND_SIZE is one unit (the i86        *)
(* setting of heap.h).  A mini-heap's descriptor takes Hdr units and its   *)
(* address also stands for the head of its free list, which lies in it and *)
(* so below every block.  The list of mini-heaps is kept in address order  *)
(* by __LinkUpNewMHeap: it is represented by the set of their addresses.   *)
(*                                                                         *)
(* A call runs under the semaphore from Begin to Return, so at most one is *)
(* in progress: `call` is its program counter and its locals, and each     *)
(* step is one iteration of a loop or one call of a sub-routine.  Only     *)
(* _nrealloc is several calls, and other threads run between them.         *)
(***************************************************************************)
EXTENDS Naturals, FiniteSets

CONSTANTS
  Resizers,       \* the threads that may be in _nrealloc or _nexpand
  Other,          \* any thread that is in neither
  Amounts,        \* the sizes callers ask for
  Top,            \* the highest address
  Hdr,            \* sizeof( miniheapblkp )
  Frl,            \* FRL_SIZE: the smallest block
  BlkSiz,         \* _amblksiz or BLKSIZE_ALIGN: the heap grows by no less
  Breaks,         \* where other code of the program may set the break
  Builds          \* "slices" (sbrk: DOS, QNX, Linux), "pages" (NT, OS/2)

ASSUME HeapAssumption ==
  /\ Top \in Nat /\ Hdr \in Nat \ {0} /\ Frl \in Nat /\ Frl > 1
  /\ BlkSiz \in Nat \ {0}
  /\ Amounts \subseteq Nat \ {0}
  /\ Breaks \subseteq 1..Top + 1
  /\ Builds \subseteq {"slices", "pages"}
  /\ Other \notin Resizers

VARIABLES
  build,       \* which of the two ways of growing this library has
  mh,          \* the descriptors, [len |-> 0, ...] where there is none
  size, used,  \* block headers: length (0: not a header), allocated or not
  next, prev,  \* the links of the free blocks and of the list heads
  miniRover,   \* __MiniHeapRover
  largestB4,   \* __LargestSizeB4MiniHeapRover
  freeRover,   \* __MiniHeapFreeRover
  curbrk,      \* _curbrk (pages: not used)
  moved,       \* other code has moved the break
  held,        \* the blocks callers hold, those in an _nrealloc apart
  need,        \* how much of a block its holder may have in use
  th,          \* how far each Resizer is in _nrealloc
  call,        \* the call that holds the near-heap semaphore
  look         \* how far __MemFree is in finding the block's place

blocks == <<mh, size, used, next, prev>>
rovers == <<miniRover, largestB4, freeRover>>
users  == <<held, need, th>>
vars   == <<build, moved, blocks, rovers, curbrk, users, call, look>>

Addr == 1..Top
Threads == Resizers \union {Other}
Huge == Top + 1                  \* ~0: no block is as long
Bigger(m, n) == IF m > n THEN m ELSE n
Splits(left) == left >= Frl      \* what is left over makes a block

NoMini == [len |-> 0, rover |-> 0, b4rover |-> 0, largest |-> 0,
           numalloc |-> 0, numfree |-> 0]
NoCall == [at |-> "none", job |-> "none", t |-> Other, amt |-> 0,
           size |-> 0, mini |-> 0, pcur |-> 0, largest |-> 0, seen |-> 0,
           expanded |-> FALSE, ptr |-> 0]
NoLook == [at |-> "start", pnext |-> 0, left |-> 0]
IdleThread == [at |-> "idle", ptr |-> 0, old |-> 0, amt |-> 0, new |-> 0]

Minis == {h \in Addr : mh[h].len > 0}
EndTag(h) == h + mh[h].len
Within(h, a) == h < a /\ a < EndTag(h)
MiniOf(a) == CHOOSE h \in Minis : Within(h, a)
NextMini(h) == IF \E g \in Minis : g > h
               THEN CHOOSE g \in Minis : g > h /\ \A f \in Minis : f > h => g <= f
               ELSE 0
FirstMini == NextMini(0)
LastMini == CHOOSE h \in Minis : \A g \in Minis : g <= h
IsFree(a) == a \in Addr /\ size[a] > 0 /\ a \notin used
BlockSizeNoTag(amt) == Bigger(amt, Frl)
BlockSize(amt) == Bigger(amt + 1, Frl)

(***************************************************************************)
(* Calls and their ends.                                                   *)
(***************************************************************************)
SearchFromRover(c, b4) ==
  LET again == miniRover = 0
  IN  /\ call' = [c EXCEPT !.at = "mini",
                           !.mini = IF again THEN FirstMini ELSE miniRover]
      /\ largestB4' = IF again THEN 0 ELSE b4
\* where _nmalloc begins to look: at the rover only if what is wanted is
\* bigger than anything before it (b4)
SearchFrom(c, b4) ==
  LET again == c.size <= b4 \/ miniRover = 0
  IN  /\ call' = [c EXCEPT !.at = "mini",
                           !.mini = IF again THEN FirstMini ELSE miniRover]
      /\ largestB4' = IF again THEN 0 ELSE b4

\* _ReleaseNHeap, and what the caller does with the result r: a thread in
\* _nrealloc goes on to its next call.
Return(r) ==
  LET t == call.t
      p == th[t].ptr
      Then(at, new) == th' = [th EXCEPT ![t].at = at, ![t].new = new]
  IN  /\ call' = NoCall
      /\ CASE th[t].at = "idle" ->
                /\ held' = IF call.job = "malloc" /\ r # 0 THEN held \union {r} ELSE held
                /\ need' = IF call.job \in {"malloc", "expand"} /\ r # 0
                           THEN [need EXCEPT ![r] = call.amt] ELSE need
                /\ th' = th
           [] th[t].at = "malloc" ->
                /\ need' = IF r # 0 THEN [need EXCEPT ![r] = call.amt] ELSE need
                /\ held' = held
                /\ IF r # 0 THEN Then("free", r) ELSE Then("back", 0)
           [] th[t].at = "expand" /\ r = 0 ->
                /\ need' = need
                /\ \/ Then("malloc", 0) /\ held' = held   \* it was _nrealloc
                   \/ /\ th' = [th EXCEPT ![t] = IdleThread]
                      /\ held' = held \union {p}
           [] OTHER ->          \* the end of _nrealloc
                /\ held' = held \union {IF th[t].at = "free" THEN th[t].new ELSE p}
                /\ need' = IF th[t].at = "expand"
                           THEN [need EXCEPT ![r] = call.amt] ELSE need
                /\ th' = [th EXCEPT ![t] = IdleThread]

(***************************************************************************)
(* _nmalloc                                                                *)
(***************************************************************************)
Malloc(t, amt) ==
  /\ call = NoCall
  /\ \/ t = Other
     \/ th[t].at = "malloc" /\ amt = th[t].amt
  /\ SearchFrom([NoCall EXCEPT !.t = t, !.job = "malloc", !.amt = amt,
                               !.size = BlockSize(amt)], largestB4)
  /\ UNCHANGED <<build, moved, look, blocks, miniRover, freeRover, curbrk, users>>

\* the next mini-heap of the loop; `seen` is its largest_blk, read before
PassOver(seen) ==
  /\ largestB4' = Bigger(seen, largestB4)
  /\ call' = [call EXCEPT !.at = "mini", !.mini = NextMini(call.mini)]

TryMini ==
  LET h == call.mini  m == mh[h]
      low == call.size <= m.b4rover
  IN  /\ call.at = "mini" /\ h # 0
      /\ miniRover' = h
      /\ IF m.largest >= call.amt /\ call.size <= m.largest
         THEN /\ call' = [call EXCEPT
                   !.at = "scan", !.seen = m.largest,
                   !.pcur = IF low THEN next[h] ELSE m.rover,
                   !.largest = IF low THEN 0 ELSE m.b4rover]
              /\ largestB4' = largestB4
         ELSE PassOver(m.largest)
      /\ UNCHANGED <<build, moved, look, blocks, freeRover, curbrk, users>>

\* __MemAllocator: this entry of the free list is too small
ScanOn ==
  LET h == call.mini  c == call.pcur
      lg == Bigger(size[c], call.largest)
  IN  /\ call.at = "scan" /\ size[c] < call.size
      /\ IF next[c] = h
         THEN /\ mh' = [mh EXCEPT ![h].largest = lg]
              /\ PassOver(call.seen)
         ELSE /\ call' = [call EXCEPT !.pcur = next[c], !.largest = lg]
              /\ UNCHANGED <<mh, largestB4>>
      /\ UNCHANGED <<build, moved, look, size, used, next, prev, miniRover, freeRover, curbrk,
                     users>>

\* __MemAllocator: found one; it is split when what is left makes a block
Carve ==
  LET h == call.mini  c == call.pcur
      n == c + call.size
      left == size[c] - call.size
      found == [mh[h] EXCEPT !.b4rover = call.largest, !.numalloc = @ + 1]
  IN  /\ call.at = "scan" /\ size[c] >= call.size
      /\ used' = used \union {c}
      /\ \/ /\ Splits(left)
            /\ mh' = [mh EXCEPT ![h] = [found EXCEPT !.rover = n]]
            /\ size' = [size EXCEPT ![c] = call.size, ![n] = left]
            /\ next' = [next EXCEPT ![prev[c]] = n, ![n] = next[c], ![c] = 0]
            /\ prev' = [prev EXCEPT ![next[c]] = n, ![n] = prev[c], ![c] = 0]
         \/ /\ ~Splits(left)
            /\ mh' = [mh EXCEPT ![h] = [found EXCEPT !.rover = prev[c],
                                                     !.numfree = @ - 1]]
            /\ size' = size
            /\ next' = [next EXCEPT ![prev[c]] = next[c], ![c] = 0]
            /\ prev' = [prev EXCEPT ![next[c]] = prev[c], ![c] = 0]
      /\ Return(c)
      /\ UNCHANGED <<build, moved, look, rovers, curbrk>>

\* every mini-heap has been tried, and so has growing
GiveUp ==
  /\ call.at = "mini" /\ call.mini = 0 /\ call.expanded
  /\ Return(0)
  /\ UNCHANGED <<build, moved, look, blocks, rovers, curbrk>>

(***************************************************************************)
(* _nfree, with __MemFree: the block call.pcur goes back to the free list  *)
(* of the mini-heap it lies in.  _nfree finds that mini-heap by looking at *)
(* the rovers and their neighbours before all others: shortcuts to the     *)
(* same answer, as long as the rovers point at mini-heaps.  __MemFree then *)
(* finds the entry `look.pnext` that will follow the block: the one behind *)
(* a free neighbour, a special place, or what one of two searches comes to.*)
(***************************************************************************)
Behind(f) == f + size[f]
Takes(h, f) == Within(h, Behind(f)) /\ Behind(f) \notin used

SpecialByRover(h, f) ==
  LET rv == mh[h].rover
  IN  IF f < rv THEN rv
      ELSE IF f < next[rv] THEN next[rv] ELSE IF f > prev[h] THEN h ELSE 0
\* just before or behind the rover, or at either end of the list; or 0
Special(h, f) ==
  LET rv == mh[h].rover
  IN  IF f < rv
      THEN IF f > prev[rv] THEN rv ELSE IF f < next[h] THEN next[h] ELSE 0
      ELSE IF f < next[rv] THEN next[rv] ELSE IF f > prev[h] THEN h ELSE 0

At(where, pnext) == [at |-> where, pnext |-> pnext, left |-> 0]
\* the list is searched from its rover, or from its start
Search(h, f) == At("search", IF f < mh[h].rover THEN next[h] ELSE mh[h].rover)
\* the blocks in use behind f are skipped: twice the average of them between
\* two free ones, or (left = 0) as many as there are
Skip(h, f) ==
  LET average == mh[h].numalloc \div (mh[h].numfree + 1)
  IN  [At("skip", Behind(f)) EXCEPT
         !.left = IF mh[h].numalloc <= 2 * mh[h].numfree THEN 0 ELSE 2 * average]

LookNear ==
  LET f == call.pcur
      h == MiniOf(f)
      m == mh[h]
  IN  /\ call.at = "nfree" /\ look.at = "start"
      /\ look' = CASE Takes(h, f) -> At("link", next[Behind(f)])
                   [] ~Takes(h, f) /\ Special(h, f) # 0 -> At("link", Special(h, f))
                   [] OTHER -> IF m.numalloc \div (m.numfree + 1) < m.numfree
                               THEN Skip(h, f) ELSE Search(h, f)
      /\ UNCHANGED <<build, moved, blocks, rovers, curbrk, users, call>>

LookBehind ==
  LET f == call.pcur
      h == MiniOf(f)
      n == look.pnext
  IN  /\ call.at = "nfree" /\ look.at = "skip"
      /\ look' = CASE n # EndTag(h) /\ n \notin used -> At("link", n)
                   [] n = EndTag(h) \/ (n \in used /\ look.left = 1) -> Search(h, f)
                   [] OTHER -> [look EXCEPT !.pnext = Behind(n),
                                            !.left = IF @ = 0 THEN 0 ELSE @ - 1]
      /\ UNCHANGED <<build, moved, blocks, rovers, curbrk, users, call>>

LookInList ==
  /\ call.at = "nfree" /\ look.at = "search"
  /\ look' = IF call.pcur < look.pnext THEN At("link", look.pnext)
             ELSE At("search", next[look.pnext])
  /\ UNCHANGED <<build, moved, blocks, rovers, curbrk, users, call>>

\* A free rover that points at no mini-heap: stale memory is read for one,
\* and if it looks like the block's, nothing more can be said of the program.
LookAstray ==
  /\ call.at = "nfree" /\ look.at = "start"
  /\ freeRover \notin {0} \union Minis
  /\ look' = At("astray", 0)
  /\ UNCHANGED <<build, moved, blocks, rovers, curbrk, users, call>>
Astray == look.at = "astray" /\ UNCHANGED vars

\* the rest of __MemFree( f ) in h; `took` says that a free block was right
\* behind f and has been taken into it
MemFree(h, f) ==
  LET after == Behind(f)
      took  == Takes(h, f)
      pn    == look.pnext
      pp    == IF took THEN prev[after] ELSE prev[pn]
      len1  == IF took THEN size[f] + size[after] ELSE size[f]
      joins == pp # h /\ pp + size[pp] = f
      f2    == IF joins THEN pp ELSE f
      len2  == IF joins THEN size[pp] + len1 ELSE len1
      \* an absorbed header is one no more
      clear(g) == [a \in Addr |-> IF (took /\ a = after) \/ (joins /\ a = f)
                                  THEN 0 ELSE g[a]]
      rv0   == mh[h].rover
      rv1   == IF took /\ rv0 = after THEN f ELSE rv0
      rv2   == IF joins /\ rv1 = f THEN pp ELSE rv1
      free0 == IF took THEN mh[h].numfree - 1 ELSE mh[h].numfree
      m     == [mh[h] EXCEPT
                  !.rover = rv2,
                  !.numfree = IF joins THEN free0 ELSE free0 + 1,
                  !.numalloc = @ - 1,
                  !.b4rover = IF f2 < rv2 THEN Bigger(@, len2) ELSE @,
                  !.largest = Bigger(@, len2)]
  IN  /\ used' = used \ {f}
      /\ size' = clear([size EXCEPT ![f2] = len2])
      /\ next' = clear(IF joins THEN [next EXCEPT ![pp] = pn]
                                ELSE [next EXCEPT ![f] = pn, ![pp] = f])
      /\ prev' = clear(IF joins THEN [prev EXCEPT ![pn] = pp]
                                ELSE [prev EXCEPT ![f] = pp, ![pn] = f])
      /\ mh' = [mh EXCEPT ![h] = m]

B4AfterKept(h, largest) == largestB4
\* what __LargestSizeB4MiniHeapRover becomes when h got a free block
B4After(h, largest) == IF h < miniRover THEN Bigger(largest, largestB4) ELSE largestB4

NFree ==
  LET h == MiniOf(call.pcur)
  IN  /\ call.at = "nfree" /\ look.at = "link"
      /\ look' = NoLook
      /\ MemFree(h, call.pcur)
      /\ freeRover' = h
      /\ LET b4 == B4After(h, mh'[h].largest)
             more == [call EXCEPT !.pcur = 0, !.expanded = TRUE]
         IN  CASE call.job = "malloc" ->     \* __ExpandDGROUP has returned 1
                    /\ SearchFrom(more, b4)
                    /\ UNCHANGED users
               [] call.job = "expand" ->
                    /\ call' = [more EXCEPT !.at = "expand"]
                    /\ largestB4' = b4
                    /\ UNCHANGED users
               [] OTHER ->
                    /\ largestB4' = b4
                    /\ Return(1)
      /\ UNCHANGED <<build, moved, miniRover, curbrk>>

\* a caller gives back what it holds (in _nrealloc: the block it left)
Free(t, p) ==
  /\ call = NoCall
  /\ \/ t = Other /\ p \in held
     \/ th[t].at = "free" /\ p = th[t].ptr
  /\ call' = [NoCall EXCEPT !.t = t, !.job = "free", !.at = "nfree", !.pcur = p]
  /\ held' = held \ {p}
  /\ need' = [need EXCEPT ![p] = 0]
  /\ UNCHANGED <<build, moved, look, blocks, rovers, curbrk, th>>

(***************************************************************************)
(* _nheapshrink: the whole call, or the first half of growing (pages).     *)
(***************************************************************************)
Drop(h) == mh' = [mh EXCEPT ![h] = NoMini]
Forget(a, h) ==     \* the headers of h and of its only block a
  /\ size' = [size EXCEPT ![a] = 0]
  /\ next' = [next EXCEPT ![a] = 0, ![h] = 0]
  /\ prev' = [prev EXCEPT ![a] = 0, ![h] = 0]

FreeRoverKept(h) == freeRover
FreeRoverWithout(h) == IF freeRover = h THEN 0 ELSE freeRover
\* pages: the mini-heap call.mini is given back when all of it is free
ShrinkPages ==
  LET h == call.mini
      last == prev[h]
      rv == IF miniRover # h THEN miniRover
            ELSE IF NextMini(h) # 0 THEN NextMini(h) ELSE FirstMini
  IN  /\ call.at = "shrink" /\ h # 0
      /\ call' = [call EXCEPT !.mini = NextMini(h)]
      /\ IF mh[h].len - Hdr = size[last]
         THEN /\ Drop(h)
              /\ Forget(last, h)
              /\ miniRover' = IF rv = h THEN 0 ELSE rv
              /\ largestB4' = IF miniRover = h /\ NextMini(h) = 0
                              THEN 0 ELSE largestB4
              /\ freeRover' = FreeRoverWithout(h)
         ELSE UNCHANGED <<mh, size, next, prev, rovers>>
      /\ UNCHANGED <<build, moved, look, used, curbrk, users>>

\* slices: the break is lowered by the free block at the end of the last
\* mini-heap, and by the whole mini-heap when nothing else is in it
ShrinkSlices ==
  LET h == LastMini
      last == prev[h]
  IN  /\ call.at = "cut"
      /\ Return(1)
      /\ IF /\ Minis # {} /\ last # h
            /\ last + size[last] = EndTag(h)
            /\ size[last] > Frl
            /\ curbrk = EndTag(h) + 1
         THEN IF mh[h].len - size[last] > Hdr
              THEN /\ mh' = [mh EXCEPT ![h].len = @ - size[last], ![h].numfree = @ - 1,
                               ![h].rover = IF @ = last THEN prev[last] ELSE @]
                   /\ size' = [size EXCEPT ![last] = 0]
                   /\ next' = [next EXCEPT ![prev[last]] = h, ![last] = 0]
                   /\ prev' = [prev EXCEPT ![h] = prev[last], ![last] = 0]
                   /\ curbrk' = last + 1
                   /\ UNCHANGED rovers
              ELSE /\ Drop(h)
                   /\ Forget(last, h)
                   /\ curbrk' = h
                   /\ miniRover' = IF miniRover # h THEN miniRover
                                   ELSE IF Minis = {h} THEN 0 ELSE FirstMini
                   /\ largestB4' = IF miniRover = h THEN 0 ELSE largestB4
                   /\ freeRover' = freeRover
         ELSE UNCHANGED <<mh, size, next, prev, curbrk, rovers>>
      /\ UNCHANGED <<build, moved, look, used>>

HeapMin ==
  /\ call = NoCall
  /\ call' = [NoCall EXCEPT !.job = "heapmin",
                !.at = IF build = "pages" THEN "shrink" ELSE "cut",
                !.mini = IF build = "pages" THEN FirstMini ELSE 0]
  /\ UNCHANGED <<build, moved, look, blocks, rovers, curbrk, users>>

HeapMinDone ==
  /\ call.at = "shrink" /\ call.mini = 0 /\ call.job = "heapmin"
  /\ Return(1)
  /\ UNCHANGED <<build, moved, look, blocks, rovers, curbrk>>

(***************************************************************************)
(* __ExpandDGROUP( amount ): __AdjustAmount, then a bigger break (slices)  *)
(* or memory from the system (pages).  What is got is one allocated block, *)
(* which _nfree puts in the list.  A failure is __ExpandDGROUP = 0.        *)
(***************************************************************************)
\* __LastFree looks in the first mini-heap only
LastFree ==
  IF Minis = {} THEN 0
  ELSE LET last == prev[FirstMini]
       IN  IF last + size[last] + 1 = curbrk THEN size[last] ELSE 0
Adjusted(amount) ==
  LET more == amount + 1
      rest == IF build = "pages" THEN more
              ELSE IF LastFree >= more THEN 0 ELSE more - LastFree
      all  == rest + 1 + Frl + Hdr
  IN  IF build = "pages" THEN ((all + BlkSiz - 1) \div BlkSiz) * BlkSiz
      ELSE Bigger(all, BlkSiz)

LinkUp(h, len, largest) ==
  LET a == h + Hdr
  IN  /\ mh' = [mh EXCEPT ![h] =
                  [len |-> len, rover |-> h, b4rover |-> 0,
                   largest |-> largest, numalloc |-> 1, numfree |-> 0]]
      /\ next' = [next EXCEPT ![h] = h]
      /\ prev' = [prev EXCEPT ![h] = h]
      /\ size' = [size EXCEPT ![a] = len - Hdr]
      /\ used' = used \union {a}
      /\ call' = [call EXCEPT !.at = "nfree", !.pcur = a]

\* a caller of __ExpandDGROUP has come to its call, for this much
Growing ==
  /\ ~call.expanded
  /\ \/ call.at = "mini" /\ call.mini = 0
     \/ /\ call.at = "expand" /\ build = "slices"
        /\ call.size > size[call.ptr]
        /\ call.ptr + size[call.ptr] = EndTag(MiniOf(call.ptr))
Wanted == IF call.at = "mini" THEN call.amt ELSE call.size - size[call.ptr]

\* sbrk has room: the last mini-heap is extended if it ends at the break
GrowSlices ==
  LET got == Adjusted(Wanted)
      h == LastMini
      a == curbrk - 1
  IN  /\ build = "slices" /\ Growing
      /\ curbrk + got <= Top + 1
      /\ curbrk' = curbrk + got
      /\ IF Minis # {} /\ EndTag(h) = a
         THEN /\ mh' = [mh EXCEPT ![h].len = @ + got, ![h].numalloc = @ + 1,
                                  ![h].largest = Huge]
              /\ size' = [size EXCEPT ![a] = got]
              /\ used' = used \union {a}
              /\ call' = [call EXCEPT !.at = "nfree", !.pcur = a]
              /\ UNCHANGED <<next, prev>>
         ELSE LinkUp(curbrk, got - 1, Huge)
      /\ UNCHANGED <<build, moved, look, rovers, users>>

NoRoom ==
  /\ build = "slices" /\ Growing
  /\ curbrk + Adjusted(Wanted) > Top + 1
  /\ Return(0)
  /\ UNCHANGED <<build, moved, look, blocks, rovers, curbrk>>

\* pages: __ExpandDGROUP begins with _nheapshrink
ShrinkFirst ==
  /\ build = "pages" /\ Growing
  /\ call' = [call EXCEPT !.at = "shrink", !.mini = FirstMini]
  /\ UNCHANGED <<build, moved, look, blocks, rovers, curbrk, users>>

\* __CreateNewNHeap at any free place, or the system has no such place
Room(h, n) == /\ h + n <= Top + 1
              /\ \A g \in Minis : EndTag(g) < h \/ h + n <= g
CreateMini ==
  LET n == Adjusted(call.amt)
      places == {h \in {1 + i * BlkSiz : i \in 0..(Top \div BlkSiz)} : Room(h, n)}
  IN  /\ call.at = "shrink" /\ call.mini = 0 /\ call.job = "malloc"
      /\ \/ \E h \in places : LinkUp(h, n - 1, 0)
         \/ /\ places = {}
            /\ call' = [call EXCEPT !.at = "mini", !.expanded = TRUE]
            /\ UNCHANGED blocks
      /\ UNCHANGED <<build, moved, look, rovers, curbrk, users>>

\* other code of the program sets the break, above every mini-heap: it takes
\* memory for itself or gives that back (__brk takes the same semaphore)
MoveBreak(b) ==
  /\ build = "slices" /\ call = NoCall
  /\ b # curbrk /\ \A h \in Minis : EndTag(h) < b
  /\ curbrk' = b /\ moved' = TRUE
  /\ UNCHANGED <<build, blocks, rovers, users, call, look>>

(***************************************************************************)
(* _nexpand, with __HeapManager_expand: one pass of its loop for each free *)
(* block taken in, until the block is long enough or nothing is left to    *)
(* take (a failure leaves what was taken in with the block).               *)
(***************************************************************************)
Expand(t, p, amt) ==
  /\ call' = [NoCall EXCEPT !.t = t, !.job = "expand", !.at = "expand",
                            !.ptr = p, !.amt = amt, !.size = BlockSize(amt)]
  /\ need' = [need EXCEPT ![p] = IF amt < @ THEN amt ELSE @]
  /\ UNCHANGED <<build, moved, look, blocks, rovers, curbrk>>

\* _nrealloc or _nexpand called: the block is taken out of what others may
\* free, and from here on the smaller of the two sizes must survive.
\* _nmsize reads the caller's own block.
Resize(t, p, amt) ==
  /\ call = NoCall /\ th[t].at = "idle"
  /\ p \in held
  /\ held' = held \ {p}
  /\ th' = [th EXCEPT ![t] = [at |-> "expand", ptr |-> p, old |-> size[p] - 1,
                              amt |-> amt, new |-> 0]]
  /\ Expand(t, p, amt)

\* _nrealloc got no memory: "reset back to old size"
ResetSize(t) ==
  /\ call = NoCall /\ th[t].at = "back"
  /\ Expand(t, th[t].ptr, th[t].old)
  /\ UNCHANGED <<held, th>>

ExpandFits ==
  /\ call.at = "expand"
  /\ call.size <= size[call.ptr] /\ size[call.ptr] - call.size < Frl
  /\ Return(call.ptr)
  /\ UNCHANGED <<build, moved, look, blocks, rovers, curbrk>>

ExpandCutUncounted ==
  LET p == call.ptr  a == p + call.size
  IN  /\ call.at = "expand"
      /\ size[p] >= call.size + Frl
      /\ size' = [size EXCEPT ![p] = call.size, ![a] = size[p] - call.size]
      /\ used' = used \union {a}
      /\ call' = [call EXCEPT !.at = "nfree", !.pcur = a]
      /\ UNCHANGED <<build, moved, look, mh, next, prev, rovers, curbrk, users>>
\* the tail is cut off as an allocated block of its own, and freed
ExpandCut ==
  LET p == call.ptr  a == p + call.size
  IN  /\ call.at = "expand"
      /\ size[p] >= call.size + Frl
      /\ size' = [size EXCEPT ![p] = call.size, ![a] = size[p] - call.size]
      /\ used' = used \union {a}
      /\ mh' = [mh EXCEPT ![MiniOf(p)].numalloc = @ + 1]
      /\ call' = [call EXCEPT !.at = "nfree", !.pcur = a]
      /\ UNCHANGED <<build, moved, look, next, prev, rovers, curbrk, users>>

ExpandTake ==
  LET p == call.ptr  n == p + size[p]  h == MiniOf(p)
      growth == call.size - size[p]
      rv == IF mh[h].rover = n THEN prev[n] ELSE mh[h].rover
      n2 == n + growth
  IN  /\ call.at = "expand"
      /\ call.size > size[p]
      /\ Within(h, n) /\ n \notin used
      /\ \/ /\ size[n] < growth + Frl         \* all of it
            /\ size' = [size EXCEPT ![p] = @ + size[n], ![n] = 0]
            /\ next' = [next EXCEPT ![prev[n]] = next[n], ![n] = 0]
            /\ prev' = [prev EXCEPT ![next[n]] = prev[n], ![n] = 0]
            /\ mh' = [mh EXCEPT ![h].rover = rv, ![h].numfree = @ - 1]
         \/ /\ size[n] >= growth + Frl        \* the front of it
            /\ size' = [a \in Addr |->
                  CASE a = p -> call.size
                    [] a = n2 -> size[n] - growth
                    [] a = n -> 0
                    [] OTHER -> size[a]]
            /\ next' = [next EXCEPT ![n] = 0, ![n2] = next[n], ![prev[n]] = n2]
            /\ prev' = [prev EXCEPT ![n] = 0, ![n2] = prev[n], ![next[n]] = n2]
            /\ mh' = [mh EXCEPT ![h].rover = rv]
      /\ UNCHANGED <<build, moved, look, used, rovers, curbrk, users, call>>

ExpandFails ==
  LET p == call.ptr  n == p + size[p]  h == MiniOf(p)
  IN  /\ call.at = "expand"
      /\ call.size > size[p]
      /\ \/ Within(h, n) /\ n \in used
         \/ n = EndTag(h) /\ (call.expanded \/ build = "pages")
      /\ Return(0)
      /\ UNCHANGED <<build, moved, look, blocks, rovers, curbrk>>

Init ==
  /\ build \in Builds
  /\ mh = [h \in Addr |-> NoMini]
  /\ size = [a \in Addr |-> 0] /\ used = {}
  /\ next = [a \in Addr |-> 0] /\ prev = [a \in Addr |-> 0]
  /\ miniRover = 0 /\ largestB4 = 0 /\ freeRover = 0
  /\ curbrk = 1 /\ moved = FALSE
  /\ held = {} /\ need = [a \in Addr |-> 0]
  /\ th = [t \in Threads |-> IdleThread]
  /\ call = NoCall /\ look = NoLook

\* a step of the call that has the semaphore
Serve ==
  \/ TryMini \/ ScanOn \/ Carve \/ GiveUp
  \/ LookNear \/ LookBehind \/ LookInList \/ LookAstray \/ Astray \/ NFree
  \/ ShrinkPages \/ ShrinkSlices \/ HeapMinDone
  \/ GrowSlices \/ NoRoom \/ ShrinkFirst \/ CreateMini
  \/ ExpandFits \/ ExpandCut \/ ExpandTake \/ ExpandFails

Next ==
  \/ Serve
  \/ \E t \in Threads, amt \in Amounts : Malloc(t, amt)
  \/ \E t \in Threads, p \in Addr : Free(t, p)
  \/ \E t \in Resizers, p \in held, amt \in Amounts : Resize(t, p, amt)
  \/ \E t \in Resizers : ResetSize(t)
  \/ \E b \in Breaks : MoveBreak(b)
  \/ HeapMin

Spec == Init /\ [][Next]_vars
-----------------------------------------------------------------------------
TypeOK ==
  /\ build \in Builds
  /\ mh \in [Addr -> [len : 0..Top, rover : 0..Top, b4rover : 0..Top,
                      largest : 0..Huge, numalloc : 0..Top, numfree : 0..Top]]
  /\ size \in [Addr -> 0..Top] /\ used \subseteq Addr
  /\ next \in [Addr -> 0..Top] /\ prev \in [Addr -> 0..Top]
  /\ miniRover \in 0..Top /\ largestB4 \in 0..Huge /\ freeRover \in 0..Top
  /\ curbrk \in 1..Top + 1 /\ moved \in BOOLEAN
  /\ look \in [at : {"start", "skip", "search", "link", "astray"},
                pnext : 0..Top, left : Nat]
  /\ held \subseteq Addr /\ need \in [Addr -> 0..Top]

Blocks(h) == {a \in Addr : Within(h, a) /\ size[a] > 0}
FreeIn(h) == Blocks(h) \ used

\* The walk of memory (__NHeapWalk) meets every block of every mini-heap and
\* ends at its end tag: the blocks lie one behind the other, none overlaps
\* another, none is lost, whatever was split, joined, grown, cut or shrunk.
WalkOK ==
  /\ \A g, h \in Minis : g < h => EndTag(g) < h
  /\ \A h \in Minis :
       LET walk == Blocks(h)
       IN  /\ h + Hdr \in walk
           /\ \A a \in walk : a + size[a] \in walk \union {EndTag(h)}
           /\ \A a, b \in walk : a < b => a + size[a] <= b
  /\ \A a \in Addr : size[a] > 0 => size[a] >= Frl /\ \E h \in Minis : Within(h, a)
  /\ \A a \in used : size[a] > 0

\* checkFreeList and checkFree of _nheapchk, and more: the links of a mini-heap
\* form one ring, doubly linked, through its head and exactly the free blocks
\* that the walk of memory meets, in address order.
RingOK ==
  \A h \in Minis :
    LET ring == {h} \union FreeIn(h)
    IN  \A a \in ring :
          /\ next[a] \in ring /\ prev[a] \in ring
          /\ prev[next[a]] = a /\ next[prev[a]] = a
          /\ next[a] # h => next[a] > a
          /\ \A b \in FreeIn(h) : b > a => next[a] \in a+1..b

\* What _nheapchk looks for when it walks the memory and then the free lists.
HeapOK == TypeOK /\ WalkOK /\ RingOK

\* Freeing joins a block with the free one before it and the free one behind
\* it, so no two free blocks are ever neighbours, and the counts that steer
\* __MemFree's search (numalloc, numfree) stay those of the blocks.
JoinedAndCounted ==
  \A h \in Minis :
    /\ \A a \in FreeIn(h) : a + size[a] \notin FreeIn(h)
    /\ mh[h].numfree = Cardinality(FreeIn(h))
    /\ mh[h].numalloc = Cardinality(Blocks(h) \cap used)

\* Every cached size a search may skip blocks on is an upper bound: of the
\* free blocks of a mini-heap (largest_blk), of those before its rover
\* (b4rover), of those of the mini-heaps before __MiniHeapRover
\* (__LargestSizeB4MiniHeapRover; while _nmalloc's loop is under way, before
\* its own place); and the rovers point at what is there.
CachesBound ==
  /\ \A h \in Minis :
       /\ mh[h].rover \in {h} \union FreeIn(h)
       /\ \A a \in FreeIn(h) :
            /\ size[a] <= mh[h].largest
            /\ a < mh[h].rover => size[a] <= mh[h].b4rover
  /\ miniRover \in {0} \union Minis
  /\ LET place == IF call.at \in {"mini", "scan"} /\ call.mini # 0
                  THEN call.mini ELSE miniRover
     IN  \A h \in Minis : h < place =>
           \A a \in FreeIn(h) : size[a] <= largestB4

\* _nfree looks at the mini-heap of the last free first: it is one that is
\* still there, where the heap takes pages, and where it is a slice of memory
\* as long as no other code has moved the break (after that _nheapshrink may
\* leave __MiniHeapFreeRover behind: LookAstray).
FreeRoverLive ==
  call.at = "nfree" /\ ~moved => freeRover \in {0} \union Minis

\* What a caller holds is an allocated block long enough for what the caller
\* may have in it (through a _nrealloc under way too), and every allocated
\* block is held by a caller or is the one being freed: nothing leaks, in
\* particular not on the path of _nrealloc that gets no memory.
Holding == (held \union UNION {{th[t].ptr, th[t].new} : t \in Threads}) \ {0}
Held ==
  LET freeing == IF call.at = "nfree" THEN {call.pcur} ELSE {}
  IN  /\ used \ freeing = Holding \ freeing
      /\ \A a \in used \ freeing : need[a] > 0 /\ size[a] > need[a]
      /\ \A t \in Threads : {th[t].ptr, th[t].new} \cap held = {}

\* _nmalloc gives up only when no free block of any mini-heap would do,
\* although it never looks at most of them.
FailsOnlyWhenFull ==
  [][call.job = "malloc" /\ call' = NoCall /\ used' = used
       => \A a \in Addr : IsFree(a) => size[a] < call.size]_vars

=============================================================================
