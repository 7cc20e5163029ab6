------------------------------ MODULE HeapProofs ------------------------------
(***************************************************************************)
(* Theorems about the near heap for any size of it, of its descriptors and *)
(* of its smallest block, any amounts and any threads, and both ways of    *)
(* growing.                                                                *)
(***************************************************************************)
EXTENDS Heap, Integers, FiniteSetTheorems, WellFoundedInduction, TLAPS

-----------------------------------------------------------------------------
(* The inductive invariant                                                  *)

\* The blocks B of the mini-heap at h lie one behind the other from its first
\* byte to its end tag e.
Walk(h, e, B, sz) ==
  /\ h + Hdr \in B
  /\ \A a \in B : /\ h + Hdr <= a /\ a < e /\ Frl <= sz[a]
                  /\ a + sz[a] \in B \cup {e}
  /\ \A a, b \in B : a < b => a + sz[a] <= b

\* The links of h and of its free blocks F are one ring in address order.
Ring(h, F, nx, pv) ==
  /\ \A a \in {h} \cup F :
       /\ nx[a] \in {h} \cup F /\ pv[a] \in {h} \cup F
       /\ pv[nx[a]] = a /\ nx[pv[a]] = a
       /\ nx[a] # h => a < nx[a]
  /\ \A a \in {h} \cup F : \A b \in F : a < b => nx[a] # h /\ nx[a] <= b

Apart ==
  /\ \A g, h \in Minis : g < h => EndTag(g) < h
  /\ \A h \in Minis : EndTag(h) <= Top
Covered ==
  /\ \A a \in Addr : size[a] > 0 => \E h \in Minis : Within(h, a)
  /\ \A a \in used : size[a] > 0
Joined(F, sz) == \A a \in F : a + sz[a] \notin F
Counted(h) ==
  /\ mh[h].numfree = Cardinality(FreeIn(h))
  /\ mh[h].numalloc = Cardinality(Blocks(h) \cap used)
MiniOK(h) ==
  /\ Walk(h, EndTag(h), Blocks(h), size)
  /\ Ring(h, FreeIn(h), next, prev)
  /\ Joined(FreeIn(h), size)
  /\ mh[h].rover \in {h} \cup FreeIn(h)

MemOK == Apart /\ Covered /\ \A h \in Minis : MiniOK(h) /\ Counted(h)

\* Slices lie below the break; as long as only the heap moves it there is one
\* mini-heap at most, which ends at it.
AtBreak ==
  build = "slices" =>
    /\ \A h \in Minis : EndTag(h) < curbrk
    /\ ~moved => \/ Minis = {} /\ curbrk = 1
                 \/ Minis = {1} /\ curbrk = EndTag(1) + 1
RoversLive == miniRover \in {0} \cup Minis

MiniRec == [len : Nat, rover : 0..Top, b4rover : Nat, largest : 0..Huge,
            numalloc : Int, numfree : Int]
MemTypes ==
  /\ build \in Builds /\ moved \in BOOLEAN
  /\ mh \in [Addr -> MiniRec]
  /\ \A h \in Addr : mh[h].len = 0 => mh[h] = NoMini
  /\ size \in [Addr -> Nat] /\ used \subseteq Addr
  /\ next \in [Addr -> 0..Top] /\ prev \in [Addr -> 0..Top]
CallRec ==
  [at : {"none", "mini", "scan", "nfree", "shrink", "cut", "expand"},
   job : {"none", "malloc", "free", "heapmin", "expand"},
   t : Threads, amt : Nat, size : Nat, mini : 0..Top, pcur : 0..Top,
   largest : 0..Top, seen : 0..Huge, expanded : BOOLEAN, ptr : 0..Top]
ThreadRec == [at : {"idle", "expand", "malloc", "free", "back"},
              ptr : 0..Top, old : Nat, amt : Nat, new : 0..Top]
Types ==
  /\ MemTypes
  /\ largestB4 \in 0..Huge /\ freeRover \in 0..Top
  /\ curbrk \in 1..Top + 1
  /\ held \subseteq Addr /\ need \in [Addr -> Nat]
  /\ call \in CallRec /\ th \in [Threads -> ThreadRec]
B4Small == \A h \in Addr : mh[h].b4rover <= Top

\* Which call may be where, and for which thread.
CallOK ==
  /\ call.at = "none" => call = NoCall
  /\ call.job = "none" => call = NoCall
  /\ call.at \in {"mini", "scan"} => call.job = "malloc"
  /\ call.at = "cut" => call.job = "heapmin" /\ build = "slices"
  /\ call.at = "shrink" => call.job \in {"malloc", "heapmin"} /\ build = "pages"
  /\ call.at = "expand" => call.job = "expand"
  /\ call.at = "nfree" => call.job \in {"malloc", "free", "expand"}
  /\ call.job = "malloc" =>
       /\ call.size = BlockSize(call.amt) /\ call.amt > 0
       /\ \/ call.t = Other
          \/ call.t \in Resizers /\ th[call.t].at = "malloc"
  /\ call.job = "free" => /\ call.at = "nfree"
                          /\ \/ call.t = Other
                             \/ call.t \in Resizers /\ th[call.t].at = "free"
  /\ call.job = "heapmin" => call.t = Other
  /\ call.job = "expand" =>
       /\ call.size = BlockSize(call.amt) /\ call.amt > 0 /\ call.t \in Resizers
       /\ th[call.t].at \in {"expand", "back"} /\ call.ptr = th[call.t].ptr
       /\ need[call.ptr] <= call.amt
  /\ call.at \in {"mini", "shrink"} => call.mini \in {0} \cup Minis
  /\ call.at = "scan" => /\ call.mini \in Minis
                         /\ call.pcur \in {call.mini} \cup FreeIn(call.mini)
ThreadOK(x) ==
  /\ x.at = "idle" => x.ptr = 0 /\ x.new = 0
  /\ x.at # "idle" => x.ptr # 0 /\ x.old > 0 /\ x.amt > 0
  /\ x.at = "free" => x.new # 0 /\ x.new # x.ptr
  /\ x.at # "free" => x.new = 0
ThreadsOK == th[Other] = IdleThread /\ \A t \in Threads : ThreadOK(th[t])

\* Whose a block is.
Mine(t) == {th[t].ptr, th[t].new} \ {0}
Freeing == IF call.at = "nfree" THEN {call.pcur} ELSE {}
Owned ==
  /\ \A t \in Threads : held \cap Mine(t) = {}
  /\ \A t, u \in Threads : t # u => Mine(t) \cap Mine(u) = {}
  /\ \A a \in held : a \in used
  /\ \A t \in Threads : Mine(t) \subseteq used
  /\ \A a \in used \ Freeing : a \in held \/ \E t \in Threads : a \in Mine(t)
  /\ Freeing \subseteq used
  /\ \A a \in Freeing :
       /\ a \notin held
       /\ \A t \in Threads : a \in Mine(t) => call.job = "free" /\ t = call.t
       /\ call.job = "free" /\ call.t \in Resizers => a = th[call.t].ptr
Enough == \A a \in used \ Freeing : need[a] > 0 /\ size[a] > need[a]
NeedSmall == \A a \in Addr : need[a] <= Top

IInv ==
  /\ Types /\ MemOK /\ AtBreak /\ RoversLive /\ B4Small
  /\ CallOK /\ ThreadsOK /\ Owned /\ Enough /\ NeedSmall

-----------------------------------------------------------------------------
(* Blocks one behind the other, whatever is done to them *)

LEMMA Sizes == Hdr \in Nat /\ Hdr > 0 /\ Frl \in Nat /\ Frl > 1 /\ Top \in Nat /\ BlkSiz \in Nat /\ BlkSiz > 0
BY HeapAssumption

\* A block is split in two.
Split(h, e, B, sz, c, s, n, sz2) ==
  /\ h \in Int
  /\ e \in Int
  /\ B \in SUBSET Int
  /\ \A a \in B : sz[a] \in Int
  /\ Walk(h, e, B, sz)
  /\ c \in B
  /\ s \in Int
  /\ Frl <= s
  /\ Frl <= sz[c] - s
  /\ sz2[c] = s
  /\ n = c + s /\ sz2[n] = sz[c] - s
  /\ \A a \in B : a # c => sz2[a] = sz[a]
LEMMA WalkSplit ==
  ASSUME NEW h, NEW e, NEW B, NEW sz, NEW c, NEW s, NEW n, NEW sz2,
         Split(h, e, B, sz, c, s, n, sz2)
  PROVE  Walk(h, e, B \cup {n}, sz2) /\ n \notin B
<1> USE DEF Split
<1>0. n \in Int /\ n + sz2[n] = c + sz[c] /\ c < n /\ n < c + sz[c] /\ sz[c] \in Int
  BY Sizes
<1>1. \A a \in B : /\ h + Hdr <= a /\ a < e /\ Frl <= sz[a] /\ a + sz[a] \in B \cup {e} /\ sz[a] \in Int
                   /\ a < c => a + sz[a] <= c
                   /\ c < a => c + sz[c] <= a
  BY DEF Walk
<1>2. n \notin B
  BY <1>0, <1>1, Sizes
<1>3. n < e /\ h + Hdr <= n
  BY <1>0, <1>1, Sizes
<1>4. ASSUME NEW a \in B \cup {n}
      PROVE  /\ h + Hdr <= a /\ a < e /\ Frl <= sz2[a]
             /\ a + sz2[a] \in (B \cup {n}) \cup {e}
  <2>1. CASE a = n
    BY <1>0, <1>1, <1>3, <2>1
  <2>2. CASE a = c
    BY <1>0, <1>1, <2>2
  <2>3. CASE a \in B /\ a # c
    BY <1>1, <2>3
  <2> QED
    BY <1>4, <2>1, <2>2, <2>3
<1>5. ASSUME NEW a \in B \cup {n}, NEW b \in B \cup {n}, a < b
      PROVE  a + sz2[a] <= b
  <2>1. \A x, y \in B : x < y => x + sz[x] <= y
    BY DEF Walk
  <2>2. CASE a = n /\ b \in B
    BY <1>0, <1>1, <1>5, <2>2, Sizes
  <2>3. CASE a \in B /\ b = n
    <3>1. CASE a = c
      BY <2>3, <3>1
    <3>2. CASE a < c
      BY <1>0, <1>1, <2>3, <3>2
    <3>3. CASE a > c
      BY <1>0, <1>1, <1>5, <2>3, <3>3
    <3> QED
      BY <2>3, <3>1, <3>2, <3>3
  <2>4. CASE a \in B /\ b \in B /\ a # c
    BY <1>5, <2>1, <2>4
  <2>5. CASE a = c /\ b \in B
    BY <1>0, <1>1, <1>5, <2>5
  <2> QED
    BY <1>5, <1>0, <2>2, <2>3, <2>4, <2>5
<1>6. h + Hdr \in B \cup {n}
  BY DEF Walk
<1> QED
  BY <1>2, <1>4, <1>5, <1>6 DEF Walk

\* A block takes in the one behind it.
Join(h, e, B, sz, c, n, sz2) ==
  /\ h \in Int
  /\ e \in Int
  /\ B \in SUBSET Int
  /\ \A a \in B : sz[a] \in Int
  /\ Walk(h, e, B, sz)
  /\ c \in B
  /\ n \in B
  /\ n = c + sz[c]
  /\ sz2[c] = sz[c] + sz[n]
  /\ \A a \in B \ {c, n} : sz2[a] = sz[a]
LEMMA WalkJoin ==
  ASSUME NEW h, NEW e, NEW B, NEW sz, NEW c, NEW n, NEW sz2, Join(h, e, B, sz, c, n, sz2)
  PROVE  Walk(h, e, B \ {n}, sz2) /\ c \in B \ {n}
<1> USE DEF Join
<1>1. \A a \in B : /\ h + Hdr <= a /\ a < e /\ Frl <= sz[a] /\ a + sz[a] \in B \cup {e} /\ sz[a] \in Int
  BY DEF Walk
<1>2. \A x, y \in B : x < y => x + sz[x] <= y
  BY DEF Walk
<1>3. c < n
  BY <1>1, Sizes
<1>4. h + Hdr \in B \ {n}
  BY <1>1, <1>3, Sizes DEF Walk
<1>5. ASSUME NEW a \in B \ {n}
      PROVE  /\ h + Hdr <= a /\ a < e /\ Frl <= sz2[a]
             /\ a + sz2[a] \in (B \ {n}) \cup {e}
  <2>1. CASE a = c
    <3>1. a + sz2[a] = n + sz[n] /\ n + sz[n] # n /\ Frl <= sz2[a]
      BY <1>1, <2>1, Sizes
    <3> QED
      BY <1>1, <2>1, <3>1
  <2>2. CASE a # c
    <3>1. sz2[a] = sz[a] /\ a \in B
      BY <2>2
    <3>2. a + sz[a] # n
      <4>1. CASE a < c
        BY <1>1, <1>2, <1>3, <3>1, <4>1, Sizes
      <4>2. CASE a > c
        <5>1. n <= a /\ a # n
          BY <1>2, <4>2
        <5> QED
          BY <1>1, <5>1, Sizes
      <4> QED
        BY <2>2, <4>1, <4>2
    <3> QED
      BY <1>1, <3>1, <3>2
  <2> QED
    BY <2>1, <2>2
<1>6. ASSUME NEW a \in B \ {n}, NEW b \in B \ {n}, a < b
      PROVE  a + sz2[a] <= b
  <2>1. CASE a = c
    <3>1. n <= b /\ n # b
      BY <1>2, <1>6, <2>1
    <3>2. n + sz[n] <= b
      BY <1>2, <3>1
    <3> QED
      BY <1>1, <2>1, <3>2
  <2>2. CASE a # c
    BY <1>2, <1>6, <2>2
  <2> QED
    BY <2>1, <2>2
<1> QED
  BY <1>3, <1>4, <1>5, <1>6 DEF Walk

\* A block grows at the cost of the one behind it.
Shift(h, e, B, sz, c, n, g, m, sz2) ==
  /\ h \in Int
  /\ e \in Int
  /\ B \in SUBSET Int
  /\ \A a \in B : sz[a] \in Int
  /\ Walk(h, e, B, sz)
  /\ c \in B
  /\ n \in B
  /\ n = c + sz[c]
  /\ g \in Int
  /\ 0 < g
  /\ Frl <= sz[n] - g
  /\ sz2[c] = sz[c] + g
  /\ m = n + g /\ sz2[m] = sz[n] - g
  /\ \A a \in B \ {c, n} : sz2[a] = sz[a]
LEMMA WalkShift ==
  ASSUME NEW h, NEW e, NEW B, NEW sz, NEW c, NEW n, NEW g, NEW m, NEW sz2,
         Shift(h, e, B, sz, c, n, g, m, sz2)
  PROVE  Walk(h, e, (B \ {n}) \cup {m}, sz2) /\ m \notin B
<1> USE DEF Shift
<1> DEFINE mid == [a \in B |-> IF a = c THEN sz[c] + sz[n] ELSE sz[a]]
           s == sz[c] + g
<1>1. c # n
  BY Sizes DEF Walk
<1>2. Walk(h, e, B \ {n}, mid) /\ \A a \in B : mid[a] \in Int
  <2>1. mid[c] = sz[c] + sz[n] /\ \A a \in B \ {c, n} : mid[a] = sz[a]
    OBVIOUS
  <2>2. \A a \in B : mid[a] \in Int
    OBVIOUS
  <2> HIDE DEF mid
  <2>3. Join(h, e, B, sz, c, n, mid)
    BY <2>1 DEF Join
  <2> QED
    BY <2>2, <2>3, WalkJoin
<1>3. /\ mid[c] = sz[c] + sz[n] /\ \A a \in B \ {c, n} : mid[a] = sz2[a]
      /\ sz[c] \in Int /\ sz[n] \in Int /\ Frl <= sz[c] /\ Frl <= sz[n]
  BY DEF Walk
<1>4. /\ s \in Int /\ Frl <= s /\ Frl <= mid[c] - s /\ m = c + s
      /\ sz2[c] = s /\ sz2[m] = mid[c] - s
  BY <1>3, Sizes
<1> HIDE DEF mid, s
<1>5. Split(h, e, B \ {n}, mid, c, s, m, sz2)
  BY <1>1, <1>2, <1>3, <1>4 DEF Split
<1>6. Walk(h, e, (B \ {n}) \cup {m}, sz2) /\ m \notin B \ {n}
  BY <1>5, WalkSplit
<1> QED
  BY <1>6

\* Memory is added at the end, or taken from it.
Extend(h, e, B, sz, s, sz2) ==
  /\ h \in Int
  /\ e \in Int
  /\ B \in SUBSET Int
  /\ \A a \in B : sz[a] \in Int
  /\ Walk(h, e, B, sz)
  /\ s \in Int
  /\ Frl <= s
  /\ sz2[e] = s
  /\ \A a \in B : sz2[a] = sz[a]
LEMMA WalkExtend ==
  ASSUME NEW h, NEW e, NEW B, NEW sz, NEW s, NEW sz2, Extend(h, e, B, sz, s, sz2)
  PROVE  Walk(h, e + s, B \cup {e}, sz2) /\ e \notin B
<1> USE DEF Extend
<1>1. \A a \in B : /\ h + Hdr <= a /\ a < e /\ Frl <= sz[a] /\ a + sz[a] \in B \cup {e} /\ sz[a] \in Int
  BY DEF Walk
<1>2. \A x, y \in B : x < y => x + sz[x] <= y
  BY DEF Walk
<1>3. h + Hdr \in B /\ \A a \in B : a + sz[a] <= e
  BY <1>1 DEF Walk
<1> QED
  BY <1>1, <1>2, <1>3, Sizes DEF Walk
CutOff(h, e, B, sz, c, sz2) ==
  /\ h \in Int
  /\ e \in Int
  /\ B \in SUBSET Int
  /\ \A a \in B : sz[a] \in Int
  /\ Walk(h, e, B, sz)
  /\ c \in B
  /\ c + sz[c] = e
  /\ c # h + Hdr
  /\ \A a \in B \ {c} : sz2[a] = sz[a]
LEMMA WalkCut ==
  ASSUME NEW h, NEW e, NEW B, NEW sz, NEW c, NEW sz2, CutOff(h, e, B, sz, c, sz2)
  PROVE  Walk(h, c, B \ {c}, sz2)
<1> USE DEF CutOff
<1>1. \A a \in B : /\ h + Hdr <= a /\ a < e /\ Frl <= sz[a] /\ a + sz[a] \in B \cup {e} /\ sz[a] \in Int
  BY DEF Walk
<1>2. \A x, y \in B : x < y => x + sz[x] <= y
  BY DEF Walk
<1>3. ASSUME NEW a \in B, a # c
      PROVE  a < c /\ a + sz[a] \in B /\ a + sz[a] # e
  <2>1. ~(c < a)
    BY <1>1, <1>2
  <2>2. a + sz[a] <= c /\ c < e
    BY <1>1, <1>2, <1>3, <2>1
  <2> QED
    BY <1>1, <1>3, <2>1, <2>2
<1> QED
  BY <1>1, <1>2, <1>3 DEF Walk

LEMMA WalkOne ==
  ASSUME NEW h \in Int, NEW len \in Int, Frl <= len - Hdr, NEW sz, sz[h + Hdr] = len - Hdr
  PROVE  Walk(h, h + len, {h + Hdr}, sz)
BY Sizes DEF Walk

\* A mini-heap of which one block is all.
LEMMA WalkAll ==
  ASSUME NEW h \in Int, NEW len \in Int, NEW B \in SUBSET Int, NEW sz, \A a \in B : sz[a] \in Int,
         Walk(h, h + len, B, sz), NEW c \in B, len - Hdr <= sz[c]
  PROVE  c = h + Hdr /\ B = {c}
<1>1. \A a \in B : /\ h + Hdr <= a /\ a < h + len /\ Frl <= sz[a] /\ a + sz[a] \in B \cup {h + len} /\ sz[a] \in Int
  BY DEF Walk
<1>2. \A x, y \in B : x < y => x + sz[x] <= y
  BY DEF Walk
<1>3. c = h + Hdr
  <2>1. c + sz[c] <= h + len
    BY <1>1, Sizes
  <2> QED
    BY <1>1, <2>1, Sizes
<1>4. \A a \in B : a = c
  <2> SUFFICES ASSUME NEW a \in B, a # c PROVE FALSE
    OBVIOUS
  <2>1. c < a
    BY <1>1, <1>3, Sizes
  <2> QED
    BY <1>1, <1>2, <1>3, <2>1, Sizes
<1> QED
  BY <1>3, <1>4

-----------------------------------------------------------------------------
(* The ring of free blocks *)

\* The same for a block and what is before and behind it.
Linked(h, F, nx, pv, a) ==
  /\ nx[a] \in {h} \cup F /\ pv[a] \in {h} \cup F
  /\ nx[a] \in Int /\ pv[a] \in Int /\ a \in Int
  /\ pv[nx[a]] = a /\ nx[pv[a]] = a
  /\ nx[a] # h => a < nx[a]
  /\ a # h => pv[a] < a
  /\ \A b \in F : a < b => nx[a] # h /\ nx[a] <= b
  /\ \A b \in F : pv[a] < b => a # h /\ a <= b

LEMMA RingFacts ==
  ASSUME NEW h \in Int, NEW F \in SUBSET Int, \A a \in F : h < a,
         NEW nx, NEW pv, Ring(h, F, nx, pv), NEW a, a = h \/ a \in F
  PROVE  Linked(h, F, nx, pv, a)
<1>1. /\ nx[a] \in {h} \cup F /\ pv[a] \in {h} \cup F
      /\ pv[nx[a]] = a /\ nx[pv[a]] = a
      /\ nx[a] # h => a < nx[a]
      /\ \A b \in F : a < b => nx[a] # h /\ nx[a] <= b
  BY DEF Ring
<1>2. /\ nx[pv[a]] # h => pv[a] < nx[pv[a]]
      /\ \A b \in F : pv[a] < b => nx[pv[a]] # h /\ nx[pv[a]] <= b
  BY <1>1 DEF Ring
<1> QED
  BY <1>1, <1>2 DEF Linked

\* A free block c leaves the ring.
Removed(h, F, nx, pv, c, nx2, pv2) ==
  /\ h \in Int
  /\ F \in SUBSET Int
  /\ \A a \in F : h < a
  /\ Ring(h, F, nx, pv)
  /\ c \in F
  /\ nx2[pv[c]] = nx[c]
  /\ pv2[nx[c]] = pv[c]
  /\ \A a \in {h} \cup F : a # c /\ a # pv[c] => nx2[a] = nx[a]
  /\ \A a \in {h} \cup F : a # c /\ a # nx[c] => pv2[a] = pv[a]
LEMMA RingRemove ==
  ASSUME NEW h, NEW F, NEW nx, NEW pv, NEW c, NEW nx2, NEW pv2, Removed(h, F, nx, pv, c, nx2, pv2)
  PROVE  Ring(h, F \ {c}, nx2, pv2)
<1> USE DEF Removed
<1> DEFINE G == {h} \cup (F \ {c})
<1>a. Linked(h, F, nx, pv, c)
  BY RingFacts
<1>0. /\ c # h /\ c \in {h} \cup F /\ c \in Int
      /\ nx[c] \in {h} \cup F /\ pv[c] \in {h} \cup F /\ nx[c] \in Int /\ pv[c] \in Int
      /\ pv[c] < c /\ (nx[c] # h => c < nx[c])
      /\ nx[pv[c]] = c /\ pv[nx[c]] = c
      /\ \A b \in F : c < b => nx[c] # h /\ nx[c] <= b
      /\ \A b \in F : pv[c] < b => c <= b
  BY <1>a DEF Linked
<1>1. pv[c] \in G /\ nx[c] \in G
  BY <1>0
<1>2. ASSUME NEW a \in G
      PROVE  /\ nx2[a] \in G /\ pv2[a] \in G
             /\ pv2[nx2[a]] = a /\ nx2[pv2[a]] = a
             /\ nx2[a] # h => a < nx2[a]
             /\ \A b \in F \ {c} : a < b => nx2[a] # h /\ nx2[a] <= b
  <2>0. /\ a \in {h} \cup F /\ a # c
        /\ nx[a] \in {h} \cup F /\ pv[a] \in {h} \cup F
        /\ pv[nx[a]] = a /\ nx[pv[a]] = a
        /\ nx[a] # h => a < nx[a]
        /\ \A b \in F : a < b => nx[a] # h /\ nx[a] <= b
        /\ nx[a] \in Int /\ pv[a] \in Int /\ a \in Int
    <3>1. Linked(h, F, nx, pv, a)
      BY RingFacts
    <3> QED
      BY <3>1, <1>0 DEF Linked
  <2>1. nx2[a] \in G /\ pv2[nx2[a]] = a /\ (nx2[a] # h => a < nx2[a])
    <3>1. CASE a = pv[c]
      BY <1>0, <1>1, <2>0, <3>1
    <3>2. CASE a # pv[c]
      <4>1. nx2[a] = nx[a] /\ nx[a] # c
        BY <1>0, <1>1, <2>0, <3>2
      <4>2. nx[a] # nx[c]
        BY <1>0, <1>1, <2>0
      <4> QED
        BY <2>0, <4>1, <4>2
    <3> QED
      BY <3>1, <3>2
  <2>2. pv2[a] \in G /\ nx2[pv2[a]] = a
    <3>1. CASE a = nx[c]
      BY <1>0, <1>1, <2>0, <3>1
    <3>2. CASE a # nx[c]
      <4>1. pv2[a] = pv[a] /\ pv[a] # c
        BY <1>0, <1>1, <2>0, <3>2
      <4>2. pv[a] # pv[c]
        BY <1>0, <1>1, <2>0
      <4> QED
        BY <2>0, <4>1, <4>2
    <3> QED
      BY <3>1, <3>2
  <2>3. ASSUME NEW b \in F \ {c}, a < b
        PROVE  nx2[a] # h /\ nx2[a] <= b
    <3>1. CASE a = pv[c]
      <4>1. c < b
        BY <1>0, <1>1, <2>3, <3>1
      <4> QED
        BY <1>0, <1>1, <2>3, <3>1, <4>1
    <3>2. CASE a # pv[c]
      BY <2>0, <2>3, <3>2
    <3> QED
      BY <3>1, <3>2
  <2> QED
    BY <2>1, <2>2, <2>3
<1> QED
  BY <1>2 DEF Ring

\* A block f enters the ring between its neighbours.
Inserted(h, F, nx, pv, pp, pn, f, nx2, pv2) ==
  /\ h \in Int
  /\ F \in SUBSET Int
  /\ \A a \in F : h < a
  /\ Ring(h, F, nx, pv)
  /\ pp \in {h} \cup F
  /\ pn = nx[pp]
  /\ f \in Int
  /\ pp < f
  /\ pn = h \/ f < pn
  /\ nx2[pp] = f
  /\ nx2[f] = pn
  /\ pv2[pn] = f
  /\ pv2[f] = pp
  /\ \A a \in {h} \cup F : a # pp => nx2[a] = nx[a]
  /\ \A a \in {h} \cup F : a # pn => pv2[a] = pv[a]
LEMMA RingInsert ==
  ASSUME NEW h, NEW F, NEW nx, NEW pv, NEW pp, NEW pn, NEW f, NEW nx2, NEW pv2, Inserted(h, F, nx, pv, pp, pn, f, nx2, pv2)
  PROVE  Ring(h, F \cup {f}, nx2, pv2) /\ f \notin F
<1> USE DEF Inserted
<1>1. /\ pn \in {h} \cup F /\ pv[pn] = pp /\ pn \in Int /\ pp \in Int
      /\ \A b \in F : pp < b => pn # h /\ pn <= b
      /\ h <= pp /\ h < f
  <2>1. Linked(h, F, nx, pv, pp)
    BY RingFacts
  <2> QED
    BY <2>1 DEF Linked
<1>2. f \notin F /\ f # h
  <2>1. ASSUME f \in F PROVE FALSE
    BY <1>1, <2>1
  <2> QED
    BY <1>1, <2>1
<1> DEFINE G == {h} \cup (F \cup {f})
<1>3. ASSUME NEW a \in G
      PROVE  /\ nx2[a] \in G /\ pv2[a] \in G
             /\ pv2[nx2[a]] = a /\ nx2[pv2[a]] = a
             /\ nx2[a] # h => a < nx2[a]
             /\ \A b \in F \cup {f} : a < b => nx2[a] # h /\ nx2[a] <= b
  <2>1. CASE a = f
    BY <1>1, <1>2, <2>1
  <2>2. CASE a \in {h} \cup F
    <3>0. /\ nx[a] \in {h} \cup F /\ pv[a] \in {h} \cup F
          /\ pv[nx[a]] = a /\ nx[pv[a]] = a
          /\ nx[a] # h => a < nx[a]
          /\ \A b \in F : a < b => nx[a] # h /\ nx[a] <= b
          /\ nx[a] \in Int /\ pv[a] \in Int /\ a \in Int
      <4>1. Linked(h, F, nx, pv, a)
        BY <2>2, RingFacts
      <4> QED
        BY <4>1 DEF Linked
    <3>1. nx2[a] \in G /\ pv2[nx2[a]] = a /\ (nx2[a] # h => a < nx2[a])
      <4>1. CASE a = pp
        BY <1>1, <4>1
      <4>2. CASE a # pp
        BY <1>1, <1>2, <2>2, <3>0, <4>2
      <4> QED
        BY <4>1, <4>2
    <3>2. pv2[a] \in G /\ nx2[pv2[a]] = a
      <4>1. CASE a = pn
        BY <1>1, <4>1
      <4>2. CASE a # pn
        BY <1>1, <1>2, <2>2, <3>0, <4>2
      <4> QED
        BY <4>1, <4>2
    <3>3. ASSUME NEW b \in F \cup {f}, a < b
          PROVE  nx2[a] # h /\ nx2[a] <= b
      <4>1. CASE a = pp
        <5>1. nx2[a] = f /\ f # h
          BY <1>2, <4>1
        <5>2. f <= b
          BY <1>1, <1>2, <3>3, <4>1
        <5> QED
          BY <5>1, <5>2
      <4>2. CASE a # pp /\ b \in F
        BY <2>2, <3>0, <3>3, <4>2
      <4>3. CASE a # pp /\ b = f
        <5>1. nx2[a] = nx[a]
          BY <2>2, <4>3
        <5>2. ~(pp < a)
          <6> SUFFICES ASSUME pp < a PROVE FALSE
            OBVIOUS
          <6>1. a \in F /\ pn # h /\ pn <= a
            BY <1>1, <2>2
          <6> QED
            BY <1>1, <3>3, <4>3, <6>1
        <5>3. a < pp /\ pp \in F
          BY <1>1, <2>2, <4>3, <5>2
        <5>4. nx[a] # h /\ nx[a] <= pp
          BY <3>0, <5>3
        <5> QED
          BY <1>1, <3>0, <4>3, <5>1, <5>4
      <4> QED
        BY <4>1, <4>2, <4>3
    <3> QED
      BY <3>1, <3>2, <3>3
  <2> QED
    BY <2>1, <2>2
<1> QED
  BY <1>2, <1>3 DEF Ring

\* A free block's place is taken by another that lies between its neighbours.
Replaced(h, F, nx, pv, c, f, nx2, pv2) ==
  /\ h \in Int
  /\ F \in SUBSET Int
  /\ \A a \in F : h < a
  /\ Ring(h, F, nx, pv)
  /\ c \in F
  /\ f \in Int
  /\ pv[c] < f
  /\ nx[c] = h \/ f < nx[c]
  /\ nx2[pv[c]] = f
  /\ nx2[f] = nx[c]
  /\ pv2[nx[c]] = f
  /\ pv2[f] = pv[c]
  /\ \A a \in {h} \cup F : a # c /\ a # pv[c] => nx2[a] = nx[a]
  /\ \A a \in {h} \cup F : a # c /\ a # nx[c] => pv2[a] = pv[a]
LEMMA RingReplace ==
  ASSUME NEW h, NEW F, NEW nx, NEW pv, NEW c, NEW f, NEW nx2, NEW pv2, Replaced(h, F, nx, pv, c, f, nx2, pv2)
  PROVE  Ring(h, (F \ {c}) \cup {f}, nx2, pv2) /\ f \notin F \ {c}
<1> USE DEF Replaced
<1> DEFINE R == {h} \cup F
           mx == [a \in R |-> IF a = pv[c] THEN nx[c] ELSE nx[a]]
           mv == [a \in R |-> IF a = nx[c] THEN pv[c] ELSE pv[a]]
           G == F \ {c}
<1>a. Linked(h, F, nx, pv, c)
  BY RingFacts
<1>0. /\ c # h /\ c \in {h} \cup F /\ nx[c] \in {h} \cup F /\ pv[c] \in {h} \cup F
      /\ pv[c] < c /\ (nx[c] # h => c < nx[c]) /\ c \in Int
  BY <1>a DEF Linked
<1>1. pv[c] \in {h} \cup G /\ nx[c] \in {h} \cup G /\ c # h /\ pv[c] < c
  BY <1>0
<1>2. Ring(h, G, mx, mv)
  <2>1. /\ mx[pv[c]] = nx[c] /\ mv[nx[c]] = pv[c]
        /\ \A a \in {h} \cup F : a # c /\ a # pv[c] => mx[a] = nx[a]
        /\ \A a \in {h} \cup F : a # c /\ a # nx[c] => mv[a] = pv[a]
    BY <1>1
  <2> HIDE DEF mx, mv
  <2>2. Removed(h, F, nx, pv, c, mx, mv)
    BY <2>1 DEF Removed
  <2> QED
    BY <2>2, RingRemove
<1>3. /\ mx[pv[c]] = nx[c] /\ G \in SUBSET Int /\ \A a \in G : h < a
      /\ \A a \in {h} \cup G : a # pv[c] => nx2[a] = mx[a]
      /\ \A a \in {h} \cup G : a # nx[c] => pv2[a] = mv[a]
  BY <1>1
<1> DEFINE pp == pv[c]
           pn == nx[c]
<1>4. /\ pp \in {h} \cup G /\ pn = mx[pp] /\ pp < f /\ (pn = h \/ f < pn)
      /\ nx2[pp] = f /\ nx2[f] = pn /\ pv2[pn] = f /\ pv2[f] = pp
      /\ \A a \in {h} \cup G : a # pp => nx2[a] = mx[a]
      /\ \A a \in {h} \cup G : a # pn => pv2[a] = mv[a]
  BY <1>1, <1>3
<1> HIDE DEF mx, mv, G, pp, pn
<1>5. Inserted(h, G, mx, mv, pp, pn, f, nx2, pv2)
  BY <1>2, <1>3, <1>4 DEF Inserted
<1>6. Ring(h, G \cup {f}, nx2, pv2) /\ f \notin G
  BY <1>5, RingInsert
<1> QED
  BY <1>6 DEF G

-----------------------------------------------------------------------------
(* Where things are *)

LEMMA Least ==
  ASSUME NEW T \in SUBSET Nat, T # {}
  PROVE  \E x \in T : \A y \in T : x <= y
<1>1. \E x \in T : \A y \in T : ~(<<y, x>> \in OpToRel(<, Nat))
  BY NatLessThanWellFounded, WFMin, Zenon
<1>2. PICK x \in T : \A y \in T : ~(<<y, x>> \in OpToRel(<, Nat))
  BY <1>1
<1>3. \A y \in T : x <= y
  <2> SUFFICES ASSUME NEW y \in T PROVE x <= y
    OBVIOUS
  <2>1. ~(y < x)
    BY <1>2 DEF OpToRel
  <2> QED
    BY <2>1
<1> QED
  BY <1>3

LEMMA MiniTypes ==
  ASSUME MemTypes, NEW h \in Minis
  PROVE  /\ h \in Addr /\ h \in Nat /\ h > 0 /\ mh[h].len \in Nat /\ mh[h].len > 0
         /\ EndTag(h) \in Nat /\ h < EndTag(h)
<1>1. h \in Addr /\ mh[h].len > 0 /\ mh \in [Addr -> MiniRec]
  BY DEF MemTypes, Minis
<1>2. mh[h].len \in Nat
  BY <1>1 DEF MiniRec
<1>3. h \in 1..Top /\ Top \in Nat
  BY <1>1, Sizes DEF Addr
<1>4. h \in Nat /\ h > 0 /\ h + mh[h].len \in Nat /\ h < h + mh[h].len
  <2>1. mh[h].len > 0
    BY <1>1
  <2> QED
    BY <1>2, <1>3, <2>1
<1> QED
  BY <1>1, <1>2, <1>4 DEF EndTag

\* The blocks of a mini-heap and those that are free are addresses above it.
LEMMA BlocksAre ==
  ASSUME MemTypes, NEW h \in Minis
  PROVE  /\ Blocks(h) \in SUBSET Int /\ Blocks(h) \subseteq Addr
         /\ FreeIn(h) \in SUBSET Int /\ FreeIn(h) \subseteq Blocks(h)
         /\ \A a \in Blocks(h) : size[a] \in Int /\ size[a] > 0 /\ Within(h, a) /\ h < a
         /\ \A a \in FreeIn(h) : a \notin used /\ h < a
<1>1. h \in Nat /\ EndTag(h) \in Nat /\ size \in [Addr -> Nat] /\ Addr \subseteq Int
  <2>1. size \in [Addr -> Nat]
    BY DEF MemTypes
  <2>2. Addr \subseteq Int
    BY Sizes DEF Addr
  <2> QED
    BY <2>1, <2>2, MiniTypes
<1>2. \A a \in Blocks(h) : a \in Addr /\ size[a] > 0 /\ Within(h, a)
  BY DEF Blocks
<1>3. \A a \in Blocks(h) : size[a] \in Int /\ h < a
  <2>1. ASSUME NEW a \in Blocks(h) PROVE size[a] \in Int /\ h < a
    <3>1. a \in Addr /\ Within(h, a)
      BY <1>2
    <3>2. size[a] \in Nat
      BY <1>1, <3>1
    <3> QED
      BY <3>1, <3>2 DEF Within
  <2> QED
    BY <2>1
<1> QED
  BY <1>1, <1>2, <1>3 DEF FreeIn

LEMMA InOneMini ==
  ASSUME MemTypes, Apart, NEW h \in Minis, NEW g \in Minis, NEW a, Within(h, a), Within(g, a), a \in Int
  PROVE  g = h
BY MiniTypes DEF Apart, Within

LEMMA MiniOfIs ==
  ASSUME MemTypes, Apart, NEW h \in Minis, NEW a \in Addr, Within(h, a)
  PROVE  MiniOf(a) = h
<1>1. \A g \in Minis : Within(g, a) => g = h
  BY InOneMini DEF Addr
<1>2. h \in Minis /\ Within(h, a)
  OBVIOUS
<1>3. MiniOf(a) \in Minis /\ Within(MiniOf(a), a)
  BY <1>2, Zenon DEF MiniOf
<1> QED
  BY <1>1, <1>3

\* A block in use, or free, is in the mini-heap MiniOf finds.
LEMMA BlockIn ==
  ASSUME MemTypes, MemOK, NEW a \in Addr, size[a] > 0
  PROVE  /\ MiniOf(a) \in Minis /\ a \in Blocks(MiniOf(a)) /\ Within(MiniOf(a), a)
         /\ \A h \in Minis : Within(h, a) => h = MiniOf(a)
<1>1. PICK h \in Minis : Within(h, a)
  BY DEF MemOK, Covered
<1>2. MiniOf(a) = h
  BY <1>1, MiniOfIs DEF MemOK
<1> QED
  BY <1>1, <1>2, MiniOfIs DEF MemOK, Blocks

\* A descriptor lies in no block, and neither does an end tag.
LEMMA NoBlockThere ==
  ASSUME MemTypes, MemOK, NEW h \in Minis
  PROVE  size[h] = 0 /\ (EndTag(h) \in Addr => size[EndTag(h)] = 0)
<1>1. \A g \in Minis : ~Within(g, h) /\ ~Within(g, EndTag(h))
  BY MiniTypes DEF Within, MemOK, Apart
<1>2. h \in Addr /\ \A a \in Addr : size[a] \in Nat
  BY MiniTypes DEF MemTypes
<1> QED
  BY <1>1, <1>2 DEF MemOK, Covered

LEMMA NextMiniIs ==
  ASSUME MemTypes, NEW h \in Nat
  PROVE  /\ NextMini(h) \in {0} \cup Minis
         /\ NextMini(h) = 0 => \A g \in Minis : g <= h
         /\ NextMini(h) # 0 => h < NextMini(h)
         /\ NextMini(h) # 0 => \A g \in Minis : h < g => NextMini(h) <= g
<1> DEFINE T == {g \in Minis : g > h}
<1>0. \A g \in Minis : g \in Nat /\ g > 0
  BY MiniTypes
<1>1. CASE T = {}
  BY <1>0, <1>1 DEF NextMini
<1>2. CASE T # {}
  <2>1. \E g \in T : \A f \in T : g <= f
    BY <1>0, <1>2, Least
  <2>2. \E g \in Minis : g > h /\ \A f \in Minis : f > h => g <= f
    BY <2>1
  <2>3. NextMini(h) = CHOOSE g \in Minis : g > h /\ \A f \in Minis : f > h => g <= f
    BY <1>2 DEF NextMini
  <2>4. NextMini(h) \in Minis /\ NextMini(h) > h /\ \A f \in Minis : f > h => NextMini(h) <= f
    BY <2>2, <2>3, Zenon
  <2> QED
    BY <1>0, <2>4
<1> QED
  BY <1>1, <1>2

LEMMA FirstMiniIs ==
  ASSUME MemTypes
  PROVE  /\ FirstMini \in {0} \cup Minis
         /\ FirstMini = 0 => Minis = {}
         /\ \A g \in Minis : FirstMini <= g
BY NextMiniIs, MiniTypes DEF FirstMini

LEMMA LastMiniIs ==
  ASSUME MemTypes, Minis # {}
  PROVE  LastMini \in Minis /\ \A g \in Minis : g <= LastMini
<1>1. \E h \in Minis : \A g \in Minis : g <= h
  <2>1. DEFINE S == {Top - g : g \in Minis}
  <2>2. S \in SUBSET Nat /\ S # {} /\ Top \in Nat /\ \A g \in Minis : g \in Nat /\ g <= Top
    BY HeapAssumption DEF Minis, Addr
  <2>3. PICK d \in S : \A e \in S : d <= e
    BY <2>2, Least
  <2>4. PICK h \in Minis : d = Top - h
    BY <2>3
  <2>5. ASSUME NEW g \in Minis PROVE g <= h
    <3>1. d <= Top - g
      BY <2>3
    <3> QED
      BY <2>2, <2>4, <3>1
  <2> QED
    BY <2>5
<1> QED
  BY <1>1, Zenon DEF LastMini

\* What MiniOK says of a mini-heap, in the form the lemmas above take it.
LEMMA MiniIs ==
  ASSUME MemTypes, MemOK, NEW h \in Minis
  PROVE  /\ h \in Int /\ EndTag(h) \in Int
         /\ Blocks(h) \in SUBSET Int /\ \A a \in Blocks(h) : size[a] \in Int
         /\ Walk(h, EndTag(h), Blocks(h), size)
         /\ FreeIn(h) \in SUBSET Int /\ \A a \in FreeIn(h) : h < a
         /\ Ring(h, FreeIn(h), next, prev)
         /\ Joined(FreeIn(h), size)
         /\ mh[h].rover \in {h} \cup FreeIn(h)
         /\ Counted(h)
BY MiniTypes, BlocksAre DEF MemOK, MiniOK

\* The links of a mini-heap are addresses.
LEMMA LinkTypes ==
  ASSUME MemTypes, MemOK, NEW h \in Minis, NEW a \in {h} \cup FreeIn(h)
  PROVE  /\ Linked(h, FreeIn(h), next, prev, a)
         /\ next[a] \in Addr /\ prev[a] \in Addr /\ a \in Addr
         /\ (next[a] = h \/ Within(h, next[a])) /\ (prev[a] = h \/ Within(h, prev[a]))
<1>1. Linked(h, FreeIn(h), next, prev, a)
  BY MiniIs, RingFacts
<1>2. next[a] \in {h} \cup FreeIn(h) /\ prev[a] \in {h} \cup FreeIn(h)
  BY <1>1 DEF Linked
<1> QED
  BY <1>1, <1>2, BlocksAre, MiniTypes

-----------------------------------------------------------------------------
(* Steps that change one mini-heap *)

Untouched(g) ==
  /\ mh'[g] = mh[g]
  /\ \A a \in Addr : Within(g, a) => size'[a] = size[a] /\ (a \in used' <=> a \in used)
  /\ \A a \in Addr : Within(g, a) \/ a = g => next'[a] = next[a] /\ prev'[a] = prev[a]

LEMMA UntouchedKept ==
  ASSUME MemTypes, MemOK, NEW g \in Minis, Untouched(g)
  PROVE  /\ g \in Minis' /\ Blocks(g)' = Blocks(g) /\ FreeIn(g)' = FreeIn(g)
         /\ EndTag(g)' = EndTag(g) /\ MiniOK(g)' /\ Counted(g)'
<1>1. g \in Minis' /\ EndTag(g)' = EndTag(g) /\ \A a : Within(g, a)' <=> Within(g, a)
  BY DEF Untouched, Minis, EndTag, Within
<1>2. Blocks(g)' = Blocks(g)
  BY <1>1 DEF Untouched, Blocks
<1>3. FreeIn(g)' = FreeIn(g) /\ (Blocks(g) \cap used)' = Blocks(g) \cap used
  BY <1>2, BlocksAre DEF Untouched, FreeIn
<1>4. Counted(g)'
  BY <1>2, <1>3, MiniIs DEF Counted, Untouched
<1>5. \A a \in Blocks(g) : size'[a] = size[a]
  BY BlocksAre DEF Untouched
<1>6. \A a \in {g} \cup FreeIn(g) : next'[a] = next[a] /\ prev'[a] = prev[a]
  BY BlocksAre, MiniTypes DEF Untouched
<1>7. Walk(g, EndTag(g), Blocks(g), size')
  BY <1>5, MiniIs DEF Walk
<1>8. Ring(g, FreeIn(g), next', prev')
  <2>1. \A a \in {g} \cup FreeIn(g) :
          Linked(g, FreeIn(g), next, prev, a)
    BY MiniIs, RingFacts
  <2> QED
    BY <1>6, <2>1 DEF Ring, Linked
<1>9. Joined(FreeIn(g), size')
  BY <1>5, MiniIs, BlocksAre DEF Joined
<1>10. mh'[g].rover \in {g} \cup FreeIn(g)
  BY MiniIs DEF Untouched
<1> QED
  BY <1>1, <1>2, <1>3, <1>4, <1>7, <1>8, <1>9, <1>10 DEF MiniOK

\* No mini-heap is made, dropped or made longer, and only h is changed.
OnlyIn(h) ==
  /\ Minis' = Minis /\ mh'[h].len = mh[h].len
  /\ \A g \in Minis : g # h => mh'[g] = mh[g]
  /\ \A a \in Addr : ~Within(h, a) => size'[a] = size[a] /\ (a \in used' <=> a \in used)
  /\ \A a \in Addr : ~Within(h, a) /\ a # h => next'[a] = next[a] /\ prev'[a] = prev[a]

LEMMA OnlyInKept ==
  ASSUME MemTypes, MemOK, NEW h \in Minis, OnlyIn(h), MiniOK(h)', Counted(h)', used' \subseteq Addr,
         \A a \in used' : Within(h, a) => size'[a] > 0
  PROVE  /\ MemOK' /\ \A g \in Minis : EndTag(g)' = EndTag(g)
         /\ \A g \in Minis : g # h => Blocks(g)' = Blocks(g) /\ FreeIn(g)' = FreeIn(g)
<1>1. ASSUME NEW g \in Minis, g # h
      PROVE  Untouched(g)
  <2>1. \A a \in Addr : Within(g, a) \/ a = g => ~Within(h, a) /\ a # h
    BY <1>1, InOneMini, MiniTypes DEF Within, MemOK, Apart, Addr
  <2> QED
    BY <1>1, <2>1 DEF OnlyIn, Untouched
<1>2. \A g \in Minis : g # h => /\ Blocks(g)' = Blocks(g) /\ FreeIn(g)' = FreeIn(g)
                                /\ MiniOK(g)' /\ Counted(g)'
  BY <1>1, UntouchedKept
<1>3. \A g \in Minis : EndTag(g)' = EndTag(g) /\ \A a : Within(g, a)' <=> Within(g, a)
  BY DEF OnlyIn, EndTag, Within
<1>4. Apart'
  BY <1>3 DEF OnlyIn, MemOK, Apart
<1>5. Covered'
  <2>1. ASSUME NEW a \in Addr, size'[a] > 0
        PROVE  \E g \in Minis : Within(g, a)
    BY <2>1 DEF OnlyIn, MemOK, Covered
  <2>2. \A a \in used' : size'[a] > 0
    BY DEF OnlyIn, MemOK, Covered
  <2> QED
    BY <1>3, <2>1, <2>2 DEF OnlyIn, Covered
<1>6. \A g \in Minis' : MiniOK(g)' /\ Counted(g)'
  BY <1>2 DEF OnlyIn
<1> QED
  BY <1>2, <1>3, <1>4, <1>5, <1>6 DEF MemOK

\* Nothing is changed but the rovers, or what mh says of sizes.
LEMMA SameBlocks ==
  ASSUME MemTypes, MemOK, UNCHANGED <<size, used, next, prev>>,
         \A h \in Addr : /\ mh'[h].len = mh[h].len /\ mh'[h].rover = mh[h].rover
                         /\ mh'[h].numalloc = mh[h].numalloc /\ mh'[h].numfree = mh[h].numfree
  PROVE  /\ MemOK' /\ Minis' = Minis
         /\ \A h : h \in Minis =>
              Blocks(h)' = Blocks(h) /\ FreeIn(h)' = FreeIn(h) /\ EndTag(h)' = EndTag(h)
<1>1. Minis' = Minis
  BY DEF Minis
<1>2. \A h \in Minis : /\ EndTag(h)' = EndTag(h) /\ \A a : Within(h, a)' <=> Within(h, a)
                       /\ h \in Addr
  BY DEF Minis, EndTag, Within
<1>3. \A h \in Minis : Blocks(h)' = Blocks(h) /\ FreeIn(h)' = FreeIn(h)
  BY <1>2 DEF Blocks, FreeIn
<1>4. Apart' /\ Covered'
  BY <1>1, <1>2 DEF MemOK, Apart, Covered
<1>5. ASSUME NEW h \in Minis
      PROVE  MiniOK(h)' /\ Counted(h)'
  BY <1>2, <1>3 DEF MemOK, MiniOK, Counted
<1> QED
  BY <1>1, <1>2, <1>3, <1>4, <1>5 DEF MemOK

\* Counting.
LEMMA AddrFinite == IsFiniteSet(Addr) /\ Cardinality(Addr) = Top /\ \A S \in SUBSET Addr : IsFiniteSet(S)
<1>1. IsFiniteSet(1..Top) /\ Cardinality(1..Top) = IF 1 > Top THEN 0 ELSE Top - 1 + 1
  <2>1. 1 \in Int /\ Top \in Int
    BY Sizes
  <2> QED
    BY <2>1, FS_Interval
<1>2. Cardinality(1..Top) = Top
  BY <1>1, Sizes
<1> QED
  BY <1>1, <1>2, FS_Subset DEF Addr

LEMMA CountAdd ==
  ASSUME NEW S \in SUBSET Addr, NEW x, x \notin S
  PROVE  Cardinality(S \cup {x}) = Cardinality(S) + 1 /\ Cardinality(S) \in Int
BY AddrFinite, FS_AddElement, FS_CardinalityType

LEMMA CountRemove ==
  ASSUME NEW S \in SUBSET Addr, NEW x \in S
  PROVE  Cardinality(S \ {x}) = Cardinality(S) - 1 /\ Cardinality(S) \in Int
BY AddrFinite, FS_RemoveElement, FS_CardinalityType

\* The descriptor of h is changed, and not its length.
LEMMA MiniSet ==
  ASSUME MemTypes, NEW h \in Minis, NEW r \in MiniRec, r.len = mh[h].len,
         mh' = [mh EXCEPT ![h] = r]
  PROVE  /\ mh'[h] = r /\ \A g \in Addr : g # h => mh'[g] = mh[g]
         /\ mh' \in [Addr -> MiniRec] /\ Minis' = Minis
         /\ \A g \in Addr : mh'[g].len = 0 => mh'[g] = NoMini
<1>1. mh \in [Addr -> MiniRec] /\ h \in Addr /\ mh[h].len > 0
  BY DEF MemTypes, Minis
<1>2. /\ mh'[h] = r /\ \A g \in Addr : g # h => mh'[g] = mh[g]
      /\ mh' \in [Addr -> MiniRec]
  BY <1>1
<1>3. Minis' = Minis
  BY <1>1, <1>2 DEF Minis
<1>4. \A g \in Addr : mh'[g].len = 0 => mh'[g] = NoMini
  BY <1>1, <1>2 DEF MemTypes
<1> QED
  BY <1>2, <1>3, <1>4

-----------------------------------------------------------------------------
(* What each step makes of the blocks of a mini-heap *)

LEMMA BlockFits ==
  ASSUME MemTypes, MemOK, NEW h \in Minis, NEW a \in Blocks(h)
  PROVE  /\ a \in Int /\ a \in Addr /\ size[a] \in Int /\ Frl <= size[a] /\ h + Hdr <= a /\ h < a
         /\ a + size[a] <= EndTag(h) /\ EndTag(h) <= Top /\ a + size[a] \in Blocks(h) \cup {EndTag(h)}
         /\ \A b \in Blocks(h) : (a < b => a + size[a] <= b) /\ (b < a => b + size[b] <= a)
<1>1. /\ a \in Int /\ a \in Addr /\ size[a] \in Int /\ h < a /\ EndTag(h) <= Top
      /\ EndTag(h) \in Int /\ Blocks(h) \in SUBSET Int
  BY BlocksAre, MiniIs DEF MemOK, Apart
<1>2. /\ Frl <= size[a] /\ h + Hdr <= a /\ a + size[a] \in Blocks(h) \cup {EndTag(h)}
      /\ \A b \in Blocks(h) : (a < b => a + size[a] <= b) /\ (b < a => b + size[b] <= a) /\ b < EndTag(h)
  BY MiniIs DEF Walk
<1> QED
  BY <1>1, <1>2

\* An address inside a block is no block, and not in use.
LEMMA InsideBlock ==
  ASSUME MemTypes, MemOK, NEW h \in Minis, NEW a \in Blocks(h), NEW n \in Int, a < n, n < a + size[a]
  PROVE  n \in Addr /\ Within(h, n) /\ n \notin Blocks(h) /\ size[n] = 0 /\ n \notin used /\ n # h
<1>1. /\ a \in Int /\ a \in Addr /\ size[a] \in Int /\ h < a /\ a + size[a] <= EndTag(h) /\ EndTag(h) <= Top
      /\ \A b \in Blocks(h) : (a < b => a + size[a] <= b)
  BY BlockFits
<1>2. n \in Addr /\ Within(h, n)
  <2>1. h \in Int /\ EndTag(h) \in Int /\ Top \in Int /\ 1 <= a
    BY <1>1, MiniIs, Sizes DEF Addr
  <2> QED
    BY <1>1, <2>1 DEF Addr, Within
<1>3. n \notin Blocks(h)
  BY <1>1
<1>4. size[n] = 0
  BY <1>2, <1>3 DEF Blocks, MemTypes
<1>5. n \notin used
  BY <1>4 DEF MemOK, Covered
<1> QED
  BY <1>1, <1>2, <1>3, <1>4, <1>5, MiniIs

Changed(h, B2, F2) ==
  /\ MemTypes' /\ MemOK' /\ Minis' = Minis
  /\ \A g \in Minis : EndTag(g)' = EndTag(g)
  /\ \A g \in Minis : g # h => Blocks(g)' = Blocks(g) /\ FreeIn(g)' = FreeIn(g)
  /\ Blocks(h)' = B2 /\ FreeIn(h)' = F2

LEMMA Surgery ==
  ASSUME MemTypes, MemTypes', MemOK, NEW h \in Minis, OnlyIn(h),
         NEW B2, NEW F2, Blocks(h)' = B2, FreeIn(h)' = F2,
         Walk(h, EndTag(h), B2, size'), Ring(h, F2, next', prev'), Joined(F2, size'),
         mh'[h].rover \in {h} \cup F2, mh'[h].numfree = Cardinality(F2),
         mh'[h].numalloc = Cardinality(B2 \cap used'), \A a \in used' : Within(h, a) => size'[a] > 0
  PROVE  Changed(h, B2, F2)
<1>1. EndTag(h)' = EndTag(h)
  BY DEF OnlyIn, EndTag
<1>2. MiniOK(h)' /\ Counted(h)'
  BY <1>1 DEF MiniOK, Counted
<1>3. used' \subseteq Addr
  BY DEF MemTypes
<1>4. /\ MemOK' /\ \A g \in Minis : EndTag(g)' = EndTag(g)
      /\ \A g \in Minis : g # h => Blocks(g)' = Blocks(g) /\ FreeIn(g)' = FreeIn(g)
  BY <1>2, <1>3, OnlyInKept
<1> QED
  BY <1>4 DEF Changed, OnlyIn

\* __MemAllocator splits a free block.
LEMMA CarveSplit ==
  ASSUME MemTypes, MemOK, NEW h \in Minis, NEW c \in FreeIn(h), NEW s \in Nat, Frl <= s,
         Frl <= size[c] - s, NEW b4 \in Nat,
         used' = used \cup {c}, build' = build /\ moved' = moved,
         mh' = [mh EXCEPT ![h] = [[mh[h] EXCEPT !.b4rover = b4, !.numalloc = @ + 1]
                                    EXCEPT !.rover = c + s]],
         size' = [size EXCEPT ![c] = s, ![c + s] = size[c] - s],
         next' = [next EXCEPT ![prev[c]] = c + s, ![c + s] = next[c], ![c] = 0],
         prev' = [prev EXCEPT ![next[c]] = c + s, ![c + s] = prev[c], ![c] = 0]
  PROVE  Changed(h, Blocks(h) \cup {c + s}, (FreeIn(h) \ {c}) \cup {c + s})
<1> DEFINE n == c + s
           B == Blocks(h)
           F == FreeIn(h)
           pp == prev[c]
           pn == next[c]
<1>0. /\ c \in B /\ c \in Addr /\ c \in Int /\ size[c] \in Int /\ n \in Int /\ c < n /\ n < c + size[c]
      /\ n \in Addr /\ Within(h, n) /\ Within(h, c) /\ n \notin B /\ size[n] = 0 /\ n \notin used /\ n # h
      /\ c \notin used /\ c # h /\ h \in Addr /\ h \in Int
  <2>1. c \in B /\ c \notin used /\ Within(h, c) /\ h < c
    BY BlocksAre
  <2>2. c \in Addr /\ c \in Int /\ size[c] \in Int
    BY <2>1, BlockFits
  <2>3. n \in Int /\ c < n /\ n < c + size[c]
    BY <2>2, Sizes
  <2>4. h \in Addr /\ h \in Int
    BY MiniTypes
  <2> QED
    BY <2>1, <2>2, <2>3, <2>4, InsideBlock
<1>1. /\ pp \in {h} \cup F /\ pn \in {h} \cup F /\ pp < c /\ pp \in Addr /\ pn \in Addr
      /\ pp \in Int /\ pn \in Int /\ (pn = h \/ c < pn) /\ pp # n /\ pn # n /\ pp # c /\ pn # c
      /\ (pp = h \/ Within(h, pp)) /\ (pn = h \/ Within(h, pn))
  <2>1. /\ Linked(h, F, next, prev, c) /\ pp \in Addr /\ pn \in Addr
        /\ (pp = h \/ Within(h, pp)) /\ (pn = h \/ Within(h, pn))
    BY LinkTypes
  <2>2. F \subseteq B
    BY BlocksAre
  <2> QED
    BY <1>0, <2>1, <2>2 DEF Linked
<1>2. pn = h \/ n < pn
  <2>1. CASE pn \in F
    <3>1. pn \in B /\ c < pn
      BY <1>0, <1>1, <2>1, BlocksAre
    <3>2. c + size[c] <= pn
      BY <3>1, <1>0, BlockFits
    <3> QED
      BY <1>0, <1>1, <3>2
  <2> QED
    BY <1>1, <2>1
<1> HIDE DEF n, B, F, pp, pn
<1>3. /\ size'[c] = s /\ size'[n] = size[c] - s
      /\ \A a \in Addr : a # c /\ a # n => size'[a] = size[a]
      /\ size' \in [Addr -> Nat]
  BY <1>0, Sizes DEF MemTypes, n
<1>4. /\ next'[pp] = n /\ next'[n] = pn /\ next' \in [Addr -> 0..Top]
      /\ \A a \in Addr : a # pp /\ a # n /\ a # c => next'[a] = next[a]
  <2>1. next' = [next EXCEPT ![pp] = n, ![n] = pn, ![c] = 0] /\ next \in [Addr -> 0..Top]
    BY DEF n, pp, pn, MemTypes
  <2>2. n \in 0..Top /\ pn \in 0..Top /\ 0 \in 0..Top
    BY <1>0, <1>1, Sizes DEF Addr
  <2> QED
    BY <1>0, <1>1, <2>1, <2>2
<1>5. /\ prev'[pn] = n /\ prev'[n] = pp /\ prev' \in [Addr -> 0..Top]
      /\ \A a \in Addr : a # pn /\ a # n /\ a # c => prev'[a] = prev[a]
  <2>1. prev' = [prev EXCEPT ![pn] = n, ![n] = pp, ![c] = 0] /\ prev \in [Addr -> 0..Top]
    BY DEF n, pp, pn, MemTypes
  <2>2. n \in 0..Top /\ pp \in 0..Top /\ 0 \in 0..Top
    BY <1>0, <1>1, Sizes DEF Addr
  <2> QED
    BY <1>0, <1>1, <2>1, <2>2
<1>6. /\ mh'[h].len = mh[h].len /\ mh'[h].rover = n /\ mh'[h].numfree = mh[h].numfree
      /\ mh'[h].numalloc = mh[h].numalloc + 1 /\ \A g \in Addr : g # h => mh'[g] = mh[g]
      /\ mh' \in [Addr -> MiniRec] /\ Minis' = Minis
      /\ \A g \in Addr : mh'[g].len = 0 => mh'[g] = NoMini
  <2> DEFINE r == mh[h]
             r2 == [[r EXCEPT !.b4rover = b4, !.numalloc = r.numalloc + 1] EXCEPT !.rover = n]
  <2>1. r \in MiniRec /\ mh' = [mh EXCEPT ![h] = r2] /\ n \in 0..Top
    BY <1>0, Sizes DEF n, MemTypes, Addr
  <2> HIDE DEF r
  <2>2. r2 \in MiniRec /\ r2.len = r.len /\ r2.rover = n /\ r2.numfree = r.numfree /\ r2.numalloc = r.numalloc + 1
    <3>1. DOMAIN r = {"len", "rover", "b4rover", "largest", "numalloc", "numfree"} /\ r.numalloc + 1 \in Int
      BY <2>1 DEF MiniRec
    <3>2. r \in MiniRec /\ n \in 0..Top
      BY <2>1
    <3> QED
      BY <3>1, <3>2 DEF MiniRec
  <2> HIDE DEF r2
  <2> QED
    BY <2>1, <2>2, MiniSet DEF r
<1>7. MemTypes'
  <2>1. build' \in Builds /\ moved' \in BOOLEAN /\ used' \subseteq Addr
    BY <1>0 DEF MemTypes
  <2> QED
    BY <1>3, <1>4, <1>5, <1>6, <2>1 DEF MemTypes
<1>8. OnlyIn(h)
  <2>2. \A a \in Addr : ~Within(h, a) => size'[a] = size[a] /\ (a \in used' <=> a \in used)
    BY <1>0, <1>3
  <2>3. \A a \in Addr : ~Within(h, a) /\ a # h => next'[a] = next[a] /\ prev'[a] = prev[a]
    BY <1>0, <1>1, <1>4, <1>5
  <2> QED
    BY <1>6, <2>2, <2>3, MiniTypes DEF OnlyIn
<1>9. Blocks(h)' = B \cup {n}
  <2>1. \A a : Within(h, a)' <=> Within(h, a)
    BY <1>6 DEF Within, EndTag
  <2>2. s > 0 /\ size[c] - s > 0
    BY <1>0, Sizes
  <2> QED
    BY <1>0, <1>3, <2>1, <2>2 DEF Blocks, B
<1>10. FreeIn(h)' = (F \ {c}) \cup {n}
  BY <1>0, <1>9 DEF FreeIn, F, B
<1>11. Walk(h, EndTag(h), B \cup {n}, size')
  <2>1. /\ EndTag(h) \in Int /\ B \in SUBSET Int /\ (\A a \in B : size[a] \in Int)
        /\ Walk(h, EndTag(h), B, size)
    BY MiniIs DEF B
  <2>2. /\ size'[c] = s /\ size'[c + s] = size[c] - s /\ s \in Int
        /\ \A a \in B : a # c => size'[a] = size[a]
    BY <1>0, <1>3, BlocksAre DEF n, B
  <2> QED
    <3>1. Split(h, EndTag(h), B, size, c, s, n, size')
      BY <1>0, <2>1, <2>2 DEF n, Split
    <3> QED
      BY <3>1, WalkSplit
<1>12. Ring(h, (F \ {c}) \cup {n}, next', prev') /\ n \notin F \ {c}
  <2>1. /\ F \in SUBSET Int /\ (\A a \in F : h < a) /\ Ring(h, F, next, prev) /\ c \in F
        /\ \A a \in {h} \cup F : a \in Addr /\ a # n
    BY <1>0, MiniIs, BlocksAre DEF F, B
  <2>2. /\ prev[c] < n /\ (next[c] = h \/ n < next[c])
        /\ next'[prev[c]] = n /\ next'[n] = next[c] /\ prev'[next[c]] = n /\ prev'[n] = prev[c]
        /\ \A a \in {h} \cup F : a # c /\ a # prev[c] => next'[a] = next[a]
        /\ \A a \in {h} \cup F : a # c /\ a # next[c] => prev'[a] = prev[a]
    BY <1>0, <1>1, <1>2, <1>4, <1>5, <2>1 DEF pp, pn
  <2> QED
    <3>1. Replaced(h, F, next, prev, c, n, next', prev')
      BY <1>0, <2>1, <2>2 DEF Replaced
    <3> QED
      BY <3>1, RingReplace
<1>13. Joined((F \ {c}) \cup {n}, size')
  <2>1. Joined(F, size) /\ c \in F /\ F \subseteq B
    BY MiniIs, BlocksAre DEF F, B
  <2>2. n + size'[n] = c + size[c]
    BY <1>0, <1>3 DEF n
  <2>3. \A a \in F : a + size[a] # n /\ a \in Addr /\ a # n
    <3>1. \A a \in F : a + size[a] \in B \cup {EndTag(h)} /\ a \in Addr /\ a \in B
      BY <2>1, BlockFits DEF B
    <3>2. n # EndTag(h)
      BY <1>0, MiniTypes DEF Within
    <3> QED
      BY <1>0, <3>1, <3>2
  <2> QED
    BY <1>0, <1>3, <2>1, <2>2, <2>3 DEF Joined
<1>14. mh'[h].numfree = Cardinality((F \ {c}) \cup {n})
  <2>1. F \in SUBSET Addr /\ c \in F /\ n \notin F \ {c} /\ F \ {c} \in SUBSET Addr
    BY <1>12, BlocksAre DEF F
  <2>2. Cardinality(F \ {c}) = Cardinality(F) - 1 /\ Cardinality(F) \in Int
    BY <2>1, CountRemove
  <2>3. Cardinality((F \ {c}) \cup {n}) = Cardinality(F \ {c}) + 1
    BY <2>1, CountAdd
  <2> QED
    <3>1. mh[h].numfree = Cardinality(F)
      BY MiniIs DEF Counted, F
    <3> QED
      BY <1>6, <2>2, <2>3, <3>1
<1>15. mh'[h].numalloc = Cardinality((B \cup {n}) \cap used')
  <2>1. (B \cup {n}) \cap used' = (B \cap used) \cup {c}
    BY <1>0
  <2>2. B \cap used \in SUBSET Addr /\ c \notin B \cap used
    BY <1>0, BlocksAre DEF B
  <2>3. Cardinality((B \cap used) \cup {c}) = Cardinality(B \cap used) + 1
    BY <2>2, CountAdd
  <2> QED
    BY <1>6, <2>1, <2>3, MiniIs DEF Counted, B
<1>16. \A a \in used' : Within(h, a) => size'[a] > 0
  <2>1. \A a \in used : size[a] > 0 /\ a # n /\ a # c /\ a \in Addr
    BY <1>0 DEF MemOK, Covered, MemTypes
  <2>2. s > 0
    BY Sizes
  <2> QED
    BY <1>3, <2>1, <2>2
<1>17. mh'[h].rover \in {h} \cup ((F \ {c}) \cup {n})
  BY <1>6
<1> QED
  BY <1>7, <1>8, <1>9, <1>10, <1>11, <1>12, <1>13, <1>14, <1>15, <1>16, <1>17, Surgery DEF n, B, F

\* __MemAllocator takes all of a free block.
LEMMA CarveWhole ==
  ASSUME MemTypes, MemOK, NEW h \in Minis, NEW c \in FreeIn(h), NEW b4 \in Nat,
         used' = used \cup {c}, build' = build /\ moved' = moved, size' = size,
         mh' = [mh EXCEPT ![h] = [[mh[h] EXCEPT !.b4rover = b4, !.numalloc = @ + 1]
                                    EXCEPT !.rover = prev[c], !.numfree = @ - 1]],
         next' = [next EXCEPT ![prev[c]] = next[c], ![c] = 0],
         prev' = [prev EXCEPT ![next[c]] = prev[c], ![c] = 0]
  PROVE  Changed(h, Blocks(h), FreeIn(h) \ {c})
<1> DEFINE B == Blocks(h)
           F == FreeIn(h)
           pp == prev[c]
           pn == next[c]
<1>0. /\ c \in B /\ c \in Addr /\ c \in Int /\ Within(h, c) /\ size[c] > 0
      /\ c \notin used /\ c # h /\ h \in Addr /\ h \in Int
  <2>1. c \in B /\ c \notin used /\ Within(h, c) /\ h < c /\ size[c] > 0
    BY BlocksAre
  <2>2. c \in Addr /\ c \in Int
    BY <2>1, BlockFits
  <2>3. h \in Addr /\ h \in Int
    BY MiniTypes
  <2> QED
    BY <2>1, <2>2, <2>3
<1>1. /\ pp \in {h} \cup F /\ pn \in {h} \cup F /\ pp < c /\ pp \in Addr /\ pn \in Addr
      /\ pp \in Int /\ pn \in Int /\ (pn = h \/ c < pn) /\ pp # c /\ pn # c
      /\ (pp = h \/ Within(h, pp)) /\ (pn = h \/ Within(h, pn))
  <2>1. /\ Linked(h, F, next, prev, c) /\ pp \in Addr /\ pn \in Addr
        /\ (pp = h \/ Within(h, pp)) /\ (pn = h \/ Within(h, pn))
    BY LinkTypes
  <2> QED
    BY <1>0, <2>1 DEF Linked
<1> HIDE DEF B, F, pp, pn
<1>4. /\ next'[pp] = pn /\ next' \in [Addr -> 0..Top]
      /\ \A a \in Addr : a # pp /\ a # c => next'[a] = next[a]
  <2>1. next' = [next EXCEPT ![pp] = pn, ![c] = 0] /\ next \in [Addr -> 0..Top]
    BY DEF pp, pn, MemTypes
  <2>2. pn \in 0..Top /\ 0 \in 0..Top
    BY <1>0, <1>1, Sizes DEF Addr
  <2> QED
    BY <1>0, <1>1, <2>1, <2>2
<1>5. /\ prev'[pn] = pp /\ prev' \in [Addr -> 0..Top]
      /\ \A a \in Addr : a # pn /\ a # c => prev'[a] = prev[a]
  <2>1. prev' = [prev EXCEPT ![pn] = pp, ![c] = 0] /\ prev \in [Addr -> 0..Top]
    BY DEF pp, pn, MemTypes
  <2>2. pp \in 0..Top /\ 0 \in 0..Top
    BY <1>0, <1>1, Sizes DEF Addr
  <2> QED
    BY <1>0, <1>1, <2>1, <2>2
<1>6. /\ mh'[h].len = mh[h].len /\ mh'[h].rover = pp /\ mh'[h].numfree = mh[h].numfree - 1
      /\ mh'[h].numalloc = mh[h].numalloc + 1 /\ \A g \in Addr : g # h => mh'[g] = mh[g]
      /\ mh' \in [Addr -> MiniRec] /\ Minis' = Minis
      /\ \A g \in Addr : mh'[g].len = 0 => mh'[g] = NoMini
  <2> DEFINE r == mh[h]
             r2 == [[r EXCEPT !.b4rover = b4, !.numalloc = r.numalloc + 1]
                      EXCEPT !.rover = pp, !.numfree = r.numfree - 1]
  <2>1. r \in MiniRec /\ pp \in 0..Top
    BY <1>0, <1>1, Sizes DEF MemTypes, Addr
  <2>0. mh' = [mh EXCEPT ![h] = r2]
    BY <2>1 DEF pp, MiniRec
  <2> HIDE DEF r
  <2>2. r2 \in MiniRec /\ r2.len = r.len /\ r2.rover = pp /\ r2.numfree = r.numfree - 1 /\ r2.numalloc = r.numalloc + 1
    <3>1. /\ DOMAIN r = {"len", "rover", "b4rover", "largest", "numalloc", "numfree"}
          /\ r.numalloc + 1 \in Int /\ r.numfree - 1 \in Int
      BY <2>1 DEF MiniRec
    <3> QED
      BY <2>1, <3>1 DEF MiniRec
  <2> HIDE DEF r2
  <2> QED
    BY <2>0, <2>1, <2>2, MiniSet DEF r
<1>7. MemTypes'
  <2>1. build' \in Builds /\ moved' \in BOOLEAN /\ used' \subseteq Addr /\ size' \in [Addr -> Nat]
    BY <1>0 DEF MemTypes
  <2> QED
    BY <1>4, <1>5, <1>6, <2>1 DEF MemTypes
<1>8. OnlyIn(h)
  <2>2. \A a \in Addr : ~Within(h, a) => size'[a] = size[a] /\ (a \in used' <=> a \in used)
    BY <1>0
  <2>3. \A a \in Addr : ~Within(h, a) /\ a # h => next'[a] = next[a] /\ prev'[a] = prev[a]
    BY <1>0, <1>1, <1>4, <1>5
  <2> QED
    BY <1>6, <2>2, <2>3, MiniTypes DEF OnlyIn
<1>9. Blocks(h)' = B
  <2>1. \A a : Within(h, a)' <=> Within(h, a)
    BY <1>6 DEF Within, EndTag
  <2> QED
    BY <2>1 DEF Blocks, B
<1>10. FreeIn(h)' = F \ {c}
  BY <1>0, <1>9 DEF FreeIn, F, B
<1>11. Walk(h, EndTag(h), B, size')
  BY MiniIs DEF B
<1>12. Ring(h, F \ {c}, next', prev')
  <2>1. /\ F \in SUBSET Int /\ (\A a \in F : h < a) /\ Ring(h, F, next, prev) /\ c \in F
        /\ \A a \in {h} \cup F : a \in Addr
    BY <1>0, MiniIs, BlocksAre DEF F, B
  <2>2. /\ next'[prev[c]] = next[c] /\ prev'[next[c]] = prev[c]
        /\ \A a \in {h} \cup F : a # c /\ a # prev[c] => next'[a] = next[a]
        /\ \A a \in {h} \cup F : a # c /\ a # next[c] => prev'[a] = prev[a]
    BY <1>0, <1>1, <1>4, <1>5, <2>1 DEF pp, pn
  <2>3. Removed(h, F, next, prev, c, next', prev')
    BY <1>0, <2>1, <2>2 DEF Removed
  <2> QED
    BY <2>3, RingRemove
<1>13. Joined(F \ {c}, size')
  BY MiniIs DEF Joined, F
<1>14. mh'[h].numfree = Cardinality(F \ {c})
  <2>1. F \in SUBSET Addr /\ c \in F
    BY BlocksAre DEF F
  <2>2. Cardinality(F \ {c}) = Cardinality(F) - 1 /\ Cardinality(F) \in Int
    BY <2>1, CountRemove
  <2>3. mh[h].numfree = Cardinality(F)
    BY MiniIs DEF Counted, F
  <2> QED
    BY <1>6, <2>2, <2>3
<1>15. mh'[h].numalloc = Cardinality(B \cap used')
  <2>1. B \cap used' = (B \cap used) \cup {c}
    BY <1>0
  <2>2. B \cap used \in SUBSET Addr /\ c \notin B \cap used
    BY <1>0, BlocksAre DEF B
  <2>3. Cardinality((B \cap used) \cup {c}) = Cardinality(B \cap used) + 1
    BY <2>2, CountAdd
  <2> QED
    BY <1>6, <2>1, <2>3, MiniIs DEF Counted, B
<1>16. \A a \in used' : Within(h, a) => size'[a] > 0
  BY <1>0 DEF MemOK, Covered
<1>17. mh'[h].rover \in {h} \cup (F \ {c})
  BY <1>1, <1>6
<1> QED
  BY <1>7, <1>8, <1>9, <1>10, <1>11, <1>12, <1>13, <1>14, <1>15, <1>16, <1>17, Surgery DEF B, F

\* What such a step must do: new blocks, links and counts of h, nothing else.
Edited(h, r, B2, F2) ==
  /\ build' = build /\ moved' = moved /\ used' \subseteq Addr /\ size' \in [Addr -> Nat]
  /\ next' \in [Addr -> 0..Top] /\ prev' \in [Addr -> 0..Top]
  /\ mh' = [mh EXCEPT ![h] = r] /\ r \in MiniRec /\ r.len = mh[h].len
  /\ \A a \in Addr : ~Within(h, a) => size'[a] = size[a] /\ (a \in used' <=> a \in used)
  /\ \A a \in Addr : ~Within(h, a) /\ a # h => next'[a] = next[a] /\ prev'[a] = prev[a]
  /\ B2 \subseteq Addr
  /\ \A a \in Addr : a \in B2 <=> Within(h, a) /\ size'[a] > 0
  /\ F2 = B2 \ used'
  /\ \A a \in used' : Within(h, a) => a \in B2
  /\ Walk(h, EndTag(h), B2, size') /\ Ring(h, F2, next', prev') /\ Joined(F2, size')
  /\ r.rover \in {h} \cup F2
  /\ r.numfree = Cardinality(F2) /\ r.numalloc = Cardinality(B2 \cap used')
LEMMA Edit ==
  ASSUME MemTypes, MemOK, NEW h \in Minis, NEW r, NEW B2, NEW F2, Edited(h, r, B2, F2)
  PROVE  Changed(h, B2, F2) /\ mh'[h] = r /\ \A g \in Addr : g # h => mh'[g] = mh[g]
<1>1. /\ mh'[h] = r /\ \A g \in Addr : g # h => mh'[g] = mh[g]
      /\ mh' \in [Addr -> MiniRec] /\ Minis' = Minis
      /\ \A g \in Addr : mh'[g].len = 0 => mh'[g] = NoMini
  BY MiniSet DEF Edited
<1>2. MemTypes'
  BY <1>1 DEF Edited, MemTypes
<1>3. OnlyIn(h)
  BY <1>1, MiniTypes DEF Edited, OnlyIn
<1>4. Blocks(h)' = B2
  <2>1. \A a : Within(h, a)' <=> Within(h, a)
    BY <1>1 DEF Within, EndTag, Edited
  <2> QED
    BY <2>1 DEF Blocks, Edited
<1>5. FreeIn(h)' = F2
  BY <1>4 DEF FreeIn, Edited
<1>6. \A a \in used' : Within(h, a) => size'[a] > 0
  BY DEF Edited
<1>7. Changed(h, B2, F2)
  BY <1>1, <1>2, <1>3, <1>4, <1>5, <1>6, Surgery DEF Edited
<1> QED
  BY <1>1, <1>7

-----------------------------------------------------------------------------
(* __MemFree *)

\* Where __MemFree( f ) may be in finding the entry that will follow f: it has
\* found it; or it comes to entries in order, none of them passed that is
\* behind f; or it comes to blocks in order, no free one passed.
Found(h, f, n) ==
  IF Takes(h, f) THEN n = next[Behind(f)]
  ELSE n \in {h} \cup FreeIn(h) /\ (n = h \/ f < n) /\ prev[n] < f
Searching(h, f, n) ==
  ~Takes(h, f) /\ n \in {h} \cup FreeIn(h) /\ (n < f \/ prev[n] < f)
Skipping(h, f, n) ==
  /\ ~Takes(h, f) /\ n \in Blocks(h) \cup {EndTag(h)} /\ f < n
  /\ \A b \in FreeIn(h) : f < b => n <= b
LookRec == [at : {"start", "skip", "search", "link", "astray"}, pnext : 0..Top, left : Nat]
LookedIn(h, f, l) ==
  /\ l.at = "link" => Found(h, f, l.pnext)
  /\ l.at = "search" => Searching(h, f, l.pnext)
  /\ l.at = "skip" => Skipping(h, f, l.pnext)
Looking ==
  /\ look \in LookRec
  /\ call.at # "nfree" => look = NoLook
  /\ call.at = "nfree" => LookedIn(MiniOf(call.pcur), call.pcur, look)

LEMMA AtIs ==
  ASSUME NEW w \in {"start", "skip", "search", "link", "astray"}, NEW n \in 0..Top
  PROVE  At(w, n) \in LookRec /\ At(w, n).at = w /\ At(w, n).pnext = n
BY DEF At, LookRec

\* What is known of a block in use and of the free blocks about it.
LEMMA FreeingBlock ==
  ASSUME MemTypes, MemOK, NEW h \in Minis, NEW f \in Blocks(h), f \in used
  PROVE  /\ f \in Int /\ h \in Int /\ h < f /\ h \in Addr /\ f \notin FreeIn(h) /\ EndTag(h) \in 0..Top
         /\ \A a \in {h} \cup FreeIn(h) : /\ a \in Addr /\ a \in Int /\ a # f /\ a \in 0..Top /\ a # 0
                                          /\ next[a] \in {h} \cup FreeIn(h) /\ prev[a] \in {h} \cup FreeIn(h)
                                          /\ prev[next[a]] = a
                                          /\ (a = h \/ (prev[a] < a /\ h < a))
                                          /\ \A b \in FreeIn(h) : prev[a] < b => a <= b \/ a = h
         /\ mh[h].rover \in {h} \cup FreeIn(h) /\ mh[h].numalloc \in Nat /\ mh[h].numfree \in Nat
<1>1. f \in Int /\ h \in Int /\ h < f /\ h \in Addr /\ f \notin FreeIn(h) /\ EndTag(h) \in Int /\ EndTag(h) <= Top /\ h < EndTag(h)
  BY BlockFits, MiniTypes, BlocksAre DEF FreeIn, Within, Minis
<1>2. EndTag(h) \in 0..Top
  BY <1>1, Sizes DEF Addr
<1>3. \A a \in {h} \cup FreeIn(h) : Linked(h, FreeIn(h), next, prev, a) /\ a \in Addr /\ (a = h \/ h < a)
  BY LinkTypes, BlocksAre
<1>4. ASSUME NEW a \in {h} \cup FreeIn(h)
      PROVE  /\ a \in Addr /\ a \in Int /\ a # f /\ a \in 0..Top /\ a # 0
             /\ next[a] \in {h} \cup FreeIn(h) /\ prev[a] \in {h} \cup FreeIn(h)
             /\ prev[next[a]] = a
             /\ (a = h \/ (prev[a] < a /\ h < a))
             /\ \A b \in FreeIn(h) : prev[a] < b => a <= b \/ a = h
  <2>1. a \in Addr /\ a \in Int /\ a # f /\ a \in 0..Top /\ a # 0 /\ (a = h \/ h < a)
    BY <1>1, <1>3, Sizes DEF Addr
  <2>2. Linked(h, FreeIn(h), next, prev, a) /\ Linked(h, FreeIn(h), next, prev, prev[a])
    <3>1. Linked(h, FreeIn(h), next, prev, a)
      BY <1>3
    <3> QED
      BY <1>3, <3>1 DEF Linked
  <2>3. \A b \in FreeIn(h) : prev[a] < b => a <= b \/ a = h
    BY <2>2 DEF Linked
  <2>4. /\ next[a] \in {h} \cup FreeIn(h) /\ prev[a] \in {h} \cup FreeIn(h)
        /\ prev[next[a]] = a /\ (a = h \/ prev[a] < a)
    BY <2>1, <2>2 DEF Linked
  <2> QED
    BY <2>1, <2>3, <2>4
<1>5. mh[h].rover \in {h} \cup FreeIn(h) /\ mh[h].numfree = Cardinality(FreeIn(h)) /\ mh[h].numalloc = Cardinality(Blocks(h) \cap used)
  BY MiniIs DEF Counted
<1>6. FreeIn(h) \in SUBSET Addr /\ Blocks(h) \cap used \in SUBSET Addr
  BY BlocksAre
<1>7. mh[h].numalloc \in Nat /\ mh[h].numfree \in Nat
  BY <1>5, <1>6, AddrFinite, FS_CardinalityType
<1> QED
  BY <1>1, <1>2, <1>4, <1>5, <1>7

LEMMA SpecialIs ==
  ASSUME MemTypes, MemOK, NEW h \in Minis, NEW f \in Blocks(h), f \in used, ~Takes(h, f), Special(h, f) # 0
  PROVE  Found(h, f, Special(h, f)) /\ Special(h, f) \in 0..Top
<1> DEFINE rv == mh[h].rover
<1>1. rv \in {h} \cup FreeIn(h) /\ next[h] \in {h} \cup FreeIn(h) /\ next[rv] \in {h} \cup FreeIn(h)
  BY FreeingBlock
<1>2. Special(h, f) \in {h, rv, next[h], next[rv]}
  BY DEF Special
<1>3. Special(h, f) \in {h} \cup FreeIn(h)
  BY <1>1, <1>2
<1>4. prev[next[h]] = h /\ prev[next[rv]] = rv /\ prev[h] \in Int /\ prev[rv] \in Int /\ rv \in Int /\ rv # f /\ f \in Int
      /\ next[h] \in Int /\ next[rv] \in Int /\ h < f /\ h \in Int
  BY <1>1, FreeingBlock
<1>5. (Special(h, f) = h \/ f < Special(h, f)) /\ prev[Special(h, f)] < f
  <2>1. CASE f < rv /\ f > prev[rv]
    BY <1>4, <2>1 DEF Special
  <2>2. CASE f < rv /\ ~(f > prev[rv])
    <3>1. Special(h, f) = next[h] /\ f < next[h]
      BY <2>2 DEF Special
    <3> QED
      BY <1>4, <3>1
  <2>3. CASE ~(f < rv) /\ f < next[rv]
    <3>1. Special(h, f) = next[rv]
      BY <2>3 DEF Special
    <3> QED
      BY <1>4, <2>3, <3>1
  <2>4. CASE ~(f < rv) /\ ~(f < next[rv])
    <3>1. Special(h, f) = h /\ f > prev[h]
      BY <2>4 DEF Special
    <3> QED
      BY <1>4, <3>1
  <2> QED
    BY <2>1, <2>2, <2>3, <2>4
<1> QED
  BY <1>3, <1>5, FreeingBlock DEF Found

LEMMA SearchStarts ==
  ASSUME MemTypes, MemOK, NEW h \in Minis, NEW f \in Blocks(h), f \in used, ~Takes(h, f)
  PROVE  Search(h, f) \in LookRec /\ LookedIn(h, f, Search(h, f))
<1> DEFINE n == IF f < mh[h].rover THEN next[h] ELSE mh[h].rover
<1>1. n \in {h} \cup FreeIn(h) /\ (n < f \/ prev[n] < f)
  <2>1. /\ mh[h].rover \in {h} \cup FreeIn(h) /\ next[h] \in {h} \cup FreeIn(h) /\ prev[next[h]] = h
        /\ mh[h].rover \in Int /\ mh[h].rover # f /\ f \in Int /\ h < f
    BY FreeingBlock
  <2> QED
    BY <2>1
<1>2. n \in 0..Top
  BY <1>1, FreeingBlock
<1>3. Search(h, f) \in LookRec /\ Search(h, f).at = "search" /\ Search(h, f).pnext = n
  BY <1>2, AtIs DEF Search
<1> QED
  BY <1>1, <1>3 DEF LookedIn, Searching

LEMMA SkipStarts ==
  ASSUME MemTypes, MemOK, NEW h \in Minis, NEW f \in Blocks(h), f \in used, ~Takes(h, f)
  PROVE  Skip(h, f) \in LookRec /\ LookedIn(h, f, Skip(h, f))
<1> DEFINE m == mh[h]
           average == m.numalloc \div (m.numfree + 1)
           n == Behind(f)
<1>1. average \in Nat
  <2>1. m.numalloc \in Nat /\ m.numfree + 1 \in Nat \ {0}
    BY FreeingBlock
  <2>2. \A a \in Nat, b \in Nat \ {0} : a \div b \in Nat
    OBVIOUS
  <2> QED
    BY <2>1, <2>2
<1>2. n \in Blocks(h) \cup {EndTag(h)} /\ f < n /\ n \in 0..Top
  <2>1. /\ f \in Int /\ size[f] \in Int /\ size[f] > 0 /\ n \in Blocks(h) \cup {EndTag(h)}
        /\ n <= EndTag(h) /\ EndTag(h) <= Top /\ f \in Addr
    BY BlockFits, BlocksAre DEF Behind
  <2>2. n \in Int /\ f < n
    BY <2>1 DEF Behind
  <2> QED
    BY <2>1, <2>2, FreeingBlock, Sizes DEF Addr
<1>3. \A b \in FreeIn(h) : f < b => n <= b
  BY BlockFits, BlocksAre DEF Behind
<1>4. Skip(h, f) \in LookRec /\ Skip(h, f).at = "skip" /\ Skip(h, f).pnext = n
  <2>1. At("skip", n) \in LookRec /\ At("skip", n).at = "skip" /\ At("skip", n).pnext = n
    BY <1>2, AtIs
  <2>2. 2 * average \in Nat
    BY <1>1
  <2>3. (IF m.numalloc <= 2 * m.numfree THEN 0 ELSE 2 * average) \in Nat
    BY <2>2
  <2>4. PICK x \in Nat : Skip(h, f) = [At("skip", n) EXCEPT !.left = x]
    BY <2>3 DEF Skip
  <2> HIDE DEF n
  <2> QED
    BY <2>1, <2>4 DEF LookRec
<1> QED
  BY <1>2, <1>3, <1>4 DEF LookedIn, Skipping

\* The block that a call of _nfree is about, and its mini-heap.
LEMMA FreeingIs ==
  ASSUME MemTypes, MemOK, Owned, call.at = "nfree"
  PROVE  /\ MiniOf(call.pcur) \in Minis /\ call.pcur \in Blocks(MiniOf(call.pcur)) /\ call.pcur \in used
         /\ call.pcur \in Addr
<1>1. call.pcur \in used /\ call.pcur \in Addr
  BY DEF Owned, Freeing, MemTypes
<1>2. size[call.pcur] > 0
  BY <1>1 DEF MemOK, Covered
<1> QED
  BY <1>1, <1>2, BlockIn

LookOn == UNCHANGED <<build, moved, blocks, rovers, curbrk, users, call>>
LEMMA LookNearIs ==
  ASSUME MemTypes, MemOK, NEW h \in Minis, NEW f \in Blocks(h), f \in used, LookNear, f = call.pcur, h = MiniOf(f)
  PROVE  look' \in LookRec /\ LookedIn(h, f, look') /\ LookOn /\ call.at = "nfree"
<1>1. LookOn /\ call.at = "nfree"
  BY DEF LookNear, LookOn
<1>2. CASE Takes(h, f)
  <2>1. look' = At("link", next[Behind(f)])
    BY <1>2 DEF LookNear
  <2>2. next[Behind(f)] \in 0..Top
    <3>1. Behind(f) \in Addr
      BY <1>2, BlockFits, MiniTypes, Sizes DEF Takes, Within, Behind, Addr
    <3> QED
      BY <3>1 DEF MemTypes
  <2>3. look' \in LookRec /\ look'.at = "link" /\ look'.pnext = next[Behind(f)]
    BY <2>1, <2>2, AtIs
  <2> QED
    BY <1>1, <1>2, <2>3 DEF LookedIn, Found
<1>3. CASE ~Takes(h, f) /\ Special(h, f) # 0
  <2>1. look' = At("link", Special(h, f))
    BY <1>3 DEF LookNear
  <2>2. Special(h, f) \in 0..Top /\ Found(h, f, Special(h, f))
    BY <1>3, SpecialIs
  <2>3. look' \in LookRec /\ look'.at = "link" /\ look'.pnext = Special(h, f)
    BY <2>1, <2>2, AtIs
  <2> QED
    BY <1>1, <2>2, <2>3 DEF LookedIn
<1>4. CASE ~Takes(h, f) /\ Special(h, f) = 0
  <2>1. look' = Skip(h, f) \/ look' = Search(h, f)
    BY <1>4 DEF LookNear
  <2> QED
    BY <1>1, <1>4, <2>1, SkipStarts, SearchStarts
<1> QED
  BY <1>2, <1>3, <1>4

LEMMA LookBehindIs ==
  ASSUME MemTypes, MemOK, NEW h \in Minis, NEW f \in Blocks(h), f \in used, LookBehind, f = call.pcur, h = MiniOf(f),
         look \in LookRec, LookedIn(h, f, look)
  PROVE  look' \in LookRec /\ LookedIn(h, f, look') /\ LookOn /\ call.at = "nfree"
<1> DEFINE n == look.pnext
<1>1. LookOn /\ call.at = "nfree" /\ look.at = "skip"
  BY DEF LookBehind, LookOn
<1>2. ~Takes(h, f) /\ n \in Blocks(h) \cup {EndTag(h)} /\ f < n /\ \A b \in FreeIn(h) : f < b => n <= b
  BY <1>1 DEF LookedIn, Skipping
<1>3. CASE n # EndTag(h) /\ n \notin used
  <2>0. n \in FreeIn(h)
    BY <1>2, <1>3 DEF FreeIn
  <2>a. look' = At("link", n)
    BY <1>3 DEF LookBehind
  <2>1. look' = At("link", n) /\ n \in FreeIn(h)
    BY <2>0, <2>a
  <2>2. /\ n \in 0..Top /\ prev[n] < n /\ n \in Int /\ prev[n] \in {h} \cup FreeIn(h)
        /\ prev[n] \in Int /\ prev[n] # f /\ f \in Int /\ h < f
    BY <2>1, FreeingBlock, BlocksAre
  <2>3. prev[n] < f
    <3>1. CASE prev[n] = h
      BY <2>2, <3>1
    <3>2. CASE prev[n] \in FreeIn(h)
      <4>1. f < prev[n] => n <= prev[n]
        BY <1>2, <3>2
      <4> QED
        BY <2>2, <4>1
    <3> QED
      BY <2>2, <3>1, <3>2
  <2>4. look' \in LookRec /\ look'.at = "link" /\ look'.pnext = n
    BY <2>1, <2>2, AtIs
  <2>5. Found(h, f, n)
    BY <1>2, <2>1, <2>3 DEF Found
  <2> QED
    BY <1>1, <2>4, <2>5 DEF LookedIn
<1>4. CASE n = EndTag(h) \/ (n \in used /\ look.left = 1)
  <2>1. look' = Search(h, f)
    BY <1>4 DEF LookBehind
  <2> QED
    BY <1>1, <1>2, <2>1, SearchStarts
<1>5. CASE n # EndTag(h) /\ n \in used /\ look.left # 1
  <2>1. look' = [look EXCEPT !.pnext = Behind(n), !.left = IF @ = 0 THEN 0 ELSE @ - 1]
    BY <1>5 DEF LookBehind
  <2>2. n \in Blocks(h)
    BY <1>2, <1>5
  <2>3. /\ n \in Int /\ size[n] \in Int /\ size[n] > 0 /\ Behind(n) \in Blocks(h) \cup {EndTag(h)}
        /\ Behind(n) <= EndTag(h) /\ EndTag(h) <= Top /\ f \in Int /\ h \in Int /\ h < f /\ 0 < f
    BY <2>2, BlockFits, BlocksAre, FreeingBlock DEF Behind, Addr
  <2>4. Behind(n) \in 0..Top /\ f < Behind(n) /\ n < Behind(n)
    BY <1>2, <2>3, FreeingBlock, Sizes DEF Behind
  <2>5. ASSUME NEW b \in FreeIn(h), f < b PROVE Behind(n) <= b
    <3>1. n <= b /\ b # n /\ b \in Blocks(h) /\ b \in Int
      BY <1>2, <1>5, <2>5, BlocksAre
    <3> QED
      BY <2>2, <2>3, <3>1, BlockFits DEF Behind
  <2>6. (IF look.left = 0 THEN 0 ELSE look.left - 1) \in Nat
    BY DEF LookRec
  <2>7. look' \in LookRec /\ look'.at = "skip" /\ look'.pnext = Behind(n)
    BY <1>1, <2>1, <2>4, <2>6 DEF LookRec
  <2>8. Skipping(h, f, Behind(n))
    BY <1>2, <2>3, <2>4, <2>5 DEF Skipping
  <2> QED
    BY <1>1, <2>7, <2>8 DEF LookedIn
<1> QED
  BY <1>2, <1>3, <1>4, <1>5

LEMMA LookInListIs ==
  ASSUME MemTypes, MemOK, NEW h \in Minis, NEW f \in Blocks(h), f \in used, LookInList, f = call.pcur, h = MiniOf(f),
         look \in LookRec, LookedIn(h, f, look)
  PROVE  look' \in LookRec /\ LookedIn(h, f, look') /\ LookOn /\ call.at = "nfree"
<1> DEFINE n == look.pnext
<1>1. LookOn /\ call.at = "nfree" /\ look.at = "search"
  BY DEF LookInList, LookOn
<1>2. ~Takes(h, f) /\ n \in {h} \cup FreeIn(h) /\ (n < f \/ prev[n] < f)
  BY <1>1 DEF LookedIn, Searching
<1>3. /\ n \in 0..Top /\ n \in Int /\ f \in Int /\ n # f /\ next[n] \in {h} \cup FreeIn(h) /\ next[n] \in 0..Top
      /\ prev[next[n]] = n
  BY <1>2, FreeingBlock
<1>4. CASE f < n
  <2>1. look' = At("link", n) /\ prev[n] < f
    BY <1>2, <1>3, <1>4 DEF LookInList
  <2>2. look' \in LookRec /\ look'.at = "link" /\ look'.pnext = n
    BY <1>3, <2>1, AtIs
  <2>3. Found(h, f, n)
    BY <1>2, <1>4, <2>1 DEF Found
  <2> QED
    BY <1>1, <2>2, <2>3 DEF LookedIn
<1>5. CASE ~(f < n)
  <2>1. look' = At("search", next[n]) /\ n < f
    BY <1>3, <1>5 DEF LookInList
  <2>2. look' \in LookRec /\ look'.at = "search" /\ look'.pnext = next[n]
    BY <1>3, <2>1, AtIs
  <2>3. Searching(h, f, next[n])
    BY <1>2, <1>3, <2>1 DEF Searching
  <2> QED
    BY <1>1, <2>2, <2>3 DEF LookedIn
<1> QED
  BY <1>4, <1>5

LEMMA LookAstrayIs ==
  ASSUME LookAstray
  PROVE  look' \in LookRec /\ LookOn /\ call.at = "nfree" /\ \A h, f : LookedIn(h, f, look')
<1>1. look' = At("astray", 0) /\ LookOn /\ call.at = "nfree" /\ 0 \in 0..Top
  BY Sizes DEF LookAstray, LookOn
<1>2. look' \in LookRec /\ look'.at = "astray"
  BY <1>1, AtIs
<1> QED
  BY <1>1, <1>2 DEF LookedIn

MiniOfRight == \A h \in Minis, a \in Addr : Within(h, a) => MiniOf(a) = h
LEMMA MiniOfAll == MemTypes /\ Apart => MiniOfRight
BY MiniOfIs DEF MiniOfRight
LEMMA MiniOfAllNext == MemTypes' /\ Apart' => MiniOfRight'
BY MiniOfAll, PTL

\* While the heap is only looked at, what is known of it remains so.
LEMMA LookKept ==
  ASSUME MemTypes, MemOK, NEW h \in Minis, NEW f \in Blocks(h), call.at = "nfree", f = call.pcur, f \in Addr, h = MiniOf(f),
         LookOn, look' \in LookRec, LookedIn(h, f, look')
  PROVE  Looking'
<1>1. mh' = mh /\ size' = size /\ used' = used /\ next' = next /\ prev' = prev /\ call' = call /\ build' = build /\ moved' = moved
  BY DEF LookOn, blocks
<1>2. Minis' = Minis /\ (\A g : EndTag(g)' = EndTag(g)) /\ (\A g, a : Within(g, a)' <=> Within(g, a))
  BY <1>1 DEF Minis, EndTag, Within
<1>3. Blocks(h)' = Blocks(h) /\ FreeIn(h)' = FreeIn(h) /\ Behind(f)' = Behind(f) /\ (Takes(h, f)' <=> Takes(h, f))
  BY <1>1, <1>2 DEF Blocks, FreeIn, Behind, Takes
<1>4. MiniOf(f)' = h
  <2>1. MemTypes' /\ Apart'
    BY <1>1, <1>2 DEF MemTypes, MemOK, Apart
  <2>2. h \in Minis' /\ Within(h, f)'
    BY <1>2 DEF Blocks
  <2> QED
    BY <2>1, <2>2, MiniOfAllNext DEF MiniOfRight
<1>5. LookedIn(h, f, look)'
  BY <1>1, <1>2, <1>3 DEF LookedIn, Found, Searching, Skipping
<1>6. LookedIn(MiniOf(call.pcur), call.pcur, look)'
  <2>1. call'.pcur = f
    BY <1>1
  <2>2. MiniOf(call.pcur)' = MiniOf(f)'
    BY <2>1
  <2> QED
    BY <1>4, <1>5, <2>1, <2>2
<1> QED
  BY <1>1, <1>6 DEF Looking

NextOf(h, f) == look.pnext
PrevOf(h, f) == IF Takes(h, f) THEN prev[Behind(f)] ELSE prev[NextOf(h, f)]
Joins(h, f) == PrevOf(h, f) # h /\ PrevOf(h, f) + size[PrevOf(h, f)] = f

\* Where the freed block comes in the list.
Placed(h, f, pp, pn) ==
  /\ pp \in {h} \cup FreeIn(h) /\ pn \in {h} \cup FreeIn(h) /\ pp < f /\ (pn = h \/ f < pn)
  /\ pp \in Addr /\ pn \in Addr /\ pp \in Int /\ pn \in Int
  /\ (pp = h \/ Within(h, pp)) /\ (pn = h \/ Within(h, pn))
  /\ Takes(h, f) => Behind(f) \in FreeIn(h) /\ next[Behind(f)] = pn /\ prev[Behind(f)] = pp
  /\ ~Takes(h, f) => Behind(f) \notin FreeIn(h) /\ next[pp] = pn /\ prev[pn] = pp
  /\ \A a \in FreeIn(h) : a + size[a] = f => a = pp
LEMMA FreePlace ==
  ASSUME MemTypes, MemOK, NEW h \in Minis, NEW f \in Blocks(h), f \in used, Found(h, f, look.pnext)
  PROVE  Placed(h, f, PrevOf(h, f), NextOf(h, f))
<1> DEFINE F == FreeIn(h)
           n == Behind(f)
           pp == PrevOf(h, f)
           pn == NextOf(h, f)
<1>0. /\ f \in Int /\ size[f] \in Int /\ 0 < size[f] /\ h \in Int /\ h < f /\ n \in Int /\ f < n
      /\ f \notin F /\ F \subseteq Blocks(h) /\ n \in Blocks(h) \cup {EndTag(h)}
      /\ \A b \in Blocks(h) : (f < b => n <= b) /\ (b < f => b + size[b] <= f) /\ b \in Int /\ h < b
      /\ \A a, b \in Blocks(h) : a < b => a + size[a] <= b /\ size[a] > 0 /\ size[a] \in Int
  BY BlockFits, MiniTypes, BlocksAre DEF FreeIn, Behind
<1>1. CASE Takes(h, f)
  <2>1. n \in F
    BY <1>0, <1>1, MiniTypes DEF Takes, Within, FreeIn
  <2>2. Linked(h, F, next, prev, n) /\ pn = next[n] /\ pp = prev[n]
    BY <1>1, <2>1, LinkTypes DEF NextOf, PrevOf, Found
  <2>3. /\ pp \in Addr /\ pn \in Addr
        /\ (pp = h \/ Within(h, pp)) /\ (pn = h \/ Within(h, pn))
    BY <2>1, <2>2, LinkTypes
  <2>4. /\ pp \in {h} \cup F /\ pn \in {h} \cup F /\ pp \in Int /\ pn \in Int /\ pp < n /\ (pn = h \/ n < pn)
        /\ \A b \in F : pp < b => n <= b
    BY <1>0, <2>1, <2>2 DEF Linked
  <2>5. pp < f
    <3>1. CASE pp = h
      BY <1>0, <3>1
    <3>2. CASE pp \in F
      <4>1. pp # f /\ pp \in Blocks(h)
        BY <1>0, <3>2
      <4>2. ~(f < pp)
        BY <1>0, <2>4, <4>1
      <4> QED
        BY <1>0, <2>4, <4>1, <4>2
    <3> QED
      BY <2>4, <3>1, <3>2
  <2>6. ASSUME NEW a \in F, a + size[a] = f
        PROVE  a = pp
    <3>1. a \in Blocks(h) /\ a \in Int /\ a < f
      <4>1. a \in Blocks(h) /\ a \in Int
        BY <1>0
      <4>2. size[a] > 0 /\ size[a] \in Int
        BY <4>1, BlocksAre
      <4> QED
        BY <2>6, <4>1, <4>2
    <3>2. ~(pp < a)
      BY <1>0, <2>4, <3>1
    <3>3. ~(a < pp)
      <4> SUFFICES ASSUME a < pp PROVE FALSE
        OBVIOUS
      <4>1. pp \in Blocks(h)
        BY <1>0, <2>4, <3>1
      <4>2. a + size[a] <= pp
        BY <1>0, <3>1, <4>1
      <4> QED
        BY <1>0, <2>4, <2>5, <2>6, <4>2
    <3> QED
      BY <2>4, <3>1, <3>2, <3>3
  <2> QED
    BY <1>0, <1>1, <2>1, <2>2, <2>3, <2>4, <2>5, <2>6 DEF Placed
<1>2. CASE ~Takes(h, f)
  <2>1. n \notin F
    BY <1>0, <1>2, BlocksAre DEF Takes
  <2>2. pn = look.pnext /\ pp = prev[pn]
    BY <1>2 DEF NextOf, PrevOf
  <2>3. /\ pn \in {h} \cup F /\ (pn = h \/ f < pn) /\ pp < f
    BY <1>2, <2>2 DEF Found
  <2>4. /\ Linked(h, F, next, prev, pn) /\ pp \in Addr /\ pn \in Addr
        /\ (pp = h \/ Within(h, pp)) /\ (pn = h \/ Within(h, pn))
    <3> HIDE DEF pn, pp
    <3>1. /\ Linked(h, F, next, prev, pn) /\ prev[pn] \in Addr /\ pn \in Addr
          /\ (prev[pn] = h \/ Within(h, prev[pn]))
      BY <2>3, LinkTypes
    <3>2. pn = h \/ Within(h, pn)
      BY <2>3, BlocksAre
    <3> QED
      BY <2>2, <3>1, <3>2
  <2>5. pp \in {h} \cup F /\ next[pp] = pn /\ pn \in Int /\ pp \in Int
    BY <2>2, <2>4 DEF Linked
  <2>6. \A b \in F : pp < b => pn # h /\ pn <= b
    <3>1. Linked(h, F, next, prev, pp)
      BY <2>5, LinkTypes
    <3> QED
      BY <2>5, <3>1 DEF Linked
  <2>7. ASSUME NEW a \in F, a + size[a] = f
        PROVE  a = pp
    <3>1. a \in Blocks(h) /\ a \in Int /\ a < f /\ h < a
      <4>1. a \in Blocks(h) /\ a \in Int /\ h < a
        BY <1>0
      <4>2. size[a] > 0 /\ size[a] \in Int
        BY <4>1, BlocksAre
      <4> QED
        BY <2>7, <4>1, <4>2
    <3>2. ~(pp < a)
      BY <1>0, <2>3, <2>5, <2>6, <3>1
    <3>3. ~(a < pp)
      <4> SUFFICES ASSUME a < pp PROVE FALSE
        OBVIOUS
      <4>1. pp \in Blocks(h)
        BY <1>0, <2>5, <3>1
      <4>2. a + size[a] <= pp
        BY <1>0, <3>1, <4>1
      <4> QED
        BY <1>0, <2>3, <2>5, <2>7, <4>2
    <3> QED
      BY <2>5, <3>1, <3>2, <3>3
  <2> QED
    BY <1>2, <2>1, <2>2, <2>3, <2>4, <2>5, <2>7 DEF Placed
<1> QED
  BY <1>1, <1>2

Gone(h, f) == (IF Takes(h, f) THEN {Behind(f)} ELSE {}) \cup (IF Joins(h, f) THEN {f} ELSE {})
FreedAt(h, f) == IF Joins(h, f) THEN PrevOf(h, f) ELSE f
FreedLen(h, f) ==
  LET len1 == IF Takes(h, f) THEN size[f] + size[Behind(f)] ELSE size[f]
  IN  IF Joins(h, f) THEN size[PrevOf(h, f)] + len1 ELSE len1
FreedRover(h, f) ==
  LET rv1 == IF Takes(h, f) /\ mh[h].rover = Behind(f) THEN f ELSE mh[h].rover
  IN  IF Joins(h, f) /\ rv1 = f THEN PrevOf(h, f) ELSE rv1
FreedMini(h, f) ==
  LET free0 == IF Takes(h, f) THEN mh[h].numfree - 1 ELSE mh[h].numfree
  IN  [mh[h] EXCEPT
         !.rover = FreedRover(h, f),
         !.numfree = IF Joins(h, f) THEN free0 ELSE free0 + 1,
         !.numalloc = @ - 1,
         !.b4rover = IF FreedAt(h, f) < FreedRover(h, f) THEN Bigger(@, FreedLen(h, f)) ELSE @,
         !.largest = Bigger(@, FreedLen(h, f))]

\* What MemFree does, entry by entry.
FreedHeap(h, f, pp, pn) ==
  /\ used' = used \ {f} /\ mh' = [mh EXCEPT ![h] = FreedMini(h, f)]
  /\ \A a \in Addr : size'[a] = IF a \in Gone(h, f) THEN 0
                                ELSE IF a = FreedAt(h, f) THEN FreedLen(h, f) ELSE size[a]
  /\ \A a \in Addr : next'[a] = IF a \in Gone(h, f) THEN 0
                                ELSE IF a = pp /\ ~Joins(h, f) THEN f
                                ELSE IF a = FreedAt(h, f) THEN pn ELSE next[a]
  /\ \A a \in Addr : prev'[a] = IF a \in Gone(h, f) THEN 0
                                ELSE IF a = pn THEN FreedAt(h, f)
                                ELSE IF a = f THEN pp ELSE prev[a]
  /\ DOMAIN size' = Addr /\ DOMAIN next' = Addr /\ DOMAIN prev' = Addr
  /\ size' = [a \in Addr |-> size'[a]] /\ next' = [a \in Addr |-> next'[a]] /\ prev' = [a \in Addr |-> prev'[a]]

LEMMA MemFreeIs ==
  ASSUME MemTypes, MemOK, NEW h \in Minis, NEW f \in Blocks(h), f \in Addr, MemFree(h, f),
         NEW pp, pp = PrevOf(h, f), NEW pn, pn = NextOf(h, f), Placed(h, f, pp, pn)
  PROVE  FreedHeap(h, f, pp, pn)
<1> DEFINE n == Behind(f)
           took == Takes(h, f)
           joins == Joins(h, f)
           f2 == FreedAt(h, f)
           len2 == FreedLen(h, f)
           clear(g) == [a \in Addr |-> IF (took /\ a = n) \/ (joins /\ a = f) THEN 0 ELSE g[a]]
<1>a. used' = used \ {f} /\ size' = clear([size EXCEPT ![f2] = len2])
  BY DEF MemFree, Takes, Behind, NextOf, PrevOf, Joins, FreedAt, FreedLen
<1>b. next' = clear(IF joins THEN [next EXCEPT ![PrevOf(h, f)] = NextOf(h, f)]
                             ELSE [next EXCEPT ![f] = NextOf(h, f), ![PrevOf(h, f)] = f])
  BY DEF MemFree, Takes, Behind, NextOf, PrevOf, Joins, FreedAt, FreedLen
<1>c. prev' = clear(IF joins THEN [prev EXCEPT ![NextOf(h, f)] = PrevOf(h, f)]
                             ELSE [prev EXCEPT ![f] = PrevOf(h, f), ![NextOf(h, f)] = f])
  BY DEF MemFree, Takes, Behind, NextOf, PrevOf, Joins, FreedAt, FreedLen
<1>1. /\ used' = used \ {f}
      /\ size' = clear([size EXCEPT ![f2] = len2])
      /\ next' = clear(IF joins THEN [next EXCEPT ![pp] = pn] ELSE [next EXCEPT ![f] = pn, ![pp] = f])
      /\ prev' = clear(IF joins THEN [prev EXCEPT ![pn] = pp] ELSE [prev EXCEPT ![f] = pp, ![pn] = f])
  BY <1>a, <1>b, <1>c
<1>2. mh' = [mh EXCEPT ![h] = FreedMini(h, f)]
  BY DEF MemFree, Takes, Behind, NextOf, PrevOf, Joins, FreedAt, FreedLen, FreedRover, FreedMini
<1>3. \A a : a \in Gone(h, f) <=> (took /\ a = n) \/ (joins /\ a = f)
  BY DEF Gone
<1>4. /\ pp \in Addr /\ pn \in Addr /\ pp # f /\ f2 \in Addr /\ f2 = (IF joins THEN pp ELSE f)
      /\ size \in [Addr -> Nat] /\ next \in [Addr -> 0..Top] /\ prev \in [Addr -> 0..Top]
  BY DEF Placed, FreedAt, MemTypes
<1> HIDE DEF n, took, joins, f2, len2
<1>5. /\ \A a \in Addr : size'[a] = IF a \in Gone(h, f) THEN 0 ELSE IF a = f2 THEN len2 ELSE size[a]
      /\ DOMAIN size' = Addr /\ size' = [a \in Addr |-> size'[a]]
  BY <1>1, <1>3, <1>4
<1>6. /\ \A a \in Addr : next'[a] = IF a \in Gone(h, f) THEN 0
                                    ELSE IF a = pp /\ ~joins THEN f
                                    ELSE IF a = f2 THEN pn ELSE next[a]
      /\ DOMAIN next' = Addr /\ next' = [a \in Addr |-> next'[a]]
  BY <1>1, <1>3, <1>4
<1>7. /\ \A a \in Addr : prev'[a] = IF a \in Gone(h, f) THEN 0
                                    ELSE IF a = pn THEN f2
                                    ELSE IF a = f THEN pp ELSE prev[a]
      /\ DOMAIN prev' = Addr /\ prev' = [a \in Addr |-> prev'[a]]
  <2>1. pn # f
    BY BlocksAre, MiniTypes DEF Placed
  <2> QED
    BY <1>1, <1>3, <1>4, <2>1
<1> QED
  BY <1>1, <1>2, <1>5, <1>6, <1>7 DEF FreedHeap, joins, f2, len2

\* The blocks that __MemFree leaves.
FreedBlocks(h, f) == Blocks(h) \ Gone(h, f)
FreedList(h, f) == (FreeIn(h) \ Gone(h, f)) \cup {FreedAt(h, f)}
Freeable(h, f, pp, pn) ==
  /\ f \in Blocks(h) /\ f \in used
  /\ pp = PrevOf(h, f) /\ pn = NextOf(h, f) /\ Placed(h, f, pp, pn)

LEMMA FreedFacts ==
  ASSUME MemTypes, MemOK, NEW h \in Minis, NEW f, NEW pp, NEW pn, Freeable(h, f, pp, pn)
  PROVE  /\ f \in Addr /\ f \in Int /\ h \in Int /\ h < f /\ f \notin FreeIn(h) /\ Within(h, f) /\ pp # f /\ pn # f
         /\ size[f] \in Int /\ 0 < size[f] /\ Behind(f) \in Int /\ f < Behind(f) /\ Behind(f) = f + size[f]
         /\ Takes(h, f) => /\ Behind(f) \in FreeIn(h) /\ Behind(f) \in Blocks(h) /\ Behind(f) \notin used
                           /\ size[Behind(f)] \in Int /\ size[Behind(f)] > 0
                           /\ pp # Behind(f) /\ pn # Behind(f)
         /\ Joins(h, f) => pp \in FreeIn(h) /\ pp \in Blocks(h) /\ pp + size[pp] = f /\ size[pp] \in Int /\ size[pp] > 0
         /\ Gone(h, f) \subseteq Blocks(h) /\ FreedAt(h, f) \in FreedBlocks(h, f)
         /\ h \notin Gone(h, f) /\ pp \notin Gone(h, f) /\ pn \notin Gone(h, f)
         /\ \A a : a \in Gone(h, f) <=> (Takes(h, f) /\ a = Behind(f)) \/ (Joins(h, f) /\ a = f)
<1>1. /\ f \in Addr /\ f \in Int /\ h \in Int /\ h < f /\ f \notin FreeIn(h) /\ Within(h, f)
      /\ size[f] \in Int /\ 0 < size[f] /\ Behind(f) \in Int /\ f < Behind(f) /\ Behind(f) = f + size[f]
  BY BlockFits, MiniTypes, BlocksAre DEF Freeable, FreeIn, Behind
<1>2. Placed(h, f, pp, pn)
  BY DEF Freeable
<1>3. pp # f /\ pn # f
  BY <1>1, <1>2 DEF Placed
<1>4. ASSUME Takes(h, f)
      PROVE  /\ Behind(f) \in FreeIn(h) /\ Behind(f) \in Blocks(h) /\ Behind(f) \notin used
             /\ size[Behind(f)] \in Int /\ size[Behind(f)] > 0
             /\ pp # Behind(f) /\ pn # Behind(f)
  <2>1. Behind(f) \in FreeIn(h) /\ next[Behind(f)] = pn /\ prev[Behind(f)] = pp
    BY <1>2, <1>4 DEF Placed
  <2>2. Linked(h, FreeIn(h), next, prev, Behind(f))
    BY <2>1, LinkTypes
  <2>3. pp # Behind(f) /\ pn # Behind(f)
    <3>1. Behind(f) \in Int /\ Behind(f) # h
      BY <1>1
    <3>2. pn # h => Behind(f) < pn
      BY <2>1, <2>2 DEF Linked
    <3>3. prev[Behind(f)] < Behind(f)
      BY <2>2, <3>1 DEF Linked
    <3> QED
      BY <2>1, <3>1, <3>2, <3>3
  <2> QED
    BY <2>1, <2>3, BlocksAre DEF FreeIn
<1>5. ASSUME Joins(h, f)
      PROVE  pp \in FreeIn(h) /\ pp \in Blocks(h) /\ pp + size[pp] = f /\ size[pp] \in Int /\ size[pp] > 0
  <2>1. pp \in FreeIn(h) /\ pp + size[pp] = f
    BY <1>2, <1>5 DEF Joins, Freeable, Placed
  <2> QED
    BY <2>1, BlocksAre
<1>6. \A a : a \in Gone(h, f) <=> (Takes(h, f) /\ a = Behind(f)) \/ (Joins(h, f) /\ a = f)
  BY DEF Gone
<1>7. Gone(h, f) \subseteq Blocks(h) /\ pp \notin Gone(h, f) /\ pn \notin Gone(h, f)
  BY <1>3, <1>4, <1>6 DEF Freeable
<1>8. h \notin Gone(h, f)
  <2>1. \A a \in Blocks(h) : h < a
    BY BlocksAre
  <2> QED
    BY <1>1, <1>7, <2>1
<1>9. FreedAt(h, f) \in FreedBlocks(h, f)
  <2>1. CASE Joins(h, f)
    BY <1>5, <1>7, <2>1 DEF FreedAt, FreedBlocks, Freeable
  <2>2. CASE ~Joins(h, f)
    <3>1. f \notin Gone(h, f)
      BY <1>1, <1>6, <2>2
    <3> QED
      BY <2>2, <3>1 DEF FreedAt, FreedBlocks, Freeable
  <2> QED
    BY <2>1, <2>2
<1> QED
  BY <1>1, <1>3, <1>4, <1>5, <1>6, <1>7, <1>8, <1>9

LEMMA FreedWalk ==
  ASSUME MemTypes, MemOK, NEW h \in Minis, NEW f, NEW pp, NEW pn, Freeable(h, f, pp, pn),
         FreedHeap(h, f, pp, pn)
  PROVE  Walk(h, EndTag(h), FreedBlocks(h, f), size')
<1> DEFINE B == Blocks(h)
           n == Behind(f)
           e == EndTag(h)
           mid == [a \in B |-> IF a = f THEN size[f] + size[n] ELSE size[a]]
<1>1. /\ h \in Int /\ e \in Int /\ B \in SUBSET Int /\ (\A a \in B : size[a] \in Int)
      /\ Walk(h, e, B, size)
  BY MiniIs
<1>2. /\ f \in B /\ n = f + size[f] /\ (Takes(h, f) => n \in B /\ size[n] \in Int)
      /\ size[f] \in Int /\ (Joins(h, f) => pp \in B /\ pp + size[pp] = f /\ pp # n /\ size[pp] \in Int)
      /\ f # n /\ pp # f
  BY FreedFacts DEF Freeable
<1>3. /\ B \subseteq Addr
      /\ \A a \in Addr : size'[a] = IF a \in Gone(h, f) THEN 0
                                    ELSE IF a = FreedAt(h, f) THEN FreedLen(h, f) ELSE size[a]
  BY BlocksAre DEF FreedHeap
<1>4. \A a : a \in Gone(h, f) <=> (Takes(h, f) /\ a = n) \/ (Joins(h, f) /\ a = f)
  BY FreedFacts
<1>5. pp = PrevOf(h, f)
  BY DEF Freeable
<1> HIDE DEF B, n, e
<1>6. CASE ~Takes(h, f) /\ ~Joins(h, f)
  <2>1. FreedBlocks(h, f) = B /\ \A a \in B : size'[a] = size[a]
    BY <1>3, <1>4, <1>6 DEF FreedBlocks, FreedAt, FreedLen, B
  <2> QED
    BY <1>1, <2>1 DEF Walk, e
<1>7. CASE Takes(h, f) /\ ~Joins(h, f)
  <2>1. FreedBlocks(h, f) = B \ {n}
    BY <1>4, <1>7 DEF FreedBlocks, B
  <2>2. size'[f] = size[f] + size[n] /\ \A a \in B \ {f, n} : size'[a] = size[a]
    BY <1>2, <1>3, <1>4, <1>7 DEF FreedAt, FreedLen, n
  <2>3. Join(h, e, B, size, f, n, size')
    BY <1>1, <1>2, <1>7, <2>2 DEF Join
  <2> QED
    BY <2>1, <2>3, WalkJoin DEF e
<1>8. CASE ~Takes(h, f) /\ Joins(h, f)
  <2>1. FreedBlocks(h, f) = B \ {f}
    BY <1>4, <1>8 DEF FreedBlocks, B
  <2>2. size'[pp] = size[pp] + size[f] /\ \A a \in B \ {pp, f} : size'[a] = size[a]
    BY <1>2, <1>3, <1>4, <1>5, <1>8 DEF FreedAt, FreedLen
  <2>3. Join(h, e, B, size, pp, f, size')
    BY <1>1, <1>2, <1>8, <2>2 DEF Join
  <2> QED
    BY <2>1, <2>3, WalkJoin DEF e
<1>9. CASE Takes(h, f) /\ Joins(h, f)
  <2>1. FreedBlocks(h, f) = (B \ {n}) \ {f}
    BY <1>4, <1>9 DEF FreedBlocks, B
  <2>2. /\ mid[f] = size[f] + size[n] /\ mid[f] \in Int /\ \A a \in B \ {f, n} : mid[a] = size[a]
    BY <1>2, <1>9
  <2>3. /\ size'[pp] = size[pp] + (size[f] + size[n])
        /\ \A a \in B \ {pp, f, n} : size'[a] = size[a]
    BY <1>2, <1>3, <1>4, <1>5, <1>9 DEF FreedAt, FreedLen, n
  <2> HIDE DEF mid
  <2>4. Join(h, e, B, size, f, n, mid)
    BY <1>1, <1>2, <1>9, <2>2 DEF Join
  <2>5. Walk(h, e, B \ {n}, mid)
    BY <2>4, WalkJoin
  <2>6. Join(h, e, B \ {n}, mid, pp, f, size')
    <3>1. \A a \in B \ {n} : mid[a] \in Int
      BY <1>1, <2>2
    <3>2. mid[pp] = size[pp] /\ pp \in B \ {n} /\ f \in B \ {n}
      BY <1>2, <1>9, <2>2
    <3>3. size'[pp] = mid[pp] + mid[f] /\ f = pp + mid[pp]
      BY <1>2, <1>9, <2>2, <2>3, <3>2
    <3>4. \A a \in (B \ {n}) \ {pp, f} : size'[a] = mid[a]
      BY <2>2, <2>3
    <3> QED
      BY <1>1, <2>5, <3>1, <3>2, <3>3, <3>4 DEF Join
  <2> QED
    BY <2>1, <2>6, WalkJoin DEF e
<1> QED
  BY <1>6, <1>7, <1>8, <1>9

LEMMA FreedRing ==
  ASSUME MemTypes, MemOK, NEW h \in Minis, NEW f, NEW pp, NEW pn, Freeable(h, f, pp, pn),
         FreedHeap(h, f, pp, pn)
  PROVE  Ring(h, FreedList(h, f), next', prev')
<1> DEFINE F == FreeIn(h)
           n == Behind(f)
           R == {h} \cup F
<1>1. h \in Int /\ F \in SUBSET Int /\ (\A a \in F : h < a) /\ Ring(h, F, next, prev) /\ R \subseteq Addr
  BY MiniIs, BlocksAre, MiniTypes
<1>2. /\ f \in Int /\ f \notin F /\ f # h /\ (Takes(h, f) => n \in F /\ pp # n /\ pn # n /\ next[n] = pn /\ prev[n] = pp)
      /\ (~Takes(h, f) => next[pp] = pn /\ prev[pn] = pp)
      /\ (Joins(h, f) => pp \in F)
      /\ pp # f /\ pn # f /\ pp \in R /\ pn \in R /\ pp < f /\ (pn = h \/ f < pn) /\ f # n /\ f \in Addr
  <2>1. Placed(h, f, pp, pn)
    BY DEF Freeable
  <2> QED
    BY <2>1, FreedFacts DEF Placed
<1>3. \A a : a \in Gone(h, f) <=> (Takes(h, f) /\ a = n) \/ (Joins(h, f) /\ a = f)
  BY FreedFacts
<1>4. FreedAt(h, f) = IF Joins(h, f) THEN pp ELSE f
  BY DEF FreedAt, Freeable
<1>5. /\ \A a \in Addr : next'[a] = IF a \in Gone(h, f) THEN 0
                                    ELSE IF a = pp /\ ~Joins(h, f) THEN f
                                    ELSE IF a = FreedAt(h, f) THEN pn ELSE next[a]
      /\ \A a \in Addr : prev'[a] = IF a \in Gone(h, f) THEN 0
                                    ELSE IF a = pn THEN FreedAt(h, f)
                                    ELSE IF a = f THEN pp ELSE prev[a]
  BY DEF FreedHeap
<1>6. \A a \in R : a # f
  BY <1>2
<1> HIDE DEF n, F
<1>7. CASE ~Takes(h, f) /\ ~Joins(h, f)
  <2>1. FreedList(h, f) = F \cup {f}
    BY <1>3, <1>4, <1>7 DEF FreedList, F
  <2>2. /\ next'[pp] = f /\ next'[f] = pn /\ prev'[pn] = f /\ prev'[f] = pp
        /\ (\A a \in R : a # pp => next'[a] = next[a])
        /\ (\A a \in R : a # pn => prev'[a] = prev[a])
    BY <1>1, <1>2, <1>3, <1>4, <1>5, <1>6, <1>7
  <2>3. Inserted(h, F, next, prev, pp, pn, f, next', prev')
    BY <1>1, <1>2, <1>7, <2>2 DEF Inserted
  <2> QED
    BY <2>1, <2>3, RingInsert
<1>8. CASE Takes(h, f) /\ ~Joins(h, f)
  <2>1. FreedList(h, f) = (F \ {n}) \cup {f}
    BY <1>3, <1>4, <1>8 DEF FreedList, F
  <2>2. /\ next'[pp] = f /\ next'[f] = pn /\ prev'[pn] = f /\ prev'[f] = pp
        /\ (\A a \in R : a # n /\ a # pp => next'[a] = next[a])
        /\ (\A a \in R : a # n /\ a # pn => prev'[a] = prev[a])
    BY <1>1, <1>2, <1>3, <1>4, <1>5, <1>6, <1>8
  <2>3. Replaced(h, F, next, prev, n, f, next', prev')
    BY <1>1, <1>2, <1>8, <2>2 DEF Replaced
  <2> QED
    BY <2>1, <2>3, RingReplace
<1>9. CASE ~Takes(h, f) /\ Joins(h, f)
  <2>1. FreedList(h, f) = F
    BY <1>2, <1>3, <1>4, <1>9 DEF FreedList, F
  <2>2. \A a \in R : next'[a] = next[a] /\ prev'[a] = prev[a]
    BY <1>1, <1>2, <1>3, <1>4, <1>5, <1>6, <1>9
  <2>3. \A a \in R : Linked(h, F, next, prev, a)
    BY <1>1, RingFacts
  <2> QED
    BY <2>1, <2>2, <2>3 DEF Ring, Linked
<1>10. CASE Takes(h, f) /\ Joins(h, f)
  <2>1. FreedList(h, f) = F \ {n}
    BY <1>2, <1>3, <1>4, <1>10 DEF FreedList, F
  <2>2. /\ next'[pp] = pn /\ prev'[pn] = pp
        /\ (\A a \in R : a # n /\ a # pp => next'[a] = next[a])
        /\ (\A a \in R : a # n /\ a # pn => prev'[a] = prev[a])
    BY <1>1, <1>2, <1>3, <1>4, <1>5, <1>6, <1>10
  <2>3. Removed(h, F, next, prev, n, next', prev')
    BY <1>1, <1>2, <1>10, <2>2 DEF Removed
  <2> QED
    BY <2>1, <2>3, RingRemove
<1> QED
  BY <1>7, <1>8, <1>9, <1>10

\* Where the freed block ends, and that it lies in its mini-heap.
LEMMA FreedSize ==
  ASSUME MemTypes, MemOK, NEW h \in Minis, NEW f, NEW pp, NEW pn, Freeable(h, f, pp, pn),
         FreedHeap(h, f, pp, pn)
  PROVE  /\ FreedLen(h, f) \in Nat /\ size'[FreedAt(h, f)] = FreedLen(h, f) /\ 0 < FreedLen(h, f) /\ FreedLen(h, f) <= Top
         /\ FreedAt(h, f) \in Addr /\ FreedAt(h, f) \in Int /\ FreedAt(h, f) <= f
         /\ FreedAt(h, f) + FreedLen(h, f) = IF Takes(h, f) THEN Behind(f) + size[Behind(f)] ELSE Behind(f)
         /\ \A a \in FreedBlocks(h, f) : a # FreedAt(h, f) => size'[a] = size[a]
         /\ \A a \in Gone(h, f) : size'[a] = 0
<1>1. /\ f \in Int /\ size[f] \in Int /\ 0 < size[f] /\ Behind(f) = f + size[f] /\ f \in Addr
      /\ (Takes(h, f) => size[Behind(f)] \in Int /\ size[Behind(f)] > 0)
      /\ (Joins(h, f) => pp \in Blocks(h) /\ pp + size[pp] = f /\ size[pp] \in Int /\ size[pp] > 0)
      /\ Gone(h, f) \subseteq Blocks(h) /\ FreedAt(h, f) \in FreedBlocks(h, f)
  BY FreedFacts
<1>2. FreedAt(h, f) = (IF Joins(h, f) THEN pp ELSE f) /\ pp = PrevOf(h, f)
  BY DEF FreedAt, Freeable
<1>3. /\ FreedBlocks(h, f) \subseteq Addr /\ Blocks(h) \subseteq Addr /\ FreedBlocks(h, f) \subseteq Blocks(h)
      /\ FreedBlocks(h, f) \cap Gone(h, f) = {}
  BY BlocksAre DEF FreedBlocks
<1>4. FreedAt(h, f) \in Addr /\ FreedAt(h, f) \in Int /\ FreedAt(h, f) <= f
  <2>1. FreedAt(h, f) \in Addr
    BY <1>1, <1>3
  <2>2. FreedAt(h, f) \in Int
    BY <2>1 DEF Addr
  <2> QED
    BY <1>1, <1>2, <2>1, <2>2
<1>5. /\ FreedLen(h, f) \in Int /\ 0 < FreedLen(h, f)
      /\ FreedAt(h, f) + FreedLen(h, f) = IF Takes(h, f) THEN Behind(f) + size[Behind(f)] ELSE Behind(f)
  <2>1. CASE Joins(h, f)
    <3>1. /\ pp \in Int /\ pp + size[pp] = f /\ size[pp] \in Int /\ size[pp] > 0 /\ FreedAt(h, f) = pp
      BY <1>1, <1>2, <1>4, <2>1
    <3>2. FreedLen(h, f) = size[pp] + (IF Takes(h, f) THEN size[f] + size[Behind(f)] ELSE size[f])
      BY <1>2, <2>1 DEF FreedLen
    <3> QED
      BY <1>1, <3>1, <3>2
  <2>2. CASE ~Joins(h, f)
    <3>2. FreedLen(h, f) = (IF Takes(h, f) THEN size[f] + size[Behind(f)] ELSE size[f])
      BY <2>2 DEF FreedLen
    <3> QED
      BY <1>1, <1>2, <2>2, <3>2
  <2> QED
    BY <2>1, <2>2
<1>6. /\ size'[FreedAt(h, f)] = FreedLen(h, f)
      /\ \A a \in FreedBlocks(h, f) : a # FreedAt(h, f) => size'[a] = size[a]
      /\ \A a \in Gone(h, f) : size'[a] = 0
  BY <1>1, <1>3 DEF FreedHeap
<1>7. FreedLen(h, f) <= Top
  <2>1. Behind(f) <= Top /\ (Takes(h, f) => Behind(f) + size[Behind(f)] <= Top)
    <3>1. \A a \in Blocks(h) : a + size[a] <= EndTag(h) /\ EndTag(h) <= Top /\ a + size[a] \in Int
      BY BlockFits
    <3>2. f \in Blocks(h) /\ (Takes(h, f) => Behind(f) \in Blocks(h)) /\ EndTag(h) \in Int
      BY FreedFacts, MiniTypes DEF Freeable
    <3> QED
      BY <1>1, <3>1, <3>2, Sizes
  <2>2. FreedAt(h, f) >= 1
    BY <1>4, Sizes DEF Addr
  <2> QED
    BY <1>1, <1>4, <1>5, <2>1, <2>2, Sizes
<1> QED
  BY <1>4, <1>5, <1>6, <1>7

LEMMA FreedJoined ==
  ASSUME MemTypes, MemOK, NEW h \in Minis, NEW f, NEW pp, NEW pn, Freeable(h, f, pp, pn),
         FreedHeap(h, f, pp, pn)
  PROVE  Joined(FreedList(h, f), size')
<1> DEFINE F == FreeIn(h)
           n == Behind(f)
           f2 == FreedAt(h, f)
<1>1. /\ f \in Int /\ f \notin F /\ n \in Int /\ f < n /\ f2 \in Int /\ f2 <= f
      /\ (Takes(h, f) => n \in F /\ size[n] \in Int /\ size[n] > 0)
      /\ (~Takes(h, f) => n \notin F)
      /\ (Joins(h, f) => pp \in F)
      /\ \A a \in F : a + size[a] = f => a = pp
  BY FreedFacts, FreedSize DEF Freeable, Placed
<1>2. /\ f2 + size'[f2] = (IF Takes(h, f) THEN n + size[n] ELSE n)
      /\ \A a \in FreedBlocks(h, f) : a # f2 => size'[a] = size[a]
  BY FreedSize
<1>3. f2 = (IF Joins(h, f) THEN pp ELSE f) /\ pp = PrevOf(h, f) /\ pp \in {h} \cup F
  BY DEF FreedAt, Freeable, Placed
<1>4. Joined(F, size) /\ FreedList(h, f) \subseteq F \cup {f2} /\ FreedList(h, f) \subseteq FreedBlocks(h, f)
  <2>1. Joined(F, size)
    BY MiniIs
  <2>2. F \subseteq Blocks(h) /\ f2 \in FreedBlocks(h, f)
    BY BlocksAre, FreedFacts
  <2> QED
    BY <2>1, <2>2 DEF FreedList, FreedBlocks
<1>5. h \notin F
  BY BlocksAre, MiniTypes
<1> HIDE DEF F, n, f2
<1>6. f2 + size'[f2] \notin F \cup {f2}
  BY <1>1, <1>2, <1>4 DEF Joined
<1>7. ASSUME NEW a \in FreedList(h, f), a # f2
      PROVE  a + size'[a] \notin F \cup {f2}
  <2>1. a \in F /\ size'[a] = size[a]
    BY <1>2, <1>4, <1>7
  <2>2. a + size[a] \notin F
    BY <1>4, <2>1 DEF Joined
  <2>3. a + size[a] # f2
    <3>1. CASE Joins(h, f)
      BY <1>1, <1>3, <2>2, <3>1
    <3>2. CASE ~Joins(h, f)
      <4> SUFFICES ASSUME a + size[a] = f2 PROVE FALSE
        OBVIOUS
      <4>1. a = pp
        BY <1>1, <1>3, <2>1, <3>2
      <4> QED
        BY <1>3, <1>5, <2>1, <3>2, <4>1 DEF Joins
    <3> QED
      BY <3>1, <3>2
  <2> QED
    BY <2>1, <2>2, <2>3
<1> QED
  BY <1>4, <1>6, <1>7 DEF Joined

LEMMA FreedCounts ==
  ASSUME MemTypes, MemOK, NEW h \in Minis, NEW f, NEW pp, NEW pn, Freeable(h, f, pp, pn),
         FreedHeap(h, f, pp, pn)
  PROVE  /\ FreedList(h, f) = FreedBlocks(h, f) \ used'
         /\ FreedMini(h, f).numfree = Cardinality(FreedList(h, f))
         /\ FreedMini(h, f).numalloc = Cardinality(FreedBlocks(h, f) \cap used')
         /\ FreedMini(h, f).rover \in {h} \cup FreedList(h, f)
         /\ FreedMini(h, f) \in MiniRec /\ FreedMini(h, f).len = mh[h].len
         /\ FreedMini(h, f).rover = FreedRover(h, f)
<1> DEFINE B == Blocks(h)
           F == FreeIn(h)
           n == Behind(f)
           f2 == FreedAt(h, f)
           m == mh[h]
<1>1. /\ f \in Int /\ f \notin F /\ n \in Int /\ f < n /\ f \in B /\ f \in used /\ f \in Addr
      /\ (Takes(h, f) => n \in F /\ n \notin used) /\ (Joins(h, f) => pp \in F /\ pp \notin used /\ (Takes(h, f) => pp # n))
      /\ used' = used \ {f} /\ n # f
  BY FreedFacts, BlocksAre DEF FreedHeap, Freeable
<1>2. \A a : a \in Gone(h, f) <=> (Takes(h, f) /\ a = n) \/ (Joins(h, f) /\ a = f)
  BY FreedFacts
<1>3. f2 = (IF Joins(h, f) THEN pp ELSE f) /\ pp = PrevOf(h, f)
  BY DEF FreedAt, Freeable
<1>4. m \in MiniRec /\ m.rover \in {h} \cup F /\ m.numfree = Cardinality(F) /\ m.numalloc = Cardinality(B \cap used)
  BY MiniIs, MiniTypes DEF MemTypes, Counted
<1>5. F \in SUBSET Addr /\ B \cap used \in SUBSET Addr /\ F = B \ used /\ h \in Int /\ h \notin F
  BY BlocksAre, MiniTypes DEF FreeIn
<1>b. FreedBlocks(h, f) = B \ Gone(h, f) /\ FreedList(h, f) = (F \ Gone(h, f)) \cup {f2}
  BY DEF FreedBlocks, FreedList
<1>l. FreedLen(h, f) \in Nat /\ FreedLen(h, f) <= Top /\ FreedAt(h, f) \in Addr
  BY FreedSize
<1> DEFINE free0 == IF Takes(h, f) THEN m.numfree - 1 ELSE m.numfree
           r == FreedMini(h, f)
<1>6. /\ r \in MiniRec /\ r.len = m.len /\ r.rover = FreedRover(h, f)
      /\ r.numfree = (IF Joins(h, f) THEN free0 ELSE free0 + 1) /\ r.numalloc = m.numalloc - 1
  <2>1. DOMAIN m = {"len", "rover", "b4rover", "largest", "numalloc", "numfree"}
    BY <1>4 DEF MiniRec
  <2>2. m.numfree \in Int /\ m.numalloc \in Int /\ m.b4rover \in Nat /\ m.largest \in 0..Huge /\ m.len \in Nat
    BY <1>4 DEF MiniRec
  <2>3. FreedRover(h, f) \in 0..Top
    <3>1. m.rover \in 0..Top /\ f \in 0..Top /\ (Joins(h, f) => pp \in 0..Top)
      BY <1>1, <1>4, <1>5, Sizes DEF MiniRec, Addr
    <3> HIDE DEF m, n
    <3> QED
      BY <1>3, <3>1 DEF FreedRover, m, n
  <2>4. Bigger(m.largest, FreedLen(h, f)) \in 0..Huge /\ Bigger(m.b4rover, FreedLen(h, f)) \in Nat
    BY <1>l, <2>2, Sizes DEF Bigger, Huge
  <2> DEFINE rv == FreedRover(h, f)
             nf == IF Joins(h, f) THEN free0 ELSE free0 + 1
             na == m.numalloc - 1
             b4 == IF FreedAt(h, f) < FreedRover(h, f) THEN Bigger(m.b4rover, FreedLen(h, f)) ELSE m.b4rover
             lg == Bigger(m.largest, FreedLen(h, f))
  <2>5. r = [m EXCEPT !.rover = rv, !.numfree = nf, !.numalloc = na, !.b4rover = b4, !.largest = lg]
    BY DEF FreedMini
  <2>6. rv \in 0..Top /\ nf \in Int /\ na \in Int /\ b4 \in Nat /\ lg \in 0..Huge
    BY <2>2, <2>3, <2>4
  <2> HIDE DEF m, r, rv, nf, na, b4, lg
  <2>7. r \in MiniRec /\ r.len = m.len /\ r.rover = rv /\ r.numfree = nf /\ r.numalloc = na
    BY <1>4, <2>1, <2>5, <2>6 DEF MiniRec
  <2> QED
    BY <2>7 DEF rv, nf, na
<1> HIDE DEF r, m, n, f2, B, F
<1>7. FreedList(h, f) = FreedBlocks(h, f) \ used'
  BY <1>1, <1>2, <1>3, <1>5, <1>b
<1>8. FreedBlocks(h, f) \cap used' = (B \cap used) \ {f}
  BY <1>1, <1>2, <1>b
<1>9. Cardinality((B \cap used) \ {f}) = Cardinality(B \cap used) - 1
  BY <1>1, <1>5, CountRemove
<1>10. r.numfree = Cardinality(FreedList(h, f))
  <2>1. Cardinality(F) \in Int /\ \A x : x \in F => Cardinality(F \ {x}) = Cardinality(F) - 1
    <3>1. IsFiniteSet(F)
      BY <1>5, AddrFinite
    <3> QED
      BY <1>5, <3>1, CountRemove, FS_CardinalityType
  <2>2. CASE Takes(h, f)
    <3>1. Cardinality(F \ {n}) = Cardinality(F) - 1 /\ F \ {n} \in SUBSET Addr
      BY <1>1, <1>5, <2>1, <2>2
    <3>2. CASE Joins(h, f)
      <4>1. FreedList(h, f) = F \ {n}
        BY <1>1, <1>2, <1>3, <1>b, <2>2, <3>2
      <4> QED
        BY <1>4, <1>6, <2>1, <2>2, <3>1, <3>2, <4>1
    <3>3. CASE ~Joins(h, f)
      <4>1. FreedList(h, f) = (F \ {n}) \cup {f}
        BY <1>1, <1>2, <1>3, <1>b, <2>2, <3>3
      <4>2. Cardinality((F \ {n}) \cup {f}) = Cardinality(F \ {n}) + 1
        BY <1>1, <3>1, CountAdd
      <4> QED
        BY <1>4, <1>6, <2>1, <2>2, <3>1, <3>3, <4>1, <4>2
    <3> QED
      BY <3>2, <3>3
  <2>3. CASE ~Takes(h, f)
    <3>2. CASE Joins(h, f)
      <4>1. FreedList(h, f) = F
        BY <1>1, <1>2, <1>3, <1>b, <2>3, <3>2
      <4> QED
        BY <1>4, <1>6, <2>1, <2>3, <3>2, <4>1
    <3>3. CASE ~Joins(h, f)
      <4>1. FreedList(h, f) = F \cup {f}
        BY <1>1, <1>2, <1>3, <1>b, <2>3, <3>3
      <4>2. Cardinality(F \cup {f}) = Cardinality(F) + 1
        BY <1>1, <1>5, CountAdd
      <4> QED
        BY <1>4, <1>6, <2>1, <2>3, <3>3, <4>1, <4>2
    <3> QED
      BY <3>2, <3>3
  <2> QED
    BY <2>2, <2>3
<1>11. r.rover \in {h} \cup FreedList(h, f)
  <2>1. FreedRover(h, f) = (IF Joins(h, f) /\ (IF Takes(h, f) /\ m.rover = n THEN f ELSE m.rover) = f
                            THEN pp ELSE IF Takes(h, f) /\ m.rover = n THEN f ELSE m.rover)
    BY <1>3 DEF FreedRover, m, n
  <2> QED
    BY <1>1, <1>2, <1>3, <1>4, <1>6, <1>b, <2>1
<1> QED
  BY <1>4, <1>6, <1>7, <1>8, <1>9, <1>10, <1>11 DEF r, m

LEMMA Freed ==
  ASSUME MemTypes, MemOK, NEW h \in Minis, NEW f \in Blocks(h), f \in used, Found(h, f, look.pnext), MemFree(h, f), build' = build /\ moved' = moved
  PROVE  /\ Changed(h, FreedBlocks(h, f), FreedList(h, f))
         /\ mh'[h] = FreedMini(h, f) /\ \A g \in Addr : g # h => mh'[g] = mh[g]
         /\ Freeable(h, f, PrevOf(h, f), NextOf(h, f)) /\ FreedHeap(h, f, PrevOf(h, f), NextOf(h, f))
<1> DEFINE pp == PrevOf(h, f)
           pn == NextOf(h, f)
           r == FreedMini(h, f)
           B2 == FreedBlocks(h, f)
           F2 == FreedList(h, f)
<1>1. Placed(h, f, pp, pn)
  BY FreePlace
<1>2. Freeable(h, f, pp, pn)
  BY <1>1 DEF Freeable
<1>3. FreedHeap(h, f, pp, pn)
  <2>1. f \in Addr
    BY BlocksAre
  <2> QED
    BY <1>1, <2>1, MemFreeIs
<1> HIDE DEF pp, pn
<1>4. /\ f \in Addr /\ f \in Int /\ Within(h, f) /\ pp # f /\ pn # f /\ pp \in Addr /\ pn \in Addr
      /\ (pp = h \/ Within(h, pp)) /\ (pn = h \/ Within(h, pn))
      /\ Gone(h, f) \subseteq Blocks(h) /\ FreedAt(h, f) \in B2 /\ B2 \subseteq Blocks(h)
  BY <1>1, <1>2, FreedFacts DEF Placed, FreedBlocks
<1>5. \A a \in Blocks(h) : Within(h, a) /\ a \in Addr /\ size[a] \in Nat
  BY BlocksAre DEF MemTypes
<1>6. /\ \A a \in Addr : size'[a] = IF a \in Gone(h, f) THEN 0
                                    ELSE IF a = FreedAt(h, f) THEN FreedLen(h, f) ELSE size[a]
      /\ \A a \in Addr : next'[a] = IF a \in Gone(h, f) THEN 0
                                    ELSE IF a = pp /\ ~Joins(h, f) THEN f
                                    ELSE IF a = FreedAt(h, f) THEN pn ELSE next[a]
      /\ \A a \in Addr : prev'[a] = IF a \in Gone(h, f) THEN 0
                                    ELSE IF a = pn THEN FreedAt(h, f)
                                    ELSE IF a = f THEN pp ELSE prev[a]
      /\ size' = [a \in Addr |-> size'[a]] /\ next' = [a \in Addr |-> next'[a]] /\ prev' = [a \in Addr |-> prev'[a]]
      /\ used' = used \ {f} /\ mh' = [mh EXCEPT ![h] = r]
  BY <1>3 DEF FreedHeap
<1>7. FreedLen(h, f) \in Nat /\ 0 < FreedLen(h, f) /\ FreedAt(h, f) \in Addr
  BY <1>2, <1>3, FreedSize
<1>8. /\ F2 = B2 \ used' /\ r.numfree = Cardinality(F2) /\ r.numalloc = Cardinality(B2 \cap used')
      /\ r.rover \in {h} \cup F2 /\ r \in MiniRec /\ r.len = mh[h].len
  BY <1>2, <1>3, FreedCounts
<1> HIDE DEF r, F2
<1>9. size' \in [Addr -> Nat] /\ next' \in [Addr -> 0..Top] /\ prev' \in [Addr -> 0..Top] /\ used' \subseteq Addr
  <2>1. size \in [Addr -> Nat] /\ next \in [Addr -> 0..Top] /\ prev \in [Addr -> 0..Top] /\ used \subseteq Addr
    BY DEF MemTypes
  <2>2. Addr \subseteq 0..Top /\ 0 \in 0..Top
    BY Sizes DEF Addr
  <2>3. \A a \in Addr : size'[a] \in Nat
    BY <1>6, <1>7, <2>1
  <2>4. \A a \in Addr : next'[a] \in 0..Top
    BY <1>4, <1>6, <2>1, <2>2
  <2>5. \A a \in Addr : prev'[a] \in 0..Top
    BY <1>4, <1>6, <1>7, <2>1, <2>2
  <2> QED
    BY <1>6, <2>1, <2>3, <2>4, <2>5
<1>10. \A a \in Addr : ~Within(h, a) => size'[a] = size[a] /\ (a \in used' <=> a \in used)
  <2>1. \A a \in Addr : ~Within(h, a) => a \notin Blocks(h)
    BY <1>5
  <2> QED
    BY <1>4, <1>6, <2>1
<1>11. \A a \in Addr : ~Within(h, a) /\ a # h => next'[a] = next[a] /\ prev'[a] = prev[a]
  <2>1. \A a \in Addr : ~Within(h, a) => a \notin Blocks(h)
    BY <1>5
  <2> QED
    BY <1>4, <1>6, <2>1
<1>12. \A a \in Addr : a \in B2 <=> Within(h, a) /\ size'[a] > 0
  <2>1. ASSUME NEW a \in Addr PROVE a \in B2 <=> Within(h, a) /\ size'[a] > 0
    <3>1. a \in Blocks(h) <=> Within(h, a) /\ size[a] > 0
      BY DEF Blocks
    <3>2. a \in B2 <=> a \in Blocks(h) /\ a \notin Gone(h, f)
      BY DEF FreedBlocks
    <3> HIDE DEF B2
    <3> QED
      BY <1>4, <1>5, <1>6, <1>7, <3>1, <3>2
  <2> QED
    BY <2>1
<1>13. \A a \in used' : Within(h, a) => a \in B2
  <2>1. \A a \in used : a \in Addr /\ size[a] > 0
    BY DEF MemOK, Covered, MemTypes
  <2>2. \A a \in used' : Within(h, a) => a \in Blocks(h) /\ a # f
    BY <1>6, <2>1 DEF Blocks
  <2>3. \A a \in used' : a \notin Gone(h, f)
    <3>1. \A a : a \in Gone(h, f) <=> (Takes(h, f) /\ a = Behind(f)) \/ (Joins(h, f) /\ a = f)
      BY <1>2, FreedFacts
    <3> QED
      BY <1>6, <3>1 DEF Takes
  <2> QED
    BY <2>2, <2>3 DEF FreedBlocks
<1>14. Walk(h, EndTag(h), B2, size') /\ Ring(h, F2, next', prev') /\ Joined(F2, size')
  BY <1>2, <1>3, FreedWalk, FreedRing, FreedJoined DEF F2
<1>15. B2 \subseteq Addr
  BY <1>4, <1>5
<1> HIDE DEF B2
<1>16. Edited(h, r, B2, F2)
  BY <1>6, <1>8, <1>9, <1>10, <1>11, <1>12, <1>13, <1>14, <1>15 DEF Edited
<1>17. Changed(h, B2, F2) /\ mh'[h] = r /\ \A g \in Addr : g # h => mh'[g] = mh[g]
  BY <1>16, Edit
<1> QED
  BY <1>2, <1>3, <1>17 DEF r, B2, F2, pp, pn

-----------------------------------------------------------------------------
(* __HeapManager_expand *)

\* The tail of a block becomes an allocated block of its own.
LEMMA SliceOff ==
  ASSUME MemTypes, MemOK, NEW h \in Minis, NEW p \in Blocks(h), p \in used, NEW s \in Nat, Frl <= s,
         s + Frl <= size[p], NEW n, n = p + s, UNCHANGED <<build, moved, next, prev>>,
         size' = [size EXCEPT ![p] = s, ![n] = size[p] - s],
         used' = used \cup {n}, mh' = [mh EXCEPT ![h].numalloc = @ + 1]
  PROVE  /\ Changed(h, Blocks(h) \cup {n}, FreeIn(h)) /\ mh'[h].rover = mh[h].rover
         /\ mh'[h] = [mh[h] EXCEPT !.numalloc = @ + 1] /\ \A g \in Addr : g # h => mh'[g] = mh[g]
         /\ n \in Addr /\ n \notin used /\ n # p /\ size'[p] = s /\ size'[n] = size[p] - s
         /\ \A a \in Addr : a # p /\ a # n => size'[a] = size[a]
<1> DEFINE B == Blocks(h)
           F == FreeIn(h)
           m == mh[h]
           r == [m EXCEPT !.numalloc = m.numalloc + 1]
<1>0. /\ p \in Addr /\ p \in Int /\ size[p] \in Int /\ n \in Int /\ p < n /\ n < p + size[p]
      /\ n \in Addr /\ Within(h, n) /\ Within(h, p) /\ n \notin B /\ n \notin used /\ n # h
      /\ h \in Addr /\ h \in Int /\ size[p] - s > 0 /\ s > 0
  <2>2. p \in Addr /\ p \in Int /\ size[p] \in Int
    BY BlockFits
  <2>3. n \in Int /\ p < n /\ n < p + size[p] /\ size[p] - s > 0 /\ s > 0
    BY <2>2, Sizes
  <2>4. h \in Addr /\ h \in Int
    BY MiniTypes
  <2> QED
    BY <2>2, <2>3, <2>4, InsideBlock, BlocksAre
<1> HIDE DEF B, F
<1>1. /\ size'[p] = s /\ size'[n] = size[p] - s
      /\ \A a \in Addr : a # p /\ a # n => size'[a] = size[a]
      /\ size' \in [Addr -> Nat]
  BY <1>0, Sizes DEF MemTypes
<1>2. /\ r \in MiniRec /\ mh' = [mh EXCEPT ![h] = r] /\ r.len = m.len /\ r.rover = m.rover
      /\ r.numfree = m.numfree /\ r.numalloc = m.numalloc + 1
  <2>1. m \in MiniRec /\ mh' = [mh EXCEPT ![h] = r]
    BY <1>0 DEF MemTypes
  <2>2. DOMAIN m = {"len", "rover", "b4rover", "largest", "numalloc", "numfree"} /\ m.numalloc + 1 \in Int
    BY <2>1 DEF MiniRec
  <2> HIDE DEF m
  <2> QED
    BY <2>1, <2>2 DEF MiniRec
<1>3. used' = used \cup {n} /\ used' \subseteq Addr
  BY <1>0 DEF MemTypes
<1>4. \A a \in Addr : a \in B \cup {n} <=> Within(h, a) /\ size'[a] > 0
  <2>1. \A a \in Addr : a \in B <=> Within(h, a) /\ size[a] > 0
    BY DEF B, Blocks
  <2> QED
    BY <1>0, <1>1, <2>1
<1>5. F = (B \cup {n}) \ used' /\ B \subseteq Addr /\ F \subseteq B
  BY <1>0, <1>3, BlocksAre DEF FreeIn, B, F
<1>6. Walk(h, EndTag(h), B \cup {n}, size')
  <2>1. /\ EndTag(h) \in Int /\ B \in SUBSET Int /\ (\A a \in B : size[a] \in Int)
        /\ Walk(h, EndTag(h), B, size)
    BY MiniIs DEF B
  <2>2. \A a \in B : a # p => size'[a] = size[a]
    BY <1>0, <1>1, <1>5
  <2>4. s \in Int /\ Frl <= s /\ Frl <= size[p] - s /\ p \in B /\ n = p + s
    BY <1>0, Sizes DEF B
  <2>3. Split(h, EndTag(h), B, size, p, s, n, size')
    BY <1>0, <1>1, <2>1, <2>2, <2>4 DEF Split
  <2> QED
    BY <2>3, WalkSplit
<1>7. Joined(F, size')
  <2>1. \A a \in F : a # p /\ a # n /\ a \in Addr
    BY <1>0, <1>3, <1>5
  <2>2. Joined(F, size)
    BY MiniIs DEF F
  <2> QED
    BY <1>1, <2>1, <2>2 DEF Joined
<1>8. m.numalloc + 1 = Cardinality((B \cup {n}) \cap used') /\ m.numfree = Cardinality(F)
      /\ m.rover \in {h} \cup F
  <2>1. (B \cup {n}) \cap used' = (B \cap used) \cup {n}
    BY <1>0, <1>3
  <2>2. B \cap used \in SUBSET Addr /\ n \notin B \cap used
    BY <1>0, BlocksAre DEF B
  <2>3. Cardinality((B \cap used) \cup {n}) = Cardinality(B \cap used) + 1
    BY <2>2, CountAdd
  <2> QED
    BY <2>1, <2>3, MiniIs DEF Counted, B, F
<1>9. Ring(h, F, next', prev') /\ next' \in [Addr -> 0..Top] /\ prev' \in [Addr -> 0..Top]
  BY MiniIs DEF F, MemTypes
<1>10. \A a \in used' : Within(h, a) => a \in B \cup {n}
  <2>1. \A a \in used : a \in Addr /\ size[a] > 0
    BY DEF MemOK, Covered, MemTypes
  <2> QED
    BY <1>3, <2>1 DEF B, Blocks
<1>11. Edited(h, r, B \cup {n}, F)
  <2> HIDE DEF r
  <2> QED
    BY <1>0, <1>1, <1>2, <1>3, <1>4, <1>5, <1>6, <1>7, <1>8, <1>9, <1>10 DEF Edited
<1>12. Changed(h, B \cup {n}, F) /\ mh'[h] = r /\ \A g \in Addr : g # h => mh'[g] = mh[g]
  BY <1>11, Edit
<1> QED
  BY <1>0, <1>1, <1>2, <1>12 DEF B, F

\* The free block behind p, of which all or a part is taken in.
NextFree(h, p, n) ==
  /\ p \in Blocks(h) /\ p \in used /\ n = p + size[p] /\ n \in FreeIn(h)
TakenRover(h, n) == IF mh[h].rover = n THEN prev[n] ELSE mh[h].rover
LEMMA NextFreeFacts ==
  ASSUME MemTypes, MemOK, NEW h \in Minis, NEW p, NEW n, NextFree(h, p, n)
  PROVE  /\ p \in Addr /\ p \in Int /\ size[p] \in Int /\ n \in Int /\ n \in Addr /\ p < n /\ Within(h, p) /\ Within(h, n)
         /\ n \in Blocks(h) /\ n \notin used /\ size[n] \in Int /\ 0 < size[n] /\ n # h /\ p # h /\ h \in Addr /\ h \in Int
         /\ 0 < size[p] /\ n + size[n] <= Top
         /\ prev[n] \in {h} \cup FreeIn(h) /\ next[n] \in {h} \cup FreeIn(h) /\ prev[n] # n /\ next[n] # n
         /\ prev[n] \in Addr /\ next[n] \in Addr /\ prev[n] \in Int /\ next[n] \in Int
         /\ prev[n] < n /\ (next[n] = h \/ (n < next[n] /\ n + size[n] <= next[n]))
         /\ (prev[n] = h \/ Within(h, prev[n])) /\ (next[n] = h \/ Within(h, next[n]))
         /\ TakenRover(h, n) \in {h} \cup (FreeIn(h) \ {n}) /\ TakenRover(h, n) \in 0..Top
<1>1. /\ p \in Addr /\ p \in Int /\ size[p] \in Int /\ n \in Int /\ n \in Addr /\ p < n /\ Within(h, p) /\ Within(h, n)
      /\ n \in Blocks(h) /\ n \notin used /\ size[n] \in Int /\ 0 < size[n] /\ n # h /\ p # h /\ h \in Addr /\ h \in Int
      /\ 0 < size[p] /\ n + size[n] <= Top
  <2>1. n \in Blocks(h) /\ n \notin used /\ p \in Blocks(h)
    BY BlocksAre DEF NextFree
  <2>2. /\ p \in Addr /\ p \in Int /\ size[p] \in Int /\ Within(h, p) /\ 0 < size[p]
        /\ n \in Addr /\ n \in Int /\ size[n] \in Int /\ Within(h, n) /\ 0 < size[n] /\ h < p /\ h < n
    BY <2>1, BlockFits, BlocksAre
  <2>3. h \in Addr /\ h \in Int /\ EndTag(h) \in Int
    BY MiniTypes
  <2>4. n + size[n] <= EndTag(h) /\ EndTag(h) <= Top
    BY <2>1, BlockFits
  <2>5. p < n
    BY <2>2 DEF NextFree
  <2> QED
    BY <2>1, <2>2, <2>3, <2>4, <2>5, Sizes
<1>2. n \in FreeIn(h)
  BY DEF NextFree
<1>3. Linked(h, FreeIn(h), next, prev, n)
  BY <1>2, LinkTypes
<1>4. /\ prev[n] \in {h} \cup FreeIn(h) /\ next[n] \in {h} \cup FreeIn(h) /\ prev[n] # n /\ next[n] # n
      /\ prev[n] < n /\ (next[n] = h \/ n < next[n]) /\ prev[n] \in Int /\ next[n] \in Int
  BY <1>1, <1>3 DEF Linked
<1>5. /\ prev[n] \in Addr /\ next[n] \in Addr
      /\ (prev[n] = h \/ Within(h, prev[n])) /\ (next[n] = h \/ Within(h, next[n]))
  BY <1>2, LinkTypes
<1>6. next[n] = h \/ n + size[n] <= next[n]
  <2>1. CASE next[n] \in FreeIn(h)
    <3>1. next[n] \in Blocks(h) /\ (next[n] = h \/ n < next[n])
      BY <1>4, <2>1, BlocksAre
    <3> QED
      BY <1>1, <3>1, BlockFits
  <2> QED
    BY <1>4, <2>1
<1>7. TakenRover(h, n) \in {h} \cup (FreeIn(h) \ {n}) /\ TakenRover(h, n) \in 0..Top
  <2>1. mh[h].rover \in {h} \cup FreeIn(h)
    BY MiniIs
  <2>2. TakenRover(h, n) \in {h} \cup (FreeIn(h) \ {n})
    BY <1>4, <2>1 DEF TakenRover
  <2>3. \A a \in {h} \cup FreeIn(h) : a \in Addr
    BY BlocksAre, MiniTypes
  <2> QED
    BY <2>2, <2>3, Sizes DEF Addr
<1> QED
  BY <1>1, <1>4, <1>5, <1>6, <1>7

AllTaken(h, p, n) ==
  /\ UNCHANGED <<build, moved, used>>
  /\ size' = [size EXCEPT ![p] = @ + size[n], ![n] = 0]
  /\ next' = [next EXCEPT ![prev[n]] = next[n], ![n] = 0]
  /\ prev' = [prev EXCEPT ![next[n]] = prev[n], ![n] = 0]
  /\ mh' = [mh EXCEPT ![h].rover = TakenRover(h, n), ![h].numfree = @ - 1]
\* What becomes of the mini-heap, and of the sizes.
TakenMini(h, p, n) ==
  /\ \A g \in Addr : g # h => mh'[g] = mh[g]
  /\ mh'[h].rover = TakenRover(h, n) /\ mh'[h].b4rover = mh[h].b4rover /\ mh'[h].largest = mh[h].largest
  /\ size'[p] > size[p]
AllGone(h, p, n) ==
  /\ Changed(h, Blocks(h) \ {n}, FreeIn(h) \ {n})
  /\ \A x \in Addr : x # p /\ x # n => size'[x] = size[x]
LEMMA TakeAll ==
  ASSUME MemTypes, MemOK, NEW h \in Minis, NEW p, NEW n, NextFree(h, p, n), AllTaken(h, p, n)
  PROVE  AllGone(h, p, n) /\ TakenMini(h, p, n)
<1> DEFINE B == Blocks(h)
           F == FreeIn(h)
           m == mh[h]
           pp == prev[n]
           pn == next[n]
           rv == TakenRover(h, n)
           r == [m EXCEPT !.rover = rv, !.numfree = m.numfree - 1]
<1>0. /\ p \in Addr /\ p \in Int /\ size[p] \in Int /\ n \in Int /\ n \in Addr /\ p < n /\ Within(h, p) /\ Within(h, n)
      /\ n \in B /\ n \notin used /\ size[n] \in Int /\ 0 < size[n] /\ n # h /\ p # h /\ h \in Addr /\ h \in Int
      /\ pp \in {h} \cup F /\ pn \in {h} \cup F /\ pp # n /\ pn # n
      /\ pp \in Addr /\ pn \in Addr /\ 0 < size[p]
      /\ (pp = h \/ Within(h, pp)) /\ (pn = h \/ Within(h, pn))
      /\ rv \in {h} \cup (F \ {n}) /\ rv \in 0..Top
  BY NextFreeFacts
<1>a. p \in B /\ p \in used /\ n = p + size[p] /\ n \in F
  BY DEF NextFree
<1>eq. /\ UNCHANGED <<build, moved, used>>
       /\ size' = [size EXCEPT ![p] = @ + size[n], ![n] = 0]
       /\ next' = [next EXCEPT ![prev[n]] = next[n], ![n] = 0]
       /\ prev' = [prev EXCEPT ![next[n]] = prev[n], ![n] = 0]
       /\ mh' = [mh EXCEPT ![h].rover = TakenRover(h, n), ![h].numfree = @ - 1]
  BY DEF AllTaken
<1> HIDE DEF B, F, pp, pn, rv
<1>1. /\ size'[p] = size[p] + size[n] /\ size'[n] = 0
      /\ \A a \in Addr : a # p /\ a # n => size'[a] = size[a]
      /\ size' \in [Addr -> Nat]
  <2>1. size \in [Addr -> Nat] /\ size[p] + size[n] \in Nat
    BY <1>0 DEF MemTypes
  <2> QED
    BY <1>0, <1>eq, <2>1
<1>2. /\ r \in MiniRec /\ mh' = [mh EXCEPT ![h] = r] /\ r.len = m.len /\ r.rover = rv
      /\ r.numfree = m.numfree - 1 /\ r.numalloc = m.numalloc
  <2>1. m \in MiniRec
    BY <1>0 DEF MemTypes
  <2>0. mh' = [mh EXCEPT ![h] = r]
    BY <1>0, <1>eq, <2>1 DEF rv, MemTypes, MiniRec
  <2>2. DOMAIN m = {"len", "rover", "b4rover", "largest", "numalloc", "numfree"} /\ m.numfree - 1 \in Int
    BY <2>1 DEF MiniRec
  <2>3. mh' = [mh EXCEPT ![h] = r] /\ rv \in 0..Top
    BY <1>0, <2>0
  <2> HIDE DEF m
  <2> QED
    BY <2>1, <2>2, <2>3 DEF MiniRec
<1>3. used' = used /\ used' \subseteq Addr
  BY <1>eq DEF MemTypes
<1>4. /\ next'[pp] = pn /\ next' \in [Addr -> 0..Top]
      /\ \A a \in Addr : a # pp /\ a # n => next'[a] = next[a]
  <2>1. next' = [next EXCEPT ![pp] = pn, ![n] = 0] /\ next \in [Addr -> 0..Top]
    BY <1>eq DEF pp, pn, MemTypes
  <2>2. pn \in 0..Top /\ 0 \in 0..Top
    BY <1>0, Sizes DEF Addr
  <2> QED
    BY <1>0, <2>1, <2>2
<1>5. /\ prev'[pn] = pp /\ prev' \in [Addr -> 0..Top]
      /\ \A a \in Addr : a # pn /\ a # n => prev'[a] = prev[a]
  <2>1. prev' = [prev EXCEPT ![pn] = pp, ![n] = 0] /\ prev \in [Addr -> 0..Top]
    BY <1>eq DEF pp, pn, MemTypes
  <2>2. pp \in 0..Top /\ 0 \in 0..Top
    BY <1>0, Sizes DEF Addr
  <2> QED
    BY <1>0, <2>1, <2>2
<1>6. B \subseteq Addr /\ F \subseteq B /\ F = B \ used
  BY BlocksAre DEF FreeIn, B, F
<1>7. \A a \in Addr : a \in B \ {n} <=> Within(h, a) /\ size'[a] > 0
  <2>1. \A a \in Addr : a \in B <=> Within(h, a) /\ size[a] > 0
    BY DEF B, Blocks
  <2> QED
    BY <1>0, <1>1, <2>1
<1>8. Walk(h, EndTag(h), B \ {n}, size')
  <2>1. /\ EndTag(h) \in Int /\ B \in SUBSET Int /\ (\A a \in B : size[a] \in Int)
        /\ Walk(h, EndTag(h), B, size)
    BY MiniIs DEF B
  <2>2. \A a \in B \ {p, n} : size'[a] = size[a]
    BY <1>1, <1>6
  <2>3. Join(h, EndTag(h), B, size, p, n, size')
    BY <1>0, <1>a, <1>1, <2>1, <2>2 DEF Join
  <2> QED
    BY <2>3, WalkJoin
<1>9. Ring(h, F \ {n}, next', prev')
  <2>1. /\ F \in SUBSET Int /\ (\A a \in F : h < a) /\ Ring(h, F, next, prev)
        /\ \A a \in {h} \cup F : a \in Addr
    BY <1>0, MiniIs, BlocksAre DEF F, B
  <2>3. Removed(h, F, next, prev, n, next', prev')
    BY <1>0, <1>a, <1>4, <1>5, <2>1 DEF Removed, pp, pn
  <2> QED
    BY <2>3, RingRemove
<1>10. Joined(F \ {n}, size')
  <2>1. Joined(F, size) /\ \A a \in F : a \in Addr /\ a # p
    BY <1>a, <1>6, MiniIs DEF F
  <2> QED
    BY <1>1, <2>1 DEF Joined
<1>11. m.numfree - 1 = Cardinality(F \ {n})
  <2>1. F \in SUBSET Addr
    BY <1>6
  <2>2. Cardinality(F \ {n}) = Cardinality(F) - 1
    BY <1>a, <2>1, CountRemove
  <2>3. m.numfree = Cardinality(F)
    BY MiniIs DEF Counted, F
  <2> QED
    BY <2>2, <2>3
<1>12. m.numalloc = Cardinality((B \ {n}) \cap used')
  <2>1. (B \ {n}) \cap used' = B \cap used
    BY <1>0, <1>3
  <2> QED
    BY <2>1, MiniIs DEF Counted, B
<1>13. \A a \in used' : Within(h, a) => a \in B \ {n}
  <2>1. \A a \in used : a \in Addr /\ size[a] > 0
    BY DEF MemOK, Covered, MemTypes
  <2> QED
    BY <1>0, <1>3, <2>1 DEF B, Blocks
<1>14. F \ {n} = (B \ {n}) \ used' /\ B \ {n} \subseteq Addr
  BY <1>3, <1>6
<1>15. /\ \A a \in Addr : ~Within(h, a) => size'[a] = size[a] /\ (a \in used' <=> a \in used)
       /\ \A a \in Addr : ~Within(h, a) /\ a # h => next'[a] = next[a] /\ prev'[a] = prev[a]
  BY <1>0, <1>1, <1>3, <1>4, <1>5
<1>16. Edited(h, r, B \ {n}, F \ {n})
  <2> HIDE DEF r
  <2> QED
    BY <1>0, <1>1, <1>2, <1>3, <1>4, <1>5, <1>7, <1>8, <1>9, <1>10, <1>11, <1>12, <1>13, <1>14, <1>15, <1>eq DEF Edited
<1>17. Changed(h, B \ {n}, F \ {n}) /\ mh'[h] = r /\ \A g \in Addr : g # h => mh'[g] = mh[g]
  BY <1>16, Edit
<1>18. m.b4rover = r.b4rover /\ m.largest = r.largest /\ r.rover = rv
  <2>1. DOMAIN m = {"len", "rover", "b4rover", "largest", "numalloc", "numfree"}
    BY <1>0 DEF MemTypes, MiniRec
  <2> QED
    BY <2>1
<1> QED
  <2>1. size'[p] > size[p]
    BY <1>0, <1>1
  <2>2. AllGone(h, p, n)
    BY <1>1, <1>17 DEF B, F, AllGone
  <2>3. TakenMini(h, p, n)
    BY <1>17, <1>18, <2>1 DEF TakenMini, rv
  <2> QED
    BY <2>2, <2>3

FrontTaken(h, p, n, g, n2) ==
  /\ UNCHANGED <<build, moved, used>>
  /\ size' = [a \in Addr |-> size'[a]]
  /\ \A a \in Addr : size'[a] = IF a = p THEN size[p] + g ELSE IF a = n2 THEN size[n] - g
                                ELSE IF a = n THEN 0 ELSE size[a]
  /\ next' = [next EXCEPT ![n] = 0, ![n2] = next[n], ![prev[n]] = n2]
  /\ prev' = [prev EXCEPT ![n] = 0, ![n2] = prev[n], ![next[n]] = n2]
  /\ mh' = [mh EXCEPT ![h].rover = TakenRover(h, n)]
FrontGone(h, p, n, n2) ==
  /\ Changed(h, (Blocks(h) \ {n}) \cup {n2}, (FreeIn(h) \ {n}) \cup {n2})
  /\ n < n2 /\ n2 < n + size[n] /\ n2 \in Addr /\ n2 \notin used /\ size'[n2] < size[n]
  /\ \A x \in Addr : x # p /\ x # n /\ x # n2 => size'[x] = size[x]
LEMMA TakeFront ==
  ASSUME MemTypes, MemOK, NEW h \in Minis, NEW p, NEW n, NextFree(h, p, n),
         NEW g \in Nat, 0 < g, g + Frl <= size[n], NEW n2, n2 = n + g, FrontTaken(h, p, n, g, n2)
  PROVE  FrontGone(h, p, n, n2) /\ TakenMini(h, p, n)
<1>eq. /\ UNCHANGED <<build, moved, used>>
       /\ size' = [a \in Addr |-> size'[a]]
       /\ \A a \in Addr : size'[a] = IF a = p THEN size[p] + g ELSE IF a = n2 THEN size[n] - g
                                     ELSE IF a = n THEN 0 ELSE size[a]
       /\ next' = [next EXCEPT ![n] = 0, ![n2] = next[n], ![prev[n]] = n2]
       /\ prev' = [prev EXCEPT ![n] = 0, ![n2] = prev[n], ![next[n]] = n2]
       /\ mh' = [mh EXCEPT ![h].rover = TakenRover(h, n)]
  BY DEF FrontTaken
<1> DEFINE B == Blocks(h)
           F == FreeIn(h)
           m == mh[h]
           pp == prev[n]
           pn == next[n]
           rv == TakenRover(h, n)
           r == [m EXCEPT !.rover = rv]
<1>0. /\ p \in Addr /\ p \in Int /\ size[p] \in Int /\ n \in Int /\ n \in Addr /\ p < n /\ Within(h, p) /\ Within(h, n)
      /\ n \in B /\ n \notin used /\ size[n] \in Int /\ 0 < size[n] /\ n # h /\ p # h /\ h \in Addr /\ h \in Int
      /\ pp \in {h} \cup F /\ pn \in {h} \cup F /\ pp # n /\ pn # n
      /\ pp \in Addr /\ pn \in Addr /\ 0 < size[p] /\ pp \in Int /\ pn \in Int
      /\ (pp = h \/ Within(h, pp)) /\ (pn = h \/ Within(h, pn))
      /\ pp < n /\ (pn = h \/ (n < pn /\ n + size[n] <= pn))
      /\ rv \in {h} \cup (F \ {n}) /\ rv \in 0..Top
  BY NextFreeFacts
<1>a. p \in B /\ p \in used /\ n = p + size[p] /\ n \in F
  BY DEF NextFree
<1>b. /\ n2 \in Int /\ n < n2 /\ n2 < n + size[n] /\ n2 \in Addr /\ Within(h, n2) /\ n2 \notin B /\ n2 \notin used /\ n2 # h
      /\ size[n] - g > 0 /\ n2 # p
  <2>1. n2 \in Int /\ n < n2 /\ n2 < n + size[n] /\ size[n] - g > 0 /\ n2 # p
    BY <1>0, Sizes
  <2> QED
    BY <1>0, <2>1, InsideBlock
<1> HIDE DEF B, F, pp, pn, rv
<1>6. B \subseteq Addr /\ F \subseteq B /\ F = B \ used
  BY BlocksAre DEF FreeIn, B, F
<1>c. pp # n2 /\ pn # n2 /\ (pn = h \/ n2 < pn) /\ pp < n2
  BY <1>0, <1>b, <1>6
<1>1. /\ size'[p] = size[p] + g /\ size'[n] = 0 /\ size'[n2] = size[n] - g
      /\ \A a \in Addr : a # p /\ a # n /\ a # n2 => size'[a] = size[a]
      /\ size' \in [Addr -> Nat]
  <2>1. size \in [Addr -> Nat] /\ size[p] + g \in Nat /\ size[n] - g \in Nat /\ p # n /\ n # n2
    BY <1>0, <1>b DEF MemTypes
  <2>2. \A a \in Addr : size'[a] \in Nat
    BY <1>0, <1>b, <1>eq, <2>1
  <2> QED
    BY <1>0, <1>b, <1>eq, <2>1, <2>2
<1>2. /\ r \in MiniRec /\ mh' = [mh EXCEPT ![h] = r] /\ r.len = m.len /\ r.rover = rv
      /\ r.numfree = m.numfree /\ r.numalloc = m.numalloc
  <2>1. m \in MiniRec
    BY <1>0 DEF MemTypes
  <2>0. mh' = [mh EXCEPT ![h] = r]
    BY <1>0, <1>eq, <2>1 DEF rv, MemTypes, MiniRec
  <2>2. DOMAIN m = {"len", "rover", "b4rover", "largest", "numalloc", "numfree"}
    BY <2>1 DEF MiniRec
  <2>3. mh' = [mh EXCEPT ![h] = r] /\ rv \in 0..Top
    BY <1>0, <2>0
  <2> HIDE DEF m
  <2> QED
    BY <2>1, <2>2, <2>3 DEF MiniRec
<1>3. used' = used /\ used' \subseteq Addr
  BY <1>eq DEF MemTypes
<1>4. /\ next'[pp] = n2 /\ next'[n2] = pn /\ next' \in [Addr -> 0..Top]
      /\ \A a \in Addr : a # pp /\ a # n /\ a # n2 => next'[a] = next[a]
  <2>1. next' = [next EXCEPT ![n] = 0, ![n2] = pn, ![pp] = n2] /\ next \in [Addr -> 0..Top]
    BY <1>eq DEF pp, pn, MemTypes
  <2>2. pn \in 0..Top /\ 0 \in 0..Top /\ n2 \in 0..Top
    BY <1>0, <1>b, Sizes DEF Addr
  <2> QED
    <3>1. pp \in Addr /\ n2 \in Addr /\ n \in Addr /\ pp # n2 /\ pp # n /\ n # n2
      BY <1>0, <1>b, <1>c
    <3>2. next'[pp] = n2 /\ next'[n2] = pn
      BY <2>1, <3>1
    <3>3. \A a \in Addr : a # pp /\ a # n /\ a # n2 => next'[a] = next[a]
      BY <2>1, <3>1
    <3>4. next' \in [Addr -> 0..Top]
      BY <2>1, <2>2, <3>1
    <3> QED
      BY <3>2, <3>3, <3>4
<1>5. /\ prev'[pn] = n2 /\ prev'[n2] = pp /\ prev' \in [Addr -> 0..Top]
      /\ \A a \in Addr : a # pn /\ a # n /\ a # n2 => prev'[a] = prev[a]
  <2>1. prev' = [prev EXCEPT ![n] = 0, ![n2] = pp, ![pn] = n2] /\ prev \in [Addr -> 0..Top]
    BY <1>eq DEF pp, pn, MemTypes
  <2>2. pp \in 0..Top /\ 0 \in 0..Top /\ n2 \in 0..Top
    BY <1>0, <1>b, Sizes DEF Addr
  <2> QED
    <3>1. pn \in Addr /\ n2 \in Addr /\ n \in Addr /\ pn # n2 /\ pn # n /\ n # n2
      BY <1>0, <1>b, <1>c
    <3>2. prev'[pn] = n2 /\ prev'[n2] = pp
      BY <2>1, <3>1
    <3>3. \A a \in Addr : a # pn /\ a # n /\ a # n2 => prev'[a] = prev[a]
      BY <2>1, <3>1
    <3>4. prev' \in [Addr -> 0..Top]
      BY <2>1, <2>2, <3>1
    <3> QED
      BY <3>2, <3>3, <3>4
<1> DEFINE B2 == (B \ {n}) \cup {n2}
           F2 == (F \ {n}) \cup {n2}
<1>7. \A a \in Addr : a \in B2 <=> Within(h, a) /\ size'[a] > 0
  <2>1. \A a \in Addr : a \in B <=> Within(h, a) /\ size[a] > 0
    BY DEF B, Blocks
  <2> QED
    BY <1>0, <1>b, <1>1, <2>1
<1>8. Walk(h, EndTag(h), B2, size')
  <2>1. /\ EndTag(h) \in Int /\ B \in SUBSET Int /\ (\A a \in B : size[a] \in Int)
        /\ Walk(h, EndTag(h), B, size)
    BY MiniIs DEF B
  <2>2. \A a \in B \ {p, n} : size'[a] = size[a]
    BY <1>b, <1>1, <1>6
  <2>4. g \in Int /\ 0 < g /\ Frl <= size[n] - g /\ n2 = n + g
    BY <1>0, Sizes
  <2>3. Shift(h, EndTag(h), B, size, p, n, g, n2, size')
    BY <1>0, <1>a, <1>1, <2>1, <2>2, <2>4 DEF Shift
  <2> QED
    BY <2>3, WalkShift
<1>9. Ring(h, F2, next', prev') /\ n2 \notin F \ {n}
  <2>1. /\ F \in SUBSET Int /\ (\A a \in F : h < a) /\ Ring(h, F, next, prev)
        /\ \A a \in {h} \cup F : a \in Addr /\ a # n2
    BY <1>0, <1>b, <1>6, MiniIs, BlocksAre DEF F, B
  <2>3. Replaced(h, F, next, prev, n, n2, next', prev')
    BY <1>0, <1>a, <1>b, <1>c, <1>4, <1>5, <2>1 DEF Replaced, pp, pn
  <2> QED
    BY <2>3, RingReplace
<1>10. Joined(F2, size')
  <2>1. Joined(F, size) /\ \A a \in F : a \in Addr /\ a # p /\ a # n2
    BY <1>a, <1>b, <1>6, MiniIs DEF F
  <2>2. n2 + size'[n2] = n + size[n]
    BY <1>0, <1>1
  <2>3. \A a \in F : a + size[a] # n2
    <3>1. \A a \in F : a + size[a] \in B \cup {EndTag(h)}
      BY <1>6, BlockFits DEF B
    <3>2. n2 # EndTag(h)
      BY <1>b, MiniTypes DEF Within
    <3> QED
      BY <1>b, <3>1, <3>2
  <2> QED
    BY <1>0, <1>a, <1>b, <1>1, <2>1, <2>2, <2>3 DEF Joined
<1>11. m.numfree = Cardinality(F2)
  <2>1. F \in SUBSET Addr /\ F \ {n} \in SUBSET Addr
    BY <1>6
  <2>2. Cardinality(F \ {n}) = Cardinality(F) - 1 /\ Cardinality(F) \in Int
    BY <1>a, <2>1, CountRemove
  <2>3. Cardinality(F2) = Cardinality(F \ {n}) + 1
    BY <1>9, <1>b, <2>1, CountAdd
  <2>4. m.numfree = Cardinality(F)
    BY MiniIs DEF Counted, F
  <2> QED
    BY <2>2, <2>3, <2>4
<1>12. m.numalloc = Cardinality(B2 \cap used')
  <2>1. B2 \cap used' = B \cap used
    BY <1>0, <1>b, <1>3
  <2> QED
    BY <2>1, MiniIs DEF Counted, B
<1>13. \A a \in used' : Within(h, a) => a \in B2
  <2>1. \A a \in used : a \in Addr /\ size[a] > 0
    BY DEF MemOK, Covered, MemTypes
  <2> QED
    BY <1>0, <1>3, <2>1 DEF B, Blocks
<1>14. F2 = B2 \ used' /\ B2 \subseteq Addr
  BY <1>b, <1>3, <1>6
<1>15. /\ \A a \in Addr : ~Within(h, a) => size'[a] = size[a] /\ (a \in used' <=> a \in used)
       /\ \A a \in Addr : ~Within(h, a) /\ a # h => next'[a] = next[a] /\ prev'[a] = prev[a]
  BY <1>0, <1>b, <1>1, <1>3, <1>4, <1>5
<1>16. Edited(h, r, B2, F2)
  <2>1. r.rover \in {h} \cup F2
    BY <1>0, <1>2
  <2> HIDE DEF r, B2, F2
  <2> QED
    BY <1>0, <1>1, <1>2, <1>3, <1>4, <1>5, <1>7, <1>8, <1>9, <1>10, <1>11, <1>12, <1>13, <1>14, <1>15, <1>eq, <2>1 DEF Edited
<1>17. Changed(h, B2, F2) /\ mh'[h] = r /\ \A f \in Addr : f # h => mh'[f] = mh[f]
  BY <1>16, Edit
<1>18. m.b4rover = r.b4rover /\ m.largest = r.largest /\ r.rover = rv
  <2>1. DOMAIN m = {"len", "rover", "b4rover", "largest", "numalloc", "numfree"}
    BY <1>0 DEF MemTypes, MiniRec
  <2> QED
    BY <2>1
<1> QED
  <2>1. size'[p] > size[p] /\ size'[n2] < size[n]
    BY <1>0, <1>1
  <2>2. FrontGone(h, p, n, n2)
    BY <1>1, <1>b, <1>17, <2>1 DEF B, F, FrontGone
  <2>3. TakenMini(h, p, n)
    BY <1>17, <1>18, <2>1 DEF TakenMini, rv
  <2> QED
    BY <2>2, <2>3

-----------------------------------------------------------------------------
(* Mini-heaps that come and go *)

\* All that is said of a mini-heap that a step leaves alone.
Kept(g) ==
  Blocks(g)' = Blocks(g) /\ FreeIn(g)' = FreeIn(g) /\ EndTag(g)' = EndTag(g)

\* __LinkUpNewMHeap: a new mini-heap, of one allocated block.
NewMini(h, len, largest) ==
  [len |-> len, rover |-> h, b4rover |-> 0, largest |-> largest, numalloc |-> 1, numfree |-> 0]
LinkedUp(h, len, largest) ==
  /\ build' = build /\ moved' = moved
  /\ mh' = [mh EXCEPT ![h] = NewMini(h, len, largest)]
  /\ next' = [next EXCEPT ![h] = h] /\ prev' = [prev EXCEPT ![h] = h]
  /\ size' = [size EXCEPT ![h + Hdr] = len - Hdr] /\ used' = used \cup {h + Hdr}
LEMMA LinkUpOK ==
  ASSUME MemTypes, MemOK, NEW h \in Addr, NEW len \in Nat, NEW largest \in 0..Huge,
         Frl <= len - Hdr, h + len <= Top, \A g \in Minis : EndTag(g) < h \/ h + len < g,
         LinkedUp(h, len, largest)
  PROVE  /\ MemTypes' /\ MemOK' /\ Minis' = Minis \cup {h} /\ h \notin Minis
         /\ \A g \in Minis : Kept(g)
         /\ Blocks(h)' = {h + Hdr} /\ FreeIn(h)' = {} /\ EndTag(h)' = h + len
         /\ mh'[h] = NewMini(h, len, largest) /\ \A g \in Addr : g # h => mh'[g] = mh[g]
         /\ h + Hdr \in Addr /\ h + Hdr \notin used /\ size'[h + Hdr] = len - Hdr
         /\ \A x \in Addr : x # h + Hdr => size'[x] = size[x]
<1> DEFINE a == h + Hdr
<1> USE DEF LinkedUp
<1>1. /\ h \in Int /\ a \in Int /\ h < a /\ a < h + len /\ 0 < len - Hdr /\ len - Hdr \in Nat /\ 0 < len
      /\ a \in Addr /\ h + len \in Addr /\ h \in 0..Top
  <2>1. h \in Int /\ h >= 1 /\ h <= Top
    BY Sizes DEF Addr
  <2> QED
    BY <2>1, Sizes DEF Addr
<1>2. \A g \in Minis : g \in Int /\ EndTag(g) \in Int /\ g < EndTag(g) /\ g \in Addr
  BY MiniTypes
<1> HIDE DEF a
<1>3. \A x \in Addr : h <= x /\ x <= h + len => \A g \in Minis : ~Within(g, x) /\ x # g
  <2>1. \A x \in Addr : x \in Int
    BY DEF Addr
  <2> QED
    BY <1>1, <1>2, <2>1 DEF Within
<1>4. \A x \in Addr : h <= x /\ x <= h + len => size[x] = 0 /\ x \notin used
  <2>1. \A x \in Addr : size[x] \in Nat
    BY DEF MemTypes
  <2> QED
    BY <1>3, <2>1 DEF MemOK, Covered
<1>5. h \notin Minis
  BY <1>1, <1>3
<1>6. /\ mh'[h] = NewMini(h, len, largest) /\ \A g \in Addr : g # h => mh'[g] = mh[g]
      /\ mh' \in [Addr -> MiniRec]
  <2>1. mh \in [Addr -> MiniRec]
    BY DEF MemTypes
  <2>2. NewMini(h, len, largest) \in MiniRec
    BY <1>1 DEF NewMini, MiniRec
  <2> QED
    BY <2>1, <2>2
<1>7. Minis' = Minis \cup {h}
  BY <1>1, <1>6 DEF Minis, NewMini
<1>8. /\ size'[a] = len - Hdr /\ \A x \in Addr : x # a => size'[x] = size[x]
      /\ size' \in [Addr -> Nat]
  BY <1>1 DEF MemTypes, a
<1>9. /\ next'[h] = h /\ \A x \in Addr : x # h => next'[x] = next[x]
      /\ next' \in [Addr -> 0..Top]
      /\ prev'[h] = h /\ \A x \in Addr : x # h => prev'[x] = prev[x]
      /\ prev' \in [Addr -> 0..Top]
  BY <1>1 DEF MemTypes
<1>10. used' = used \cup {a} /\ used' \subseteq Addr
  BY <1>1 DEF MemTypes, a
<1>11. MemTypes'
  <2>1. build' \in Builds /\ moved' \in BOOLEAN /\ \A g \in Addr : mh'[g].len = 0 => mh'[g] = NoMini
    BY <1>1, <1>6 DEF MemTypes, NewMini
  <2> QED
    BY <1>6, <1>8, <1>9, <1>10, <2>1 DEF MemTypes
<1>12. ASSUME NEW g \in Minis
       PROVE  Untouched(g)
  <2>1. \A x \in Addr : Within(g, x) \/ x = g => x # a /\ x # h
    BY <1>1, <1>3, <1>2
  <2>2. mh'[g] = mh[g]
    BY <1>2, <1>5, <1>6
  <2> QED
    BY <1>8, <1>9, <1>10, <2>1, <2>2 DEF Untouched
<1>13. \A g \in Minis : Kept(g) /\ MiniOK(g)' /\ Counted(g)'
  BY <1>12, UntouchedKept DEF Kept
<1>14. EndTag(h)' = h + len
  BY <1>6 DEF EndTag, NewMini
<1>15. Blocks(h)' = {a}
  <2>1. \A x : Within(h, x)' <=> h < x /\ x < h + len
    BY <1>14 DEF Within
  <2>2. \A x \in Addr : x \in Int
    BY DEF Addr
  <2>3. ASSUME NEW x \in Addr PROVE h < x /\ x < h + len /\ size'[x] > 0 <=> x = a
    BY <1>1, <1>4, <1>8, <2>2
  <2> QED
    BY <1>1, <2>1, <2>3 DEF Blocks
<1>16. FreeIn(h)' = {} /\ (Blocks(h) \cap used)' = {a}
  BY <1>10, <1>15 DEF FreeIn
<1>17. MiniOK(h)' /\ Counted(h)'
  <2>1. Walk(h, h + len, {a}, size')
    <3>1. h \in Int /\ len \in Int /\ Frl <= len - Hdr /\ size'[h + Hdr] = len - Hdr
      BY <1>1, <1>8 DEF a
    <3> QED
      BY <3>1, WalkOne DEF a
  <2>2. Ring(h, {}, next', prev')
    BY <1>9 DEF Ring
  <2>3. Joined({}, size')
    BY DEF Joined
  <2>4. Cardinality({}) = 0 /\ Cardinality({a}) = 1
    <3>1. Cardinality({}) = 0
      BY FS_EmptySet
    <3>2. Cardinality({} \cup {a}) = Cardinality({}) + 1
      BY <1>1, CountAdd
    <3> QED
      BY <3>1, <3>2
  <2> QED
    BY <1>6, <1>14, <1>15, <1>16, <2>1, <2>2, <2>3, <2>4 DEF MiniOK, Counted, NewMini
<1>18. Apart'
  <2>1. \A g \in Minis : EndTag(g)' = EndTag(g) /\ EndTag(g) <= Top
    BY <1>13 DEF Kept, MemOK, Apart
  <2>2. \A f, g \in Minis : f < g => EndTag(f) < g
    BY DEF MemOK, Apart
  <2> QED
    BY <1>1, <1>2, <1>7, <1>14, <2>1, <2>2 DEF Apart
<1>19. Covered'
  <2>1. Within(h, a)'
    BY <1>1, <1>14 DEF Within
  <2>2. \A g \in Minis : \A x : Within(g, x) => Within(g, x)'
    BY <1>13 DEF Kept, Within
  <2>3. \A x \in Addr : size'[x] > 0 => \E g \in Minis' : Within(g, x)'
    BY <1>7, <1>8, <2>1, <2>2 DEF MemOK, Covered
  <2>4. \A x \in used' : size'[x] > 0
    <3>1. \A x \in used : size[x] > 0 /\ x \in Addr
      BY DEF MemOK, Covered, MemTypes
    <3> QED
      BY <1>1, <1>8, <1>10, <3>1
  <2> QED
    BY <2>3, <2>4 DEF Covered
<1>20. MemOK'
  BY <1>7, <1>13, <1>17, <1>18, <1>19 DEF MemOK
<1>21. a \notin used
  BY <1>1, <1>4
<1> QED
  BY <1>1, <1>5, <1>6, <1>7, <1>8, <1>11, <1>13, <1>14, <1>15, <1>16, <1>20, <1>21 DEF a

\* A mini-heap that is one free block is given back.
Dropped(h, c) ==
  /\ UNCHANGED <<build, moved, used>>
  /\ mh' = [mh EXCEPT ![h] = NoMini]
  /\ size' = [size EXCEPT ![c] = 0]
  /\ next' = [next EXCEPT ![c] = 0, ![h] = 0]
  /\ prev' = [prev EXCEPT ![c] = 0, ![h] = 0]
LEMMA DropOK ==
  ASSUME MemTypes, MemOK, NEW h \in Minis, NEW c \in FreeIn(h), mh[h].len - Hdr <= size[c], Dropped(h, c)
  PROVE  /\ MemTypes' /\ MemOK' /\ Minis' = Minis \ {h}
         /\ \A g \in Minis : g # h => Kept(g)
         /\ \A g \in Addr : g # h => mh'[g] = mh[g]
         /\ c \notin used /\ c \in Addr /\ \A x \in Addr : x # c => size'[x] = size[x]
         /\ Blocks(h) = {c} /\ c = h + Hdr
<1> USE DEF Dropped
<1>1. c \in Blocks(h) /\ c \notin used /\ c \in Addr /\ h \in Addr /\ Within(h, c)
  BY BlocksAre, MiniTypes
<1>2. Blocks(h) = {c} /\ c = h + Hdr
  <2>1. /\ h \in Int /\ mh[h].len \in Int /\ Blocks(h) \in SUBSET Int /\ (\A a \in Blocks(h) : size[a] \in Int)
        /\ Walk(h, h + mh[h].len, Blocks(h), size)
    BY MiniIs, MiniTypes DEF EndTag
  <2> QED
    BY <1>1, <2>1, WalkAll
<1>3. /\ mh'[h] = NoMini /\ \A g \in Addr : g # h => mh'[g] = mh[g]
      /\ mh' \in [Addr -> MiniRec]
  <2>1. mh \in [Addr -> MiniRec]
    BY DEF MemTypes
  <2>2. NoMini \in MiniRec
    BY Sizes DEF NoMini, MiniRec, Huge
  <2> QED
    BY <1>1, <2>1, <2>2
<1>4. Minis' = Minis \ {h}
  BY <1>1, <1>3 DEF Minis, NoMini
<1>5. /\ size'[c] = 0 /\ \A x \in Addr : x # c => size'[x] = size[x]
      /\ size' \in [Addr -> Nat]
  BY <1>1 DEF MemTypes
<1>6. /\ \A x \in Addr : x # h /\ x # c => next'[x] = next[x] /\ prev'[x] = prev[x]
      /\ next' \in [Addr -> 0..Top]
      /\ prev' \in [Addr -> 0..Top]
  BY <1>1, Sizes DEF MemTypes
<1>7. MemTypes'
  <2>1. build' \in Builds /\ moved' \in BOOLEAN /\ used' \subseteq Addr /\ \A g \in Addr : mh'[g].len = 0 => mh'[g] = NoMini
    BY <1>1, <1>3 DEF MemTypes
  <2> QED
    BY <1>3, <1>5, <1>6, <2>1 DEF MemTypes
<1>8. ASSUME NEW g \in Minis, g # h
      PROVE  Untouched(g)
  <2>1. \A x \in Addr : Within(g, x) \/ x = g => x # c /\ x # h
    <3>1. c \in Int /\ h \in Int /\ g \in Int /\ Within(h, c) /\ EndTag(h) \in Int /\ EndTag(g) \in Int
      BY <1>1, MiniTypes DEF Addr
    <3>2. ~Within(g, c) /\ ~Within(g, h)
      BY <1>8, <3>1, MiniTypes, InOneMini DEF MemOK, Apart, Within
    <3>3. g # c
      BY <1>8, <3>1 DEF MemOK, Apart, Within
    <3> QED
      BY <1>8, <3>2, <3>3
  <2>2. mh'[g] = mh[g]
    BY <1>3, <1>8, MiniTypes
  <2> QED
    BY <1>5, <1>6, <2>1, <2>2 DEF Untouched
<1>9. \A g \in Minis : g # h => Kept(g) /\ MiniOK(g)' /\ Counted(g)'
  BY <1>8, UntouchedKept DEF Kept
<1>10. Apart'
  <2>1. \A g \in Minis : g # h => EndTag(g)' = EndTag(g)
    BY <1>9 DEF Kept
  <2> QED
    BY <1>4, <2>1 DEF MemOK, Apart
<1>11. Covered'
  <2>1. \A g \in Minis : g # h => \A x : Within(g, x) => Within(g, x)'
    BY <1>9 DEF Kept, Within
  <2>2. \A x \in Addr : size[x] > 0 /\ x # c => ~Within(h, x)
    BY <1>2 DEF Blocks
  <2>3. \A x \in Addr : size'[x] > 0 => x # c /\ size[x] > 0
    BY <1>5
  <2>4. \A x \in Addr : size'[x] > 0 => \E g \in Minis' : Within(g, x)'
    BY <1>4, <2>1, <2>2, <2>3 DEF MemOK, Covered
  <2>5. \A x \in used' : size'[x] > 0
    BY <1>1, <1>5 DEF MemOK, Covered, MemTypes
  <2> QED
    BY <2>4, <2>5 DEF Covered
<1>12. MemOK'
  BY <1>4, <1>9, <1>10, <1>11 DEF MemOK
<1> QED
  BY <1>1, <1>2, <1>3, <1>4, <1>5, <1>7, <1>9, <1>12

\* The last mini-heap is made longer by an allocated block.
Extended(h, n) ==
  /\ UNCHANGED <<build, moved, next, prev>>
  /\ mh' = [mh EXCEPT ![h].len = @ + n, ![h].numalloc = @ + 1, ![h].largest = Huge]
  /\ size' = [size EXCEPT ![EndTag(h)] = n]
  /\ used' = used \cup {EndTag(h)}
LongerMini(h, n) == [mh[h] EXCEPT !.len = @ + n, !.numalloc = @ + 1, !.largest = Huge]
LEMMA ExtendOK ==
  ASSUME MemTypes, MemOK, NEW h \in Minis, \A g \in Minis : g <= h, NEW n \in Nat, Frl <= n, EndTag(h) + n <= Top,
         Extended(h, n)
  PROVE  /\ MemTypes' /\ MemOK' /\ Minis' = Minis
         /\ Blocks(h)' = Blocks(h) \cup {EndTag(h)} /\ FreeIn(h)' = FreeIn(h) /\ EndTag(h)' = EndTag(h) + n
         /\ mh'[h] = LongerMini(h, n) /\ \A g \in Addr : g # h => mh'[g] = mh[g]
         /\ EndTag(h) \in Addr /\ EndTag(h) \notin used /\ size'[EndTag(h)] = n
         /\ \A g \in Minis : g # h => EndTag(g)' = EndTag(g) /\ EndTag(g) < h /\ Untouched(g)
         /\ \A x \in Addr : x # EndTag(h) => size'[x] = size[x]
<1> DEFINE e == EndTag(h)
           B == Blocks(h)
           F == FreeIn(h)
           m == mh[h]
           r == LongerMini(h, n)
<1> USE DEF Extended
<1>1. /\ h \in Int /\ h \in Addr /\ e \in Int /\ h < e /\ e \in Addr /\ 0 < n /\ m.len \in Nat /\ m.len > 0
      /\ e = h + m.len /\ e + n \in Int /\ e < e + n
  <2>1. /\ h \in Int /\ h \in Addr /\ h > 0 /\ e \in Int /\ h < e /\ m.len \in Nat /\ m.len > 0 /\ e = h + m.len /\ e <= Top
    BY MiniTypes DEF EndTag, MemOK, Apart
  <2> QED
    BY <2>1, Sizes DEF Addr
<1> HIDE DEF e, m
<1>o. \A g \in Minis : /\ g \in Int /\ EndTag(g) \in Int /\ (g # h => g < h /\ EndTag(g) < h)
  BY <1>1, MiniTypes DEF MemOK, Apart
<1>2. \A x \in Addr : (x < e \/ (size[x] = 0 /\ x \notin used)) /\ x \in Int
  <2>1. \A x \in Addr : size[x] \in Nat /\ x \in Int
    BY DEF MemTypes, Addr
  <2>2. ASSUME NEW x \in Addr, size[x] > 0 PROVE x < e
    <3>1. PICK g \in Minis : Within(g, x)
      BY <2>2 DEF MemOK, Covered
    <3>2. x < EndTag(g) /\ (g = h => EndTag(g) = e)
      BY <3>1 DEF Within, e
    <3> QED
      BY <1>1, <1>o, <2>1, <3>2
  <2>3. ASSUME NEW x \in Addr, ~(x < e) PROVE size[x] = 0 /\ x \notin used
    <3>1. ~(size[x] > 0) /\ size[x] \in Nat
      BY <2>1, <2>2, <2>3
    <3>2. x \notin used
      BY <3>1 DEF MemOK, Covered
    <3> QED
      BY <3>1, <3>2
  <2> QED
    BY <2>1, <2>3
<1>3. size[e] = 0 /\ e \notin used /\ ~Within(h, e)
  <2>1. ~Within(h, e)
    BY <1>1 DEF Within, e
  <2> QED
    BY <1>1, <1>2, <2>1
<1>4. /\ r \in MiniRec /\ r.len = m.len + n /\ r.rover = m.rover /\ r.numfree = m.numfree /\ r.numalloc = m.numalloc + 1
      /\ r = [m EXCEPT !.len = m.len + n, !.numalloc = m.numalloc + 1, !.largest = Huge]
  <2>1. m \in MiniRec /\ r = [m EXCEPT !.len = m.len + n, !.numalloc = m.numalloc + 1, !.largest = Huge]
    BY <1>1 DEF MemTypes, m, LongerMini
  <2>2. DOMAIN m = {"len", "rover", "b4rover", "largest", "numalloc", "numfree"}
        /\ m.len + n \in Nat /\ m.numalloc + 1 \in Int /\ Huge \in 0..Huge
    BY <1>1, <2>1, Sizes DEF MiniRec, Huge
  <2> HIDE DEF r
  <2> QED
    BY <2>1, <2>2 DEF MiniRec
<1>5. mh' = [mh EXCEPT ![h] = r]
  <2>1. h \in DOMAIN mh /\ m \in MiniRec
    BY <1>1 DEF MemTypes, m
  <2>2. mh' = [mh EXCEPT ![h].len = m.len + n, ![h].numalloc = m.numalloc + 1, ![h].largest = Huge]
    BY <2>1 DEF m, MiniRec
  <2> QED
    BY <2>1, <2>2 DEF LongerMini, m, MiniRec
<1> HIDE DEF r
<1>6. /\ mh'[h] = r /\ \A g \in Addr : g # h => mh'[g] = mh[g]
      /\ mh' \in [Addr -> MiniRec]
  BY <1>1, <1>4, <1>5 DEF MemTypes
<1>a. mh'[h].len = m.len + n /\ mh'[h].len > 0 /\ h + mh'[h].len = e + n
  <2>1. mh'[h].len = m.len + n
    BY <1>4, <1>6
  <2> QED
    BY <1>1, <2>1
<1>7. Minis' = Minis
  BY <1>1, <1>a, <1>6 DEF Minis
<1>8. EndTag(h)' = e + n
  BY <1>a DEF EndTag
<1>9. /\ size'[e] = n /\ \A x \in Addr : x # e => size'[x] = size[x]
      /\ size' \in [Addr -> Nat]
  BY <1>1 DEF MemTypes, e
<1>10. used' = used \cup {e} /\ used' \subseteq Addr
  BY <1>1 DEF MemTypes, e
<1>11. MemTypes'
  <2>1. build' \in Builds /\ moved' \in BOOLEAN /\ next' \in [Addr -> 0..Top] /\ prev' \in [Addr -> 0..Top]
    BY DEF MemTypes
  <2>2. \A g \in Addr : mh'[g].len = 0 => mh'[g] = NoMini
    BY <1>a, <1>6 DEF MemTypes
  <2> QED
    BY <1>6, <1>9, <1>10, <2>1, <2>2 DEF MemTypes
<1>12. B = {x \in Addr : h < x /\ x < e /\ size[x] > 0}
  BY DEF Blocks, Within, e
<1>13. Blocks(h)' = B \cup {e}
  <2>1. \A x : Within(h, x)' <=> h < x /\ x < e + n
    BY <1>8 DEF Within
  <2>2. \A x \in Addr : x \in Int /\ (size[x] > 0 => x < e) /\ size[x] \in Nat
    BY <1>2 DEF MemTypes
  <2>3. ASSUME NEW x \in Addr PROVE Within(h, x)' /\ size'[x] > 0 <=> x \in B \/ x = e
    BY <1>1, <1>9, <1>12, <2>1, <2>2
  <2>4. Blocks(h)' = {x \in Addr : Within(h, x)' /\ size'[x] > 0}
    BY DEF Blocks
  <2> QED
    BY <1>1, <1>12, <2>3, <2>4
<1>14. FreeIn(h)' = F /\ (Blocks(h) \cap used)' = (B \cap used) \cup {e}
  <2>1. e \notin B
    BY <1>1, <1>12
  <2> QED
    BY <1>3, <1>10, <1>13, <2>1 DEF FreeIn
<1>15. MiniOK(h)' /\ Counted(h)'
  <2>1. Walk(h, e + n, B \cup {e}, size')
    <3>1. /\ e \in Int /\ B \in SUBSET Int /\ (\A a \in B : size[a] \in Int) /\ Walk(h, e, B, size)
      BY MiniIs DEF e
    <3>2. \A a \in B : a \in Addr /\ a # e
      BY <1>1, <1>12
    <3>3. Extend(h, e, B, size, n, size')
      BY <1>1, <1>9, <3>1, <3>2 DEF Extend
    <3> QED
      BY <3>3, WalkExtend
  <2>2. Ring(h, F, next', prev')
    BY MiniIs
  <2>3. Joined(F, size')
    <3>1. \A a \in F : a \in Addr /\ a # e
      BY <1>1, <1>12, BlocksAre
    <3> QED
      BY <1>9, <3>1, MiniIs DEF Joined
  <2>4. Cardinality((B \cap used) \cup {e}) = Cardinality(B \cap used) + 1
    <3>1. B \cap used \in SUBSET Addr /\ e \notin B \cap used
      BY <1>3, <1>12
    <3> QED
      BY <1>1, <3>1, CountAdd
  <2>5. m.rover \in {h} \cup F /\ m.numfree = Cardinality(F) /\ m.numalloc = Cardinality(B \cap used)
    BY MiniIs DEF Counted, m
  <2> QED
    BY <1>4, <1>6, <1>8, <1>13, <1>14, <2>1, <2>2, <2>3, <2>4, <2>5 DEF MiniOK, Counted
<1>u. \A g \in Minis : g # h => Untouched(g) /\ EndTag(g)' = EndTag(g)
  <2> SUFFICES ASSUME NEW g \in Minis, g # h PROVE Untouched(g)
    BY UntouchedKept
  <2>1. \A a \in Addr : Within(g, a) => a # e
    BY <1>1, <1>o DEF Within
  <2>2. mh'[g] = mh[g] /\ g \in Addr
    BY <1>6 DEF Minis
  <2> QED
    BY <1>9, <1>10, <2>1, <2>2 DEF Untouched
<1>16. Apart'
  <2>1. \A g \in Minis : g # h => g < h /\ EndTag(g)' = EndTag(g) /\ EndTag(g)' < h
    BY <1>o, <1>u
  <2>2. EndTag(h)' <= Top
    BY <1>8 DEF e
  <2>3. \A g, k \in Minis : g < k => EndTag(g)' < k
    <3> SUFFICES ASSUME NEW g \in Minis, NEW k \in Minis, g < k PROVE EndTag(g)' < k
      OBVIOUS
    <3>1. g # h
      BY <1>1, <1>o
    <3>2. EndTag(g) < k
      BY DEF MemOK, Apart
    <3> QED
      BY <1>u, <3>1, <3>2
  <2>4. \A g \in Minis : EndTag(g)' <= Top
    BY <1>u, <2>2 DEF MemOK, Apart
  <2> QED
    BY <1>7, <2>3, <2>4 DEF Apart
<1>17. Covered'
  <2>1. ASSUME NEW x \in Addr, size'[x] > 0 PROVE \E g \in Minis : Within(g, x)'
    <3>1. CASE x = e
      <4>1. Within(h, x)'
        BY <1>1, <1>8, <3>1 DEF Within
      <4> QED
        BY <4>1
    <3>2. CASE x # e
      <4>1. PICK g \in Minis : Within(g, x)
        BY <1>9, <2>1, <3>2 DEF MemOK, Covered
      <4>2. Within(g, x)'
        <5>1. CASE g = h
          BY <1>1, <1>2, <1>8, <4>1, <5>1 DEF Within, e
        <5>2. CASE g # h
          BY <1>u, <4>1, <5>2 DEF Within
        <5> QED
          BY <5>1, <5>2
      <4> QED
        BY <4>2
    <3> QED
      BY <3>1, <3>2
  <2>2. \A x \in used' : size'[x] > 0
    BY <1>1, <1>9, <1>10 DEF MemOK, Covered, MemTypes
  <2> QED
    BY <1>7, <2>1, <2>2 DEF Covered
<1>18. MemOK'
  BY <1>7, <1>15, <1>16, <1>17, <1>u, UntouchedKept DEF MemOK
<1> QED
  BY <1>1, <1>3, <1>6, <1>7, <1>8, <1>9, <1>11, <1>13, <1>14, <1>18, <1>o, <1>u DEF e, r

\* The free block at the end of the last mini-heap is given back.
Shortened(h, c) ==
  /\ UNCHANGED <<build, moved, used>>
  /\ mh' = [mh EXCEPT ![h].len = @ - size[c], ![h].numfree = @ - 1,
                      ![h].rover = IF @ = c THEN prev[c] ELSE @]
  /\ size' = [size EXCEPT ![c] = 0]
  /\ next' = [next EXCEPT ![prev[c]] = h, ![c] = 0]
  /\ prev' = [prev EXCEPT ![h] = prev[c], ![c] = 0]
ShorterMini(h, c) == [mh[h] EXCEPT !.len = @ - size[c], !.numfree = @ - 1, !.rover = TakenRover(h, c)]
LEMMA ShortenOK ==
  ASSUME MemTypes, MemOK, NEW h \in Minis, \A g \in Minis : g <= h, NEW c \in FreeIn(h), c = prev[h],
         c + size[c] = EndTag(h), mh[h].len - size[c] > Hdr, Shortened(h, c)
  PROVE  /\ MemTypes' /\ MemOK' /\ Minis' = Minis
         /\ Blocks(h)' = Blocks(h) \ {c} /\ FreeIn(h)' = FreeIn(h) \ {c} /\ EndTag(h)' = c
         /\ mh'[h] = ShorterMini(h, c) /\ \A g \in Addr : g # h => mh'[g] = mh[g]
         /\ \A g \in Minis : g # h => EndTag(g)' = EndTag(g) /\ EndTag(g) < h /\ Untouched(g)
         /\ c \notin used /\ c \in Addr /\ \A x \in Addr : x # c => size'[x] = size[x]
<1> DEFINE e == EndTag(h)
           B == Blocks(h)
           F == FreeIn(h)
           m == mh[h]
           pp == prev[c]
           r == ShorterMini(h, c)
           rv == TakenRover(h, c)
<1> USE DEF Shortened
<1>1. /\ h \in Int /\ h \in Addr /\ e \in Int /\ h < e /\ m.len \in Nat /\ m.len > 0
      /\ e = h + m.len /\ e <= Top
  BY MiniTypes DEF EndTag, MemOK, Apart
<1>2. c \in B /\ c \notin used /\ c \in Addr /\ c \in Int /\ size[c] \in Int /\ 0 < size[c] /\ h < c /\ c < e /\ c # h
  <2>1. c \in B /\ c \notin used /\ size[c] > 0 /\ h < c
    BY BlocksAre
  <2>2. c \in Addr /\ c \in Int /\ size[c] \in Int
    BY <2>1, BlockFits
  <2> QED
    BY <1>1, <2>1, <2>2
<1>3. /\ Linked(h, F, next, prev, c) /\ Linked(h, F, next, prev, h) /\ pp \in Addr
  <2>1. c \in {h} \cup F /\ h \in {h} \cup F
    OBVIOUS
  <2> QED
    BY <2>1, LinkTypes
<1>4. pp \in {h} \cup F /\ pp # c /\ next[c] = h /\ pp < c
  BY <1>2, <1>3 DEF Linked
<1>5. /\ rv \in {h} \cup (F \ {c}) /\ rv \in 0..Top
  <2>1. m.rover \in {h} \cup F
    BY MiniIs
  <2>2. rv \in {h} \cup (F \ {c})
    BY <1>4, <2>1 DEF TakenRover
  <2>3. \A a \in {h} \cup F : a \in Addr
    BY BlocksAre, MiniTypes
  <2> QED
    BY <2>2, <2>3, Sizes DEF Addr
<1>s. m.len - size[c] \in Nat /\ m.len - size[c] > 0 /\ h + (m.len - size[c]) = c /\ c # h + Hdr
  <2>1. m.len - size[c] > Hdr
    OBVIOUS
  <2>2. c + size[c] = h + m.len
    BY <1>1
  <2> HIDE DEF m
  <2> QED
    BY <1>1, <1>2, <2>1, <2>2, Sizes
<1>6. /\ r \in MiniRec /\ r.len = m.len - size[c] /\ r.rover = rv /\ r.numfree = m.numfree - 1 /\ r.numalloc = m.numalloc
  <2>1. m \in MiniRec /\ r = [m EXCEPT !.len = m.len - size[c], !.numfree = m.numfree - 1, !.rover = rv]
    BY <1>1 DEF MemTypes, ShorterMini
  <2>2. DOMAIN m = {"len", "rover", "b4rover", "largest", "numalloc", "numfree"} /\ m.numfree - 1 \in Int
    BY <2>1 DEF MiniRec
  <2>3. m.len - size[c] \in Nat /\ rv \in 0..Top
    BY <1>5, <1>s
  <2> HIDE DEF m, r, rv
  <2> QED
    BY <2>1, <2>2, <2>3 DEF MiniRec
<1>7. mh' = [mh EXCEPT ![h] = r]
  <2>1. h \in DOMAIN mh /\ m \in MiniRec
    BY <1>1 DEF MemTypes
  <2>2. mh' = [mh EXCEPT ![h].len = m.len - size[c], ![h].numfree = m.numfree - 1, ![h].rover = rv]
    BY <2>1 DEF MiniRec, TakenRover
  <2> QED
    BY <2>1, <2>2 DEF ShorterMini, MiniRec
<1> HIDE DEF e, B, F, m, r, pp, rv
<1>8. /\ mh'[h] = r /\ \A g \in Addr : g # h => mh'[g] = mh[g]
      /\ mh' \in [Addr -> MiniRec]
  <2>1. mh \in [Addr -> MiniRec] /\ r \in MiniRec /\ h \in Addr
    BY <1>1, <1>6 DEF MemTypes
  <2>2. mh' = [mh EXCEPT ![h] = r]
    BY <1>7
  <2> HIDE DEF Shortened
  <2> QED
    BY <2>1, <2>2
<1>a. mh'[h].len = m.len - size[c] /\ mh'[h].len > 0 /\ h + mh'[h].len = c
  <2>1. mh'[h].len = m.len - size[c]
    BY <1>6, <1>8
  <2> QED
    BY <1>s, <2>1
<1>9. Minis' = Minis
  BY <1>1, <1>a, <1>8 DEF Minis
<1>10. EndTag(h)' = c
  BY <1>a DEF EndTag
<1>11. /\ size'[c] = 0 /\ \A x \in Addr : x # c => size'[x] = size[x]
       /\ size' \in [Addr -> Nat]
  BY <1>2 DEF MemTypes
<1>12. /\ next'[pp] = h /\ next' \in [Addr -> 0..Top]
       /\ \A x \in Addr : x # pp /\ x # c => next'[x] = next[x]
       /\ prev'[h] = pp /\ prev' \in [Addr -> 0..Top]
       /\ \A x \in Addr : x # h /\ x # c => prev'[x] = prev[x]
  <2>1. next' = [next EXCEPT ![pp] = h, ![c] = 0] /\ prev' = [prev EXCEPT ![h] = pp, ![c] = 0]
        /\ next \in [Addr -> 0..Top] /\ prev \in [Addr -> 0..Top]
    BY DEF pp, MemTypes
  <2>2. h \in 0..Top /\ pp \in 0..Top /\ 0 \in 0..Top
    BY <1>1, <1>3, Sizes DEF Addr
  <2> QED
    BY <1>1, <1>2, <1>3, <1>4, <2>1, <2>2
<1>13. MemTypes'
  <2>1. build' \in Builds /\ moved' \in BOOLEAN /\ used' \subseteq Addr
    BY DEF MemTypes
  <2>2. \A g \in Addr : mh'[g].len = 0 => mh'[g] = NoMini
    BY <1>a, <1>8 DEF MemTypes
  <2> QED
    BY <1>8, <1>11, <1>12, <2>1, <2>2 DEF MemTypes
<1>14. /\ \A x \in B : x # c => x < c
       /\ B \subseteq Addr /\ F \subseteq B /\ F = B \ used
  <2>1. \A x \in B : c < x => c + size[c] <= x
    BY <1>2, BlockFits DEF B
  <2>2. \A x \in B : x \in Int /\ x < e /\ x \in Addr
    BY BlocksAre DEF B, Within, e
  <2>3. c + size[c] = e
    BY DEF e
  <2> QED
    BY <1>1, <1>2, <2>1, <2>2, <2>3 DEF B, F, FreeIn
<1>15. Blocks(h)' = B \ {c}
  <2>1. \A x : Within(h, x)' <=> h < x /\ x < c
    BY <1>10 DEF Within
  <2>2. \A x \in Addr : x \in Int /\ (x \in B <=> h < x /\ x < e /\ size[x] > 0)
    BY DEF Within, e, Addr, B, Blocks
  <2>3. ASSUME NEW x \in Addr PROVE Within(h, x)' /\ size'[x] > 0 <=> x \in B \ {c}
    BY <1>1, <1>2, <1>11, <1>14, <2>1, <2>2
  <2>4. Blocks(h)' = {x \in Addr : Within(h, x)' /\ size'[x] > 0}
    BY DEF Blocks
  <2> QED
    BY <1>14, <2>3, <2>4
<1>16. FreeIn(h)' = F \ {c} /\ (Blocks(h) \cap used)' = B \cap used
  BY <1>2, <1>14, <1>15 DEF FreeIn
<1>17. MiniOK(h)' /\ Counted(h)'
  <2>1. Walk(h, c, B \ {c}, size')
    <3>1. /\ e \in Int /\ B \in SUBSET Int /\ (\A a \in B : size[a] \in Int) /\ Walk(h, e, B, size)
      BY MiniIs DEF e, B
    <3>2. c + size[c] = e /\ \A a \in B \ {c} : size'[a] = size[a]
      BY <1>11, <1>14 DEF e
    <3>3. CutOff(h, e, B, size, c, size')
      BY <1>1, <1>2, <1>s, <3>1, <3>2 DEF CutOff
    <3> QED
      BY <3>3, WalkCut
  <2>2. Ring(h, F \ {c}, next', prev')
    <3>1. /\ F \in SUBSET Int /\ (\A a \in F : h < a) /\ Ring(h, F, next, prev) /\ c \in F
          /\ \A a \in {h} \cup F : a \in Addr
      BY <1>1, <1>14, MiniIs DEF F
    <3>2. Removed(h, F, next, prev, c, next', prev')
      BY <1>1, <1>4, <1>12, <3>1 DEF Removed, pp
    <3> QED
      BY <3>2, RingRemove
  <2>3. Joined(F \ {c}, size')
    <3>1. \A a \in F \ {c} : size'[a] = size[a]
      BY <1>11, <1>14
    <3> QED
      BY <3>1, MiniIs DEF Joined, F
  <2>4. Cardinality(F \ {c}) = Cardinality(F) - 1
    <3>1. F \in SUBSET Addr /\ c \in F
      BY <1>14 DEF F
    <3> QED
      BY <3>1, CountRemove
  <2>5. m.numfree = Cardinality(F) /\ m.numalloc = Cardinality(B \cap used)
    BY MiniIs DEF Counted, m, F, B
  <2> QED
    BY <1>5, <1>6, <1>8, <1>10, <1>15, <1>16, <2>1, <2>2, <2>3, <2>4, <2>5 DEF MiniOK, Counted
<1>o. \A g \in Minis : /\ g \in Int /\ EndTag(g) \in Int /\ (g # h => g < h /\ EndTag(g) < h)
  BY <1>1, MiniTypes DEF MemOK, Apart
<1>u. \A g \in Minis : g # h => Untouched(g) /\ EndTag(g)' = EndTag(g)
  <2> SUFFICES ASSUME NEW g \in Minis, g # h PROVE Untouched(g)
    BY UntouchedKept
  <2>1. pp = h \/ h < pp
    BY <1>4, BlocksAre DEF F
  <2>2. pp \in Int
    BY <1>3 DEF Addr
  <2>3. \A a \in Addr : Within(g, a) \/ a = g => a < h /\ a \in Int
    BY <1>1, <1>o DEF Within, Addr
  <2>4. \A a \in Addr : Within(g, a) \/ a = g => a # c /\ a # h /\ a # pp
    BY <1>1, <1>2, <2>1, <2>2, <2>3
  <2>5. mh'[g] = mh[g] /\ g \in Addr
    BY <1>8 DEF Minis
  <2> QED
    BY <1>11, <1>12, <2>4, <2>5 DEF Untouched
<1>18. Apart'
  <2>1. \A g, k \in Minis : g < k => EndTag(g)' < k
    <3> SUFFICES ASSUME NEW g \in Minis, NEW k \in Minis, g < k PROVE EndTag(g)' < k
      OBVIOUS
    <3>1. g # h
      BY <1>1, <1>o
    <3>2. EndTag(g) < k
      BY DEF MemOK, Apart
    <3> QED
      BY <1>u, <3>1, <3>2
  <2>2. \A g \in Minis : EndTag(g)' <= Top
    BY <1>1, <1>2, <1>10, <1>u, Sizes DEF MemOK, Apart
  <2> QED
    BY <1>9, <2>1, <2>2 DEF Apart
<1>19. Covered'
  <2>1. ASSUME NEW x \in Addr, size'[x] > 0 PROVE \E g \in Minis : Within(g, x)'
    <3>1. x # c /\ size[x] > 0
      BY <1>11, <2>1
    <3>2. PICK g \in Minis : Within(g, x)
      BY <3>1 DEF MemOK, Covered
    <3>3. CASE g = h
      <4>1. x \in B \ {c}
        BY <3>1, <3>2, <3>3 DEF B, Blocks
      <4>2. Within(h, x)'
        BY <1>15, <4>1 DEF Blocks
      <4> QED
        BY <4>2
    <3>4. CASE g # h
      BY <1>u, <3>2, <3>4 DEF Within
    <3> QED
      BY <3>3, <3>4
  <2>3. \A x \in used' : size'[x] > 0
    BY <1>2, <1>11 DEF MemOK, Covered, MemTypes
  <2> QED
    BY <1>9, <2>1, <2>3 DEF Covered
<1>20. MemOK'
  BY <1>9, <1>17, <1>18, <1>19, <1>u, UntouchedKept DEF MemOK
<1> QED
  BY <1>2, <1>8, <1>9, <1>10, <1>11, <1>13, <1>15, <1>16, <1>20, <1>o, <1>u DEF r, B, F

-----------------------------------------------------------------------------
(* What callers hold *)

UserTypes == MemTypes /\ held \subseteq Addr /\ need \in [Addr -> Nat] /\ call \in CallRec /\ th \in [Threads -> ThreadRec]
UsersOK == ThreadsOK /\ Owned /\ Enough /\ NeedSmall

LEMMA ThreadFacts ==
  ASSUME UserTypes, NEW t \in Threads
  PROVE  /\ th[t] \in ThreadRec /\ th[t].ptr \in 0..Top /\ th[t].new \in 0..Top /\ th[t].old \in Nat /\ th[t].amt \in Nat
         /\ th[t].at \in {"idle", "expand", "malloc", "free", "back"}
BY DEF UserTypes, ThreadRec

LEMMA OtherIn == Other \in Threads /\ \A t \in Threads : t = Other \/ t \in Resizers
BY DEF Threads

\* The threads and what is held stay as they are, and no block is being freed.
LEMMA QuietUsers ==
  ASSUME UserTypes, UsersOK, UNCHANGED <<used, users>>, call.at # "nfree", call'.at # "nfree",
         \A a \in used : size'[a] \in Int /\ size'[a] >= size[a] /\ size[a] \in Int
  PROVE  UsersOK'
<1>1. held' = held /\ need' = need /\ th' = th /\ used' = used
  BY DEF users
<1>2. Freeing = {} /\ Freeing' = {}
  BY DEF Freeing
<1>3. \A t : Mine(t)' = Mine(t)
  BY <1>1 DEF Mine
<1>4. ThreadsOK' /\ NeedSmall'
  BY <1>1 DEF UsersOK, ThreadsOK, NeedSmall
<1>5. Owned'
  BY <1>1, <1>2, <1>3 DEF UsersOK, Owned
<1>6. Enough'
  <2>1. \A a \in used : need[a] > 0 /\ size[a] > need[a] /\ need[a] \in Int
    <3>1. \A a \in used : a \in Addr
      BY DEF UserTypes, MemTypes
    <3> QED
      BY <1>2, <3>1 DEF UsersOK, Enough, UserTypes
  <2> QED
    BY <1>1, <1>2, <2>1 DEF Enough
<1> QED
  BY <1>4, <1>5, <1>6 DEF UsersOK

LEMMA BlockSizeIs ==
  ASSUME NEW amt \in Nat, amt > 0
  PROVE  BlockSize(amt) \in Nat /\ BlockSize(amt) > amt /\ Frl <= BlockSize(amt)
BY Sizes DEF BlockSize, Bigger

\* How the calls end, each with its result r.
Outcome(r) ==
  /\ call.job # "none" /\ (call.at = "nfree" => call.job = "free")
  /\ call.job = "malloc" =>
       \/ r = 0 /\ used' = used
       \/ r \in Addr /\ r \notin used /\ used' = used \cup {r} /\ call.size <= size'[r]
  /\ call.job = "expand" => used' = used /\ (r = 0 \/ (r = call.ptr /\ call.size <= size'[r]))
  /\ call.job = "free" => used' = used \ {call.pcur} /\ r # 0
  /\ call.job = "heapmin" => used' = used /\ r # 0
  /\ \A a \in used : a \in used' => size[a] <= size'[a]

\* Nothing is freed, and the threads hold what they did.
LEMMA OwnedSame ==
  ASSUME Owned, Freeing = {}, Freeing' = {}, used' = used, held' = held,
         \A u \in Threads : Mine(u)' = Mine(u)
  PROVE  Owned'
BY DEF Owned

\* A thread's block, its only one, is a block like others from here on.
LEMMA OwnedEnds ==
  ASSUME Owned, Freeing = {}, Freeing' = {}, used' = used, NEW t \in Threads, NEW p, Mine(t) = {p},
         held' = held \cup {p}, Mine(t)' = {},
         \A u \in Threads : u # t => Mine(u)' = Mine(u)
  PROVE  Owned'
<1>1. p \in used
  BY DEF Owned
<1>2. \A u \in Threads : held' \cap Mine(u)' = {}
  BY DEF Owned
<1>3. \A u, v \in Threads : u # v => Mine(u)' \cap Mine(v)' = {}
  BY DEF Owned
<1>4. /\ \A a \in held' : a \in used'
      /\ \A u \in Threads : Mine(u)' \subseteq used'
      /\ \A a \in used' : a \in held' \/ \E u \in Threads : a \in Mine(u)'
  <2>1. ASSUME NEW a \in used' PROVE a \in held' \/ \E u \in Threads : a \in Mine(u)'
    <3>1. a \in held \/ \E u \in Threads : a \in Mine(u)
      BY <2>1 DEF Owned
    <3>2. CASE a \in Mine(t)
      BY <3>2
    <3>3. CASE a \notin Mine(t)
      BY <3>1, <3>3
    <3> QED
      BY <3>2, <3>3
  <2> QED
    BY <1>1, <2>1 DEF Owned
<1> QED
  BY <1>2, <1>3, <1>4 DEF Owned

LEMMA ThreadsAfter ==
  ASSUME ThreadsOK, NEW t \in Threads, t # Other, \A u \in Threads : u # t => th'[u] = th[u], ThreadOK(th'[t])
  PROVE  ThreadsOK'
BY OtherIn DEF ThreadsOK

\* What need says of the blocks in use is kept, but for a block r whose
\* call has just ended.
LEMMA EnoughAfter ==
  ASSUME UserTypes, MemTypes', Enough, NeedSmall, NEW r,
         need' \in [Addr -> Nat], \A a \in Addr : a # r => need'[a] = need[a],
         \A a \in used' \ Freeing' : a # r => a \in used \ Freeing /\ size[a] <= size'[a],
         \/ need'[r] = need[r] /\ (r \in used' \ Freeing' => r \in used \ Freeing /\ size[r] <= size'[r])
         \/ need'[r] > 0 /\ size'[r] > need'[r] /\ size'[r] <= Top
  PROVE  Enough' /\ NeedSmall'
<1>1. \A a \in Addr : need[a] \in Nat /\ need'[a] \in Nat /\ size[a] \in Nat /\ size'[a] \in Nat /\ need[a] <= Top
  BY DEF UserTypes, MemTypes, NeedSmall
<1>2. used \subseteq Addr /\ used' \subseteq Addr
  BY DEF UserTypes, MemTypes
<1>3. Enough'
  <2>1. ASSUME NEW a \in used' \ Freeing'
        PROVE  need'[a] > 0 /\ size'[a] > need'[a]
    <3>1. a \in Addr
      BY <1>2
    <3>2. CASE a # r
      BY <1>1, <1>2, <2>1, <3>1, <3>2 DEF Enough
    <3>3. CASE a = r
      BY <1>1, <1>2, <2>1, <3>1, <3>3 DEF Enough
    <3> QED
      BY <3>2, <3>3
  <2> QED
    BY <2>1 DEF Enough
<1>4. NeedSmall'
  <2>1. ASSUME NEW a \in Addr PROVE need'[a] <= Top
    BY <1>1, <2>1, Sizes
  <2> QED
    BY <2>1 DEF NeedSmall
<1> QED
  BY <1>3, <1>4

LEMMA EnoughSame ==
  ASSUME UserTypes, MemTypes', Enough, NeedSmall, need' = need,
         \A a \in used' \ Freeing' : a \in used \ Freeing /\ size[a] <= size'[a]
  PROVE  Enough' /\ NeedSmall'
<1>1. \A a \in Addr : need[a] \in Nat /\ size[a] \in Nat /\ size'[a] \in Nat
  BY DEF UserTypes, MemTypes
<1>2. used \subseteq Addr
  BY DEF UserTypes, MemTypes
<1>3. Enough'
  <2>1. ASSUME NEW a \in used' \ Freeing' PROVE need'[a] > 0 /\ size'[a] > need'[a]
    <3>1. a \in used \ Freeing /\ size[a] <= size'[a] /\ a \in Addr
      BY <1>2, <2>1
    <3> QED
      BY <1>1, <3>1 DEF Enough
  <2> QED
    BY <2>1 DEF Enough
<1> QED
  BY <1>3 DEF NeedSmall

Fits == \A a \in Addr : size[a] <= Top
LEMMA SizesFit == MemTypes /\ MemOK => Fits
<1> SUFFICES ASSUME MemTypes, MemOK, NEW a \in Addr PROVE size[a] <= Top
  BY DEF Fits
<1>1. size[a] \in Nat
  BY DEF MemTypes
<1>2. CASE size[a] > 0
  <2>1. MiniOf(a) \in Minis /\ a \in Blocks(MiniOf(a))
    BY <1>2, BlockIn
  <2>2. a + size[a] <= EndTag(MiniOf(a)) /\ EndTag(MiniOf(a)) <= Top /\ EndTag(MiniOf(a)) \in Nat
    BY <2>1, BlockFits, MiniTypes
  <2> QED
    BY <1>1, <2>2, Sizes DEF Addr
<1> QED
  BY <1>1, <1>2, Sizes
LEMMA SizesFitNext == MemTypes' /\ MemOK' => Fits'
BY SizesFit, PTL

\* What a call that has ended leaves of the callers' blocks.
LEMMA ReturnUsers ==
  ASSUME UserTypes, UsersOK, CallOK, MemTypes', MemOK', NEW r, Return(r), Outcome(r),
         NEW t, t = call.t, NEW p, p = th[t].ptr
  PROVE  UserTypes' /\ UsersOK' /\ CallOK'
<1>1. t = call.t /\ p = th[t].ptr /\ call' = NoCall /\ call \in CallRec /\ th \in [Threads -> ThreadRec] /\ held \subseteq Addr /\ need \in [Addr -> Nat]
  BY DEF Return, UserTypes
<1>2. /\ t \in Threads /\ Fits' /\ call.amt \in Nat
      /\ call.job \in {"malloc", "free", "heapmin", "expand"}
  BY <1>1, SizesFitNext DEF CallRec, Outcome
<1>3. Freeing' = {} /\ CallOK' /\ call' \in CallRec
  <2>1. call' = NoCall
    BY <1>1
  <2>2. NoCall.at = "none" /\ NoCall.job = "none" /\ NoCall \in CallRec
    BY OtherIn, Sizes DEF NoCall, CallRec, Huge
  <2>3. Freeing' = {}
    BY <2>1, <2>2 DEF Freeing
  <2>4. CallOK'
    BY <2>1, <2>2 DEF CallOK
  <2> QED
    BY <2>1, <2>2, <2>3, <2>4
<1>4. /\ th[t] \in ThreadRec /\ p \in 0..Top /\ th[t].new \in 0..Top /\ 0 \in 0..Top
      /\ th[t].at \in {"idle", "expand", "malloc", "free", "back"}
  BY <1>1, <1>2, ThreadFacts, Sizes
<1>5. /\ th[Other] = IdleThread /\ \A u \in Threads :
           /\ th[u].at = "idle" => th[u].ptr = 0 /\ th[u].new = 0
           /\ th[u].at # "idle" => th[u].ptr # 0 /\ th[u].old > 0 /\ th[u].amt > 0
           /\ th[u].at = "free" => th[u].new # 0 /\ th[u].new # th[u].ptr
           /\ th[u].at # "free" => th[u].new = 0
      /\ IdleThread.at = "idle" /\ IdleThread.ptr = 0 /\ IdleThread.new = 0
      /\ ThreadsOK
  BY DEF UsersOK, ThreadsOK, ThreadOK, IdleThread
<1>6. /\ call.job = "malloc" => call.size = BlockSize(call.amt) /\ call.amt > 0 /\ (th[t].at = "idle" \/ th[t].at = "malloc")
      /\ call.job = "free" => call.at = "nfree" /\ (th[t].at = "idle" \/ th[t].at = "free")
      /\ call.job = "heapmin" => th[t].at = "idle"
      /\ call.job = "expand" => call.size = BlockSize(call.amt) /\ call.amt > 0 /\ th[t].at \in {"expand", "back"} /\ call.ptr = p
  BY <1>1, <1>5 DEF CallOK
<1>7. call.amt > 0 => BlockSize(call.amt) \in Nat /\ BlockSize(call.amt) > call.amt
  BY <1>2, BlockSizeIs
<1>8. /\ Owned /\ Enough /\ NeedSmall /\ ThreadsOK
      /\ used \subseteq Addr /\ used' \subseteq Addr /\ \A a \in Addr : size'[a] \in Nat /\ size'[a] <= Top /\ size[a] \in Nat
      /\ \A a \in used : a \in used' => size[a] <= size'[a]
  BY <1>2 DEF UserTypes, UsersOK, MemTypes, Fits, Outcome
<1>9. call.job # "free" => Freeing = {}
  BY DEF Freeing, Outcome
<1>10. CASE th[t].at = "idle"
  <2>1. /\ held' = (IF call.job = "malloc" /\ r # 0 THEN held \cup {r} ELSE held)
        /\ need' = (IF call.job \in {"malloc", "expand"} /\ r # 0 THEN [need EXCEPT ![r] = call.amt] ELSE need)
        /\ th' = th
    BY <1>1, <1>10 DEF Return
  <2>2. call.job # "expand"
    BY <1>6, <1>10
  <2>3. \A u : Mine(u)' = Mine(u)
    BY <1>1, <2>1 DEF Mine
  <2>4. ThreadsOK' /\ th' \in [Threads -> ThreadRec]
    BY <1>1, <1>8, <2>1 DEF ThreadsOK
  <2>5. CASE call.job = "malloc" /\ r # 0
    <3>1. /\ held' = held \cup {r} /\ need' = [need EXCEPT ![r] = call.amt] /\ r \in Addr /\ r \notin used
          /\ used' = used \cup {r} /\ call.size <= size'[r]
      BY <2>1, <2>5 DEF Outcome
    <3>2. held' \subseteq Addr /\ need' \in [Addr -> Nat] /\ need'[r] = call.amt /\ \A a \in Addr : a # r => need'[a] = need[a]
      BY <1>1, <1>2, <3>1
    <3>3. Owned'
      BY <1>3, <1>8, <1>9, <2>3, <2>5, <3>1 DEF Owned
    <3>4. Enough' /\ NeedSmall'
      <4>1. need'[r] > 0 /\ size'[r] > need'[r] /\ size'[r] <= Top
        BY <1>2, <1>6, <1>7, <1>8, <2>5, <3>1, <3>2
      <4>2. \A a \in used' \ Freeing' : a # r => a \in used \ Freeing /\ size[a] <= size'[a]
        BY <1>8, <1>9, <2>5, <3>1
      <4> QED
        BY <1>8, <3>2, <4>1, <4>2, EnoughAfter
    <3> QED
      BY <1>3, <2>4, <3>2, <3>3, <3>4 DEF UserTypes, UsersOK
  <2>6. CASE ~(call.job = "malloc" /\ r # 0)
    <3>1. held' = held /\ need' = need
      BY <2>1, <2>2, <2>6
    <3>2. Owned' /\ used' \ Freeing' \subseteq used \ Freeing
      <4>1. CASE call.job = "free"
        <5>1. Freeing = {call.pcur} /\ used' = used \ {call.pcur} /\ t \notin Resizers
          <6>1. t = Other \/ (t \in Resizers /\ th[t].at = "free")
            BY <1>1, <4>1 DEF CallOK
          <6>2. Other \notin Resizers
            BY HeapAssumption
          <6> QED
            BY <1>6, <1>10, <4>1, <6>1, <6>2 DEF Freeing, Outcome
        <5>2. call.pcur \notin held /\ \A u \in Threads : call.pcur \notin Mine(u)
          <6>1. t = Other
            BY <1>2, <5>1, OtherIn
          <6>2. Mine(Other) = {}
            BY <1>1, <1>5 DEF Mine
          <6> QED
            BY <1>8, <5>1, <6>1, <6>2 DEF Owned
        <5>3. Owned'
          BY <1>3, <1>8, <2>3, <3>1, <5>1, <5>2 DEF Owned
        <5> QED
          BY <1>3, <5>1, <5>3
      <4>2. CASE call.job # "free"
        <5>1. used' = used /\ Freeing = {}
          BY <1>2, <1>9, <2>2, <2>6, <4>2, Sizes DEF Outcome, Addr
        <5> QED
          BY <1>3, <1>8, <2>3, <3>1, <5>1, OwnedSame
      <4> QED
        BY <4>1, <4>2
    <3>3. Enough' /\ NeedSmall'
      <4>1. \A a \in used' \ Freeing' : a \in used \ Freeing /\ size[a] <= size'[a]
        BY <1>8, <3>2
      <4>2. need' \in [Addr -> Nat]
        BY <1>1, <3>1
      <4> QED
        BY <1>8, <3>1, <4>1, EnoughSame
    <3> QED
      BY <1>1, <1>3, <2>4, <3>1, <3>2, <3>3 DEF UserTypes, UsersOK
  <2> QED
    BY <2>5, <2>6
<1>11. CASE th[t].at = "malloc"
  <2>1. call.job = "malloc" /\ Freeing = {} /\ p # 0 /\ th[t].new = 0 /\ t # Other
    BY <1>2, <1>5, <1>6, <1>9, <1>11
  <2>2. /\ need' = (IF r # 0 THEN [need EXCEPT ![r] = call.amt] ELSE need)
        /\ held' = held
        /\ th' = (IF r # 0 THEN [th EXCEPT ![t].at = "free", ![t].new = r]
                  ELSE [th EXCEPT ![t].at = "back", ![t].new = 0])
    BY <1>1, <1>11 DEF Return
  <2>3. CASE r # 0
    <3>1. r \in Addr /\ r \notin used /\ used' = used \cup {r} /\ call.size <= size'[r]
      BY <2>1, <2>3 DEF Outcome
    <3>2. th' = [th EXCEPT ![t].at = "free", ![t].new = r] /\ need' = [need EXCEPT ![r] = call.amt]
      BY <2>2, <2>3
    <3>3. /\ th'[t].at = "free" /\ th'[t].new = r /\ th'[t].ptr = p /\ th'[t].old = th[t].old /\ th'[t].amt = th[t].amt
          /\ \A u \in Threads : u # t => th'[u] = th[u]
      BY <1>1, <1>2, <1>4, <3>2 DEF ThreadRec
    <3>4. th' \in [Threads -> ThreadRec]
      <4>1. r \in 0..Top
        BY <3>1, Sizes DEF Addr
      <4>2. [th[t] EXCEPT !.at = "free", !.new = r] \in ThreadRec
        BY <1>4, <4>1 DEF ThreadRec
      <4>3. th' = [th EXCEPT ![t] = [th[t] EXCEPT !.at = "free", !.new = r]]
        BY <1>1, <1>2, <3>2
      <4> QED
        BY <1>1, <1>2, <4>2, <4>3
    <3>5. Mine(t)' = Mine(t) \cup {r} /\ \A u \in Threads : u # t => Mine(u)' = Mine(u)
      <4>1. r # 0
        BY <2>3
      <4> QED
        BY <1>1, <2>1, <3>3, <4>1 DEF Mine
    <3>6. r # p
      <4>1. p \in Mine(t)
        BY <1>1, <2>1 DEF Mine
      <4> QED
        BY <1>2, <1>8, <3>1, <4>1 DEF Owned
    <3>7. ThreadsOK'
      <4>1. ThreadOK(th'[t])
        BY <1>2, <1>5, <1>11, <2>3, <3>3, <3>6 DEF ThreadOK
      <4> QED
        BY <1>2, <1>5, <2>1, <3>3, <4>1, ThreadsAfter
    <3>8. need' \in [Addr -> Nat] /\ need'[r] = call.amt /\ \A a \in Addr : a # r => need'[a] = need[a]
      BY <1>1, <1>2, <3>1, <3>2
    <3>9. Owned'
      <4>1. /\ \A u \in Threads : held' \cap Mine(u)' = {}
            /\ \A a \in held' : a \in used'
            /\ \A u \in Threads : Mine(u)' \subseteq used'
        BY <1>8, <2>2, <3>1, <3>5 DEF Owned
      <4>2. \A u, v \in Threads : u # v => Mine(u)' \cap Mine(v)' = {}
        <5>1. ASSUME NEW u \in Threads, NEW v \in Threads, u # v
              PROVE  Mine(u)' \cap Mine(v)' = {}
          <6>1. Mine(u) \cap Mine(v) = {} /\ r \notin Mine(u) /\ r \notin Mine(v)
            BY <1>8, <3>1, <5>1 DEF Owned
          <6> QED
            BY <3>5, <5>1, <6>1
        <5> QED
          BY <5>1
      <4>3. \A a \in used' : a \in held' \/ \E u \in Threads : a \in Mine(u)'
        <5>1. ASSUME NEW a \in used' PROVE a \in held' \/ \E u \in Threads : a \in Mine(u)'
          <6>1. CASE a = r
            BY <1>2, <3>5, <6>1
          <6>2. CASE a # r
            <7>1. a \in held \/ \E u \in Threads : a \in Mine(u)
              BY <1>8, <2>1, <3>1, <6>2 DEF Owned
            <7> QED
              BY <2>2, <3>5, <7>1
          <6> QED
            BY <6>1, <6>2
        <5> QED
          BY <5>1
      <4> QED
        BY <1>3, <4>1, <4>2, <4>3 DEF Owned
    <3>10. Enough' /\ NeedSmall'
      <4>1. need'[r] > 0 /\ size'[r] > need'[r] /\ size'[r] <= Top
        BY <1>2, <1>6, <1>7, <1>8, <2>1, <3>1, <3>8
      <4>2. \A a \in used' \ Freeing' : a # r => a \in used \ Freeing /\ size[a] <= size'[a]
        BY <1>8, <2>1, <3>1
      <4> QED
        BY <1>8, <3>8, <4>1, <4>2, EnoughAfter
    <3> QED
      BY <1>1, <1>3, <2>2, <3>4, <3>7, <3>8, <3>9, <3>10 DEF UserTypes, UsersOK
  <2>4. CASE r = 0
    <3>1. used' = used
      BY <2>1, <2>4, Sizes DEF Outcome, Addr
    <3>2. th' = [th EXCEPT ![t].at = "back", ![t].new = 0] /\ need' = need /\ held' = held
      BY <2>2, <2>4
    <3>3. /\ th'[t].at = "back" /\ th'[t].new = 0 /\ th'[t].ptr = p /\ th'[t].old = th[t].old /\ th'[t].amt = th[t].amt
          /\ \A u \in Threads : u # t => th'[u] = th[u]
      BY <1>1, <1>2, <1>4, <3>2 DEF ThreadRec
    <3>4. th' \in [Threads -> ThreadRec]
      <4>1. [th[t] EXCEPT !.at = "back", !.new = 0] \in ThreadRec
        BY <1>4 DEF ThreadRec
      <4>2. th' = [th EXCEPT ![t] = [th[t] EXCEPT !.at = "back", !.new = 0]]
        BY <1>1, <1>2, <3>2
      <4> QED
        BY <1>1, <1>2, <4>1, <4>2
    <3>5. \A u \in Threads : Mine(u)' = Mine(u)
      BY <1>1, <2>1, <3>3 DEF Mine
    <3>6. ThreadsOK'
      <4>1. ThreadOK(th'[t])
        BY <1>2, <1>5, <1>11, <3>3 DEF ThreadOK
      <4> QED
        BY <1>2, <1>5, <2>1, <3>3, <4>1, ThreadsAfter
    <3>7. Owned'
      BY <1>3, <1>8, <2>1, <3>1, <3>2, <3>5, OwnedSame
    <3>8. Enough' /\ NeedSmall'
      <4>1. \A a \in used' \ Freeing' : a \in used \ Freeing /\ size[a] <= size'[a]
        BY <1>8, <2>1, <3>1
      <4> QED
        BY <1>8, <3>2, <4>1, EnoughSame
    <3> QED
      BY <1>1, <1>3, <3>2, <3>4, <3>6, <3>7, <3>8 DEF UserTypes, UsersOK
  <2> QED
    BY <2>3, <2>4
<1>12. CASE th[t].at = "expand" /\ r = 0 /\ th' = [th EXCEPT ![t].at = "malloc", ![t].new = 0]
  <2>1. call.job = "expand" /\ Freeing = {} /\ p # 0 /\ th[t].new = 0 /\ t # Other /\ used' = used
    BY <1>2, <1>5, <1>6, <1>9, <1>12 DEF Outcome
  <2>2. need' = need /\ held' = held
    <3>1. /\ need' = need
          /\ \/ held' = held
             \/ th' = [th EXCEPT ![t] = IdleThread]
      BY <1>1, <1>12 DEF Return
    <3>2. th' # [th EXCEPT ![t] = IdleThread]
      BY <1>1, <1>2, <1>4, <1>5, <1>12 DEF ThreadRec
    <3> QED
      BY <3>1, <3>2
  <2>3. /\ th'[t].at = "malloc" /\ th'[t].new = 0 /\ th'[t].ptr = p /\ th'[t].old = th[t].old /\ th'[t].amt = th[t].amt
        /\ \A u \in Threads : u # t => th'[u] = th[u]
    BY <1>1, <1>2, <1>4, <1>12 DEF ThreadRec
  <2>4. th' \in [Threads -> ThreadRec]
    <3>1. [th[t] EXCEPT !.at = "malloc", !.new = 0] \in ThreadRec
      BY <1>4 DEF ThreadRec
    <3>2. th' = [th EXCEPT ![t] = [th[t] EXCEPT !.at = "malloc", !.new = 0]]
      BY <1>1, <1>2, <1>12
    <3> QED
      BY <1>1, <1>2, <3>1, <3>2
  <2>5. \A u \in Threads : Mine(u)' = Mine(u)
    BY <1>1, <2>1, <2>3 DEF Mine
  <2>6. ThreadsOK'
    <3>1. ThreadOK(th'[t])
      BY <1>2, <1>5, <1>12, <2>3 DEF ThreadOK
    <3> QED
      BY <1>2, <1>5, <2>1, <2>3, <3>1, ThreadsAfter
  <2>7. Owned'
    BY <1>3, <1>8, <2>1, <2>2, <2>5, OwnedSame
  <2>8. Enough' /\ NeedSmall'
    <3>1. \A a \in used' \ Freeing' : a \in used \ Freeing /\ size[a] <= size'[a]
      BY <1>8, <2>1
    <3>2. need' \in [Addr -> Nat]
      BY <1>1, <2>2
    <3> QED
      BY <1>8, <2>2, <3>1, EnoughSame
  <2> QED
    BY <1>1, <1>3, <2>2, <2>4, <2>6, <2>7, <2>8 DEF UserTypes, UsersOK
<1>13. CASE /\ th[t].at \in {"expand", "back", "free"} /\ th' = [th EXCEPT ![t] = IdleThread]
            /\ held' = held \cup {IF th[t].at = "free" THEN th[t].new ELSE p}
            /\ need' = IF th[t].at = "expand" /\ r # 0 THEN [need EXCEPT ![r] = call.amt] ELSE need
  <2>1. p # 0 /\ p \in Addr /\ t # Other /\ p \in Mine(t)
    BY <1>1, <1>2, <1>4, <1>5, <1>13, Sizes DEF Addr, Mine
  <2>2. th'[t] = IdleThread /\ (\A u \in Threads : u # t => th'[u] = th[u]) /\ th' \in [Threads -> ThreadRec]
    <3>1. IdleThread \in ThreadRec
      BY Sizes DEF IdleThread, ThreadRec
    <3> QED
      BY <1>1, <1>2, <1>13, <3>1
  <2>3. Mine(t)' = {} /\ \A u \in Threads : u # t => Mine(u)' = Mine(u)
    BY <1>1, <1>5, <2>2 DEF Mine
  <2>4. ThreadsOK'
    <3>1. ThreadOK(th'[t])
      BY <2>2 DEF ThreadOK, IdleThread
    <3> QED
      BY <1>2, <1>5, <2>1, <2>2, <3>1, ThreadsAfter
  <2>5. CASE th[t].at = "free"
    <3>1. /\ call.job = "free" /\ Freeing = {call.pcur} /\ used' = used \ {call.pcur}
          /\ held' = held \cup {th[t].new} /\ need' = need
      BY <1>2, <1>6, <1>13, <2>5 DEF Outcome, Freeing
    <3>2. call.pcur = p /\ p \notin held
      <4>1. t \in Resizers
        BY <1>2, <2>1, OtherIn
      <4> QED
        BY <1>1, <1>8, <3>1, <4>1 DEF Owned
    <3>3. Mine(t) = {p, th[t].new} /\ th[t].new # p
      BY <1>1, <1>2, <1>5, <2>1, <2>5 DEF Mine
    <3>4. /\ \A u \in Threads : held' \cap Mine(u)' = {}
          /\ \A u, v \in Threads : u # v => Mine(u)' \cap Mine(v)' = {}
      BY <1>2, <1>8, <2>3, <3>1, <3>3 DEF Owned
    <3>5. /\ \A a \in held' : a \in used'
          /\ \A u \in Threads : Mine(u)' \subseteq used'
      <4>1. \A u \in Threads : u # t => p \notin Mine(u)
        BY <1>2, <1>8, <2>1 DEF Owned
      <4> QED
        BY <1>2, <1>8, <2>3, <3>1, <3>2, <3>3, <4>1 DEF Owned
    <3>6. \A a \in used' : a \in held' \/ \E u \in Threads : a \in Mine(u)'
      <4>1. ASSUME NEW a \in used' PROVE a \in held' \/ \E u \in Threads : a \in Mine(u)'
        <5>1. a \in used \ Freeing /\ a # p
          BY <3>1, <3>2
        <5>2. a \in held \/ \E u \in Threads : a \in Mine(u)
          BY <1>8, <5>1 DEF Owned
        <5>3. CASE a \in Mine(t)
          BY <3>1, <3>3, <5>1, <5>3
        <5>4. CASE a \notin Mine(t)
          BY <2>3, <3>1, <5>2, <5>4
        <5> QED
          BY <5>3, <5>4
      <4> QED
        BY <4>1
    <3>7. Owned'
      BY <1>3, <3>4, <3>5, <3>6 DEF Owned
    <3>8. Enough' /\ NeedSmall'
      <4>1. \A a \in used' \ Freeing' : a \in used \ Freeing /\ size[a] <= size'[a]
        BY <1>8, <3>1
      <4>2. need' \in [Addr -> Nat]
        BY <1>1, <3>1
      <4> QED
        BY <1>8, <3>1, <4>1, EnoughSame
    <3>9. held' \subseteq Addr /\ need' \in [Addr -> Nat]
      <4>1. th[t].new \in used
        BY <1>2, <1>8, <3>3 DEF Owned
      <4> QED
        BY <1>1, <1>8, <3>1, <4>1
    <3> QED
      BY <1>3, <2>2, <2>4, <3>7, <3>8, <3>9 DEF UserTypes, UsersOK
  <2>6. CASE th[t].at # "free"
    <3>1. call.job = "expand" /\ Freeing = {} /\ used' = used /\ held' = held \cup {p} /\ th[t].new = 0
      BY <1>2, <1>5, <1>6, <1>9, <1>13, <2>6 DEF Outcome
    <3>2. Mine(t) = {p}
      BY <1>1, <2>1, <3>1 DEF Mine
    <3>3. Owned'
      BY <1>2, <1>3, <1>8, <2>3, <3>1, <3>2, OwnedEnds
    <3>4. need' \in [Addr -> Nat] /\ Enough' /\ NeedSmall'
      <4>1. \A a \in used' \ Freeing' : a \in used \ Freeing /\ size[a] <= size'[a]
        BY <1>8, <3>1
      <4>2. CASE th[t].at = "expand" /\ r # 0
        <5>1. r = p /\ call.size <= size'[p] /\ need' = [need EXCEPT ![p] = call.amt]
          BY <1>6, <1>13, <3>1, <4>2 DEF Outcome
        <5>2. need' \in [Addr -> Nat] /\ need'[p] = call.amt /\ \A a \in Addr : a # p => need'[a] = need[a]
          BY <1>1, <1>2, <2>1, <5>1
        <5>3. need'[p] > 0 /\ size'[p] > need'[p] /\ size'[p] <= Top
          BY <1>2, <1>6, <1>7, <1>8, <2>1, <3>1, <5>1, <5>2
        <5> QED
          BY <1>8, <4>1, <5>2, <5>3, EnoughAfter
      <4>3. CASE ~(th[t].at = "expand" /\ r # 0)
        <5>1. need' = need
          BY <1>13, <4>3
        <5>2. need' \in [Addr -> Nat]
          BY <1>1, <5>1
        <5> QED
          BY <1>8, <4>1, <5>1, <5>2, EnoughSame
      <4> QED
        BY <4>2, <4>3
    <3>5. held' \subseteq Addr
      BY <1>1, <2>1, <3>1
    <3> QED
      BY <1>3, <2>2, <2>4, <3>3, <3>4, <3>5 DEF UserTypes, UsersOK
  <2> QED
    BY <2>5, <2>6
<1>14. CASE th[t].at \in {"expand", "back", "free"} /\ ~(th' = [th EXCEPT ![t].at = "malloc", ![t].new = 0] /\ th[t].at = "expand" /\ r = 0)
  <2>1. /\ th' = [th EXCEPT ![t] = IdleThread]
        /\ held' = held \cup {IF th[t].at = "free" THEN th[t].new ELSE p}
        /\ need' = IF th[t].at = "expand" /\ r # 0 THEN [need EXCEPT ![r] = call.amt] ELSE need
    BY <1>1, <1>14 DEF Return
  <2> QED
    BY <1>13, <1>14, <2>1
<1> QED
  BY <1>4, <1>10, <1>11, <1>12, <1>14

-----------------------------------------------------------------------------
(* The steps of the calls *)

Mem == MemTypes /\ MemOK /\ AtBreak /\ B4Small /\ curbrk \in 1..Top + 1
RoversOK == largestB4 \in 0..Huge /\ freeRover \in 0..Top /\ RoversLive
LEMMA Parts == IInv <=> Mem /\ RoversOK /\ UserTypes /\ CallOK /\ UsersOK
BY DEF IInv, Types, Mem, RoversOK, UserTypes, UsersOK
LEMMA PartsNext == IInv' <=> Mem' /\ RoversOK' /\ UserTypes' /\ CallOK' /\ UsersOK'
BY Parts, PTL

\* Nothing is written to the heap.
QuietHeap == UNCHANGED <<build, moved, blocks, curbrk>>
LEMMA QuietMem ==
  ASSUME Mem, QuietHeap
  PROVE  /\ Mem' /\ Minis' = Minis /\ \A h \in Minis : Kept(h)
         /\ build' = build /\ moved' = moved /\ mh' = mh /\ size' = size /\ used' = used /\ next' = next /\ prev' = prev
<1>1. build' = build /\ moved' = moved /\ mh' = mh /\ size' = size /\ used' = used /\ next' = next /\ prev' = prev /\ curbrk' = curbrk
  BY DEF QuietHeap, blocks
<1>2. MemTypes' /\ B4Small'
  BY <1>1 DEF Mem, MemTypes, B4Small
<1>3. MemOK' /\ Minis' = Minis /\ \A h \in Minis : Kept(h)
  <2>1. UNCHANGED <<size, used, next, prev>>
    BY <1>1
  <2>2. \A h \in Addr : /\ mh'[h].len = mh[h].len /\ mh'[h].rover = mh[h].rover
                        /\ mh'[h].numalloc = mh[h].numalloc /\ mh'[h].numfree = mh[h].numfree
    BY <1>1
  <2> QED
    BY <2>1, <2>2, SameBlocks DEF Mem, Kept
<1>4. AtBreak'
  BY <1>1 DEF Mem, AtBreak, Minis, EndTag, Addr
<1> QED
  BY <1>1, <1>2, <1>3, <1>4 DEF Mem

LEMMA RoversSame ==
  ASSUME RoversOK, Minis \subseteq Minis', UNCHANGED rovers
  PROVE  RoversOK'
BY DEF RoversOK, RoversLive, rovers

LEMMA CallFacts ==
  ASSUME UserTypes
  PROVE  /\ call.t \in Threads /\ call.amt \in Nat /\ call.size \in Nat /\ call.mini \in 0..Top /\ call.pcur \in 0..Top
         /\ call.largest \in 0..Top /\ call.seen \in 0..Huge /\ call.ptr \in 0..Top /\ call.expanded \in BOOLEAN
         /\ call.at \in {"none", "mini", "scan", "nfree", "shrink", "cut", "expand"}
         /\ call.job \in {"none", "malloc", "free", "heapmin", "expand"}
         /\ DOMAIN call = DOMAIN NoCall /\ call \in CallRec
BY DEF UserTypes, CallRec, NoCall
LEMMA NoCallIs ==
  /\ NoCall \in CallRec /\ NoCall.at = "none" /\ NoCall.job = "none" /\ NoCall.t = Other /\ NoCall.expanded = FALSE
  /\ NoCall.mini = 0 /\ NoCall.pcur = 0 /\ NoCall.largest = 0 /\ NoCall.seen = 0 /\ NoCall.ptr = 0 /\ NoCall.amt = 0 /\ NoCall.size = 0
BY OtherIn, Sizes DEF NoCall, CallRec, Huge

LEMMA AtRover ==
  ASSUME Mem, RoversOK
  PROVE  (IF miniRover = 0 THEN FirstMini ELSE miniRover) \in {0} \cup Minis /\ Minis \subseteq Addr
BY FirstMiniIs DEF Mem, RoversOK, RoversLive, Minis

-----------------------------------------------------------------------------
(* _nmalloc begins, or begins again. *)

LEMMA SearchIs ==
  ASSUME Mem, RoversOK, NEW c \in CallRec, NEW b4 \in 0..Huge, SearchFrom(c, b4)
  PROVE  /\ call'.at = "mini" /\ call'.mini \in {0} \cup Minis /\ call' \in CallRec /\ largestB4' \in 0..Huge
         /\ call'.job = c.job /\ call'.t = c.t /\ call'.amt = c.amt /\ call'.size = c.size /\ call'.ptr = c.ptr
         /\ call'.pcur = c.pcur /\ call'.expanded = c.expanded /\ call'.seen = c.seen /\ call'.largest = c.largest
<1>1. PICK m \in {0} \cup Minis : call' = [c EXCEPT !.at = "mini", !.mini = m]
  <2>1. FirstMini \in {0} \cup Minis /\ miniRover \in {0} \cup Minis
    BY FirstMiniIs DEF Mem, RoversOK, RoversLive
  <2> QED
    BY <2>1 DEF SearchFrom
<1>2. m \in 0..Top
  BY <1>1, Sizes DEF Minis, Addr
<1>3. largestB4' \in 0..Huge
  BY Sizes DEF SearchFrom, Huge
<1> QED
  BY <1>1, <1>2, <1>3 DEF CallRec

LEMMA MallocStep ==
  ASSUME IInv, NEW t \in Threads, NEW amt \in Amounts, Malloc(t, amt)
  PROVE  IInv'
<1>1. Mem /\ RoversOK /\ UserTypes /\ CallOK /\ UsersOK
  BY Parts
<1>2. QuietHeap /\ UNCHANGED <<miniRover, freeRover, users>> /\ call = NoCall
  BY DEF Malloc, QuietHeap, blocks
<1>3. /\ Mem' /\ Minis' = Minis
      /\ build' = build /\ moved' = moved /\ mh' = mh /\ size' = size /\ used' = used /\ next' = next /\ prev' = prev
  BY <1>1, <1>2, QuietMem
<1> DEFINE c == [NoCall EXCEPT !.t = t, !.job = "malloc", !.amt = amt, !.size = BlockSize(amt)]
<1>4. amt \in Nat /\ amt > 0 /\ BlockSize(amt) \in Nat
  BY HeapAssumption, BlockSizeIs
<1>5. c \in CallRec /\ c.job = "malloc" /\ c.t = t /\ c.amt = amt /\ c.size = BlockSize(amt)
  BY <1>4, NoCallIs DEF CallRec
<1>6. SearchFrom(c, largestB4) /\ largestB4 \in 0..Huge
  BY <1>1 DEF Malloc, RoversOK
<1> HIDE DEF c
<1>7. /\ call'.at = "mini" /\ call'.mini \in {0} \cup Minis /\ call' \in CallRec /\ largestB4' \in 0..Huge
      /\ call'.job = "malloc" /\ call'.t = t /\ call'.amt = amt /\ call'.size = BlockSize(amt)
  BY <1>1, <1>5, <1>6, SearchIs
<1>8. RoversOK'
  BY <1>1, <1>2, <1>3, <1>7 DEF RoversOK, RoversLive
<1>9. held' = held /\ need' = need /\ th' = th
  BY <1>2 DEF users
<1>10. UserTypes'
  BY <1>1, <1>3, <1>7, <1>9 DEF UserTypes, Mem
<1>11. UsersOK'
  <2>1. \A a \in used : size'[a] \in Int /\ size'[a] >= size[a] /\ size[a] \in Int
    BY <1>1, <1>3 DEF UserTypes, MemTypes
  <2>2. call.at # "nfree"
    BY <1>2, NoCallIs
  <2>3. UNCHANGED <<used, users>>
    BY <1>2, <1>3
  <2> QED
    BY <1>1, <1>7, <2>1, <2>2, <2>3, QuietUsers
<1>12. CallOK'
  <2>1. t = Other \/ (t \in Resizers /\ th'[t].at = "malloc")
    <3>1. t = Other \/ th[t].at = "malloc"
      BY DEF Malloc
    <3> QED
      BY <1>9, <3>1, OtherIn
  <2> QED
    BY <1>3, <1>4, <1>7, <2>1 DEF CallOK
<1> QED
  BY <1>3, <1>8, <1>10, <1>11, <1>12, PartsNext

\* A step that only moves a call on.
LEMMA QuietStep ==
  ASSUME IInv, Mem', RoversOK', UNCHANGED <<size, used, users>>, call.at # "nfree", call'.at # "nfree",
         call' \in CallRec, CallOK'
  PROVE  IInv'
<1>1. UserTypes /\ UsersOK
  BY Parts
<1>2. held' = held /\ need' = need /\ th' = th /\ size' = size /\ used' = used
  BY DEF users
<1>3. UserTypes'
  BY <1>1, <1>2 DEF UserTypes, Mem
<1>4. UsersOK'
  <2>1. \A a \in used : size'[a] \in Int /\ size'[a] >= size[a] /\ size[a] \in Int
    BY <1>1, <1>2 DEF UserTypes, MemTypes
  <2>2. UNCHANGED <<used, users>>
    BY <1>2
  <2> QED
    BY <1>1, <2>1, <2>2, QuietUsers
<1> QED
  BY <1>3, <1>4, PartsNext

\* The call goes on to the mini-heap m.
LEMMA PassOverIs ==
  ASSUME UserTypes, RoversOK, Mem, call.at \in {"mini", "scan"}, call.mini # 0, CallOK, NEW seen \in 0..Huge, PassOver(seen)
  PROVE  /\ call' = [call EXCEPT !.at = "mini", !.mini = NextMini(call.mini)]
         /\ call' \in CallRec /\ call'.at = "mini" /\ call'.mini = NextMini(call.mini) /\ NextMini(call.mini) \in {0} \cup Minis
         /\ call'.job = "malloc" /\ call'.t = call.t /\ call'.amt = call.amt /\ call'.size = call.size
         /\ call'.expanded = call.expanded
         /\ largestB4' = Bigger(seen, largestB4) /\ largestB4' \in 0..Huge
<1>1. call.mini \in Nat /\ call \in CallRec /\ call.job = "malloc"
  BY CallFacts DEF CallOK
<1>2. NextMini(call.mini) \in {0} \cup Minis
  BY <1>1, NextMiniIs DEF Mem
<1>3. NextMini(call.mini) \in 0..Top
  BY <1>2, Sizes DEF Minis, Addr
<1>4. call' = [call EXCEPT !.at = "mini", !.mini = NextMini(call.mini)]
  BY DEF PassOver
<1>5. largestB4' = Bigger(seen, largestB4) /\ largestB4' \in 0..Huge
  BY Sizes DEF PassOver, RoversOK, Bigger, Huge
<1> QED
  BY <1>1, <1>2, <1>3, <1>4, <1>5 DEF CallRec

LEMMA TryMiniStep ==
  ASSUME IInv, TryMini
  PROVE  IInv'
<1> DEFINE h == call.mini
           low == call.size <= mh[h].b4rover
<1>1. Mem /\ RoversOK /\ UserTypes /\ CallOK /\ UsersOK
  BY Parts
<1>2. /\ call.at = "mini" /\ h # 0 /\ miniRover' = h /\ QuietHeap /\ freeRover' = freeRover /\ UNCHANGED users
      /\ \/ /\ call' = [call EXCEPT !.at = "scan", !.seen = mh[h].largest,
                                    !.pcur = IF low THEN next[h] ELSE mh[h].rover,
                                    !.largest = IF low THEN 0 ELSE mh[h].b4rover]
            /\ largestB4' = largestB4
         \/ PassOver(mh[h].largest)
  BY DEF TryMini, QuietHeap, blocks
<1>3. h \in Minis /\ h \in Addr /\ call.job = "malloc" /\ h \in 0..Top
  BY <1>1, <1>2, Sizes DEF CallOK, Minis, Addr
<1>4. mh[h] \in MiniRec /\ mh[h].largest \in 0..Huge /\ mh[h].rover \in 0..Top /\ mh[h].b4rover \in 0..Top
  <2>1. mh[h] \in MiniRec
    BY <1>1, <1>3 DEF Mem, MemTypes
  <2>2. mh[h].b4rover <= Top
    BY <1>1, <1>3 DEF Mem, B4Small
  <2> QED
    BY <2>1, <2>2, Sizes DEF MiniRec
<1>5. /\ Mem' /\ Minis' = Minis /\ \A g \in Minis : FreeIn(g)' = FreeIn(g)
      /\ size' = size /\ used' = used /\ held' = held /\ need' = need /\ th' = th
  BY <1>1, <1>2, QuietMem DEF Kept, users
<1>6. /\ call' \in CallRec /\ call'.at \in {"mini", "scan"} /\ call'.job = "malloc" /\ call'.t = call.t
      /\ call'.amt = call.amt /\ call'.size = call.size /\ largestB4' \in 0..Huge
      /\ call'.mini \in {0} \cup Minis
      /\ call'.at = "scan" => call'.mini = h /\ call'.pcur \in {h} \cup FreeIn(h)
  <2>1. CASE PassOver(mh[h].largest)
    BY <1>1, <1>2, <1>4, <2>1, PassOverIs
  <2>2. CASE /\ call' = [call EXCEPT !.at = "scan", !.seen = mh[h].largest,
                                    !.pcur = IF low THEN next[h] ELSE mh[h].rover,
                                    !.largest = IF low THEN 0 ELSE mh[h].b4rover]
             /\ largestB4' = largestB4
    <3> DEFINE c == IF low THEN next[h] ELSE mh[h].rover
               lg == IF low THEN 0 ELSE mh[h].b4rover
    <3>1. c \in {h} \cup FreeIn(h) /\ c \in 0..Top
      <4>1. mh[h].rover \in {h} \cup FreeIn(h)
        BY <1>1, <1>3, MiniIs DEF Mem
      <4>2. next[h] \in {h} \cup FreeIn(h) /\ next[h] \in Addr
        <5>1. h \in {h} \cup FreeIn(h)
          OBVIOUS
        <5>2. Linked(h, FreeIn(h), next, prev, h) /\ next[h] \in Addr
          BY <1>1, <1>3, <5>1, LinkTypes DEF Mem
        <5> QED
          BY <5>2 DEF Linked
      <4> QED
        BY <1>4, <4>1, <4>2, Sizes DEF Addr
    <3>2. lg \in 0..Top
      BY <1>4, Sizes
    <3>3. call \in CallRec
      BY <1>1, CallFacts
    <3>4. call' = [call EXCEPT !.at = "scan", !.seen = mh[h].largest, !.pcur = c, !.largest = lg]
      BY <2>2
    <3>5. largestB4' \in 0..Huge
      BY <1>1, <2>2 DEF RoversOK
    <3> HIDE DEF c, lg
    <3> QED
      BY <1>3, <1>4, <3>1, <3>2, <3>3, <3>4, <3>5 DEF CallRec
  <2> QED
    BY <1>2, <2>1, <2>2
<1>7. RoversOK'
  BY <1>1, <1>2, <1>3, <1>5, <1>6 DEF RoversOK, RoversLive
<1>8. CallOK'
  BY <1>1, <1>3, <1>5, <1>6 DEF CallOK
<1> QED
  BY <1>2, <1>5, <1>6, <1>7, <1>8, QuietStep

LEMMA ScanOnMem ==
  ASSUME Mem, UserTypes, CallOK, ScanOn
  PROVE  /\ Mem' /\ Minis' = Minis /\ \A h \in Minis : Kept(h)
         /\ build' = build /\ moved' = moved /\ size' = size /\ used' = used /\ next' = next /\ prev' = prev
         /\ next[call.pcur] # call.mini => mh' = mh
         /\ next[call.pcur] = call.mini =>
              mh' = [mh EXCEPT ![call.mini].largest = Bigger(size[call.pcur], call.largest)]
<1> DEFINE h == call.mini
           lg == Bigger(size[call.pcur], call.largest)
<1>1. /\ call.at = "scan" /\ h \in Minis /\ call.pcur \in {h} \cup FreeIn(h) /\ h \in Addr
      /\ UNCHANGED <<build, moved, size, used, next, prev, curbrk, miniRover>>
      /\ next[call.pcur] # call.mini => mh' = mh
      /\ next[call.pcur] = call.mini => mh' = [mh EXCEPT ![call.mini].largest = lg]
  BY DEF ScanOn, CallOK, Minis
<1>2. lg \in 0..Huge
  <2>1. call.pcur \in Addr
    BY <1>1, BlocksAre DEF Mem
  <2>2. size[call.pcur] \in Nat /\ size[call.pcur] <= Top
    BY <2>1, SizesFit DEF Mem, MemTypes, Fits
  <2> QED
    BY <2>2, CallFacts, Sizes DEF Bigger, Huge
<1>3. mh' = [mh EXCEPT ![h] = [mh[h] EXCEPT !.largest = lg]] \/ mh' = mh
  BY <1>1
<1> HIDE DEF lg
<1>4. mh[h] \in MiniRec /\ mh \in [Addr -> MiniRec]
  BY <1>1 DEF Mem, MemTypes
<1>5. [mh[h] EXCEPT !.largest = lg] \in MiniRec /\ [mh[h] EXCEPT !.largest = lg].len = mh[h].len
  BY <1>2, <1>4 DEF MiniRec
<1>6. /\ \A g \in Addr : /\ mh'[g].len = mh[g].len /\ mh'[g].rover = mh[g].rover /\ mh'[g].b4rover = mh[g].b4rover
                         /\ mh'[g].numalloc = mh[g].numalloc /\ mh'[g].numfree = mh[g].numfree
      /\ mh' \in [Addr -> MiniRec] /\ \A g \in Addr : mh'[g].len = 0 => mh'[g] = NoMini
  <2>1. CASE mh' = mh
    BY <2>1 DEF Mem, MemTypes
  <2>2. CASE mh' = [mh EXCEPT ![h] = [mh[h] EXCEPT !.largest = lg]]
    <3>1. /\ mh'[h] = [mh[h] EXCEPT !.largest = lg] /\ \A g \in Addr : g # h => mh'[g] = mh[g]
          /\ mh' \in [Addr -> MiniRec] /\ \A g \in Addr : mh'[g].len = 0 => mh'[g] = NoMini
      BY <1>1, <1>5, <2>2, MiniSet DEF Mem
    <3>2. /\ mh'[h].len = mh[h].len /\ mh'[h].rover = mh[h].rover /\ mh'[h].b4rover = mh[h].b4rover
          /\ mh'[h].numalloc = mh[h].numalloc /\ mh'[h].numfree = mh[h].numfree
      BY <1>4, <3>1 DEF MiniRec
    <3> QED
      BY <3>1, <3>2
  <2> QED
    BY <1>3, <2>1, <2>2
<1>7. MemOK' /\ Minis' = Minis /\ \A g \in Minis : Kept(g)
  <2>1. UNCHANGED <<size, used, next, prev>>
    BY <1>1
  <2> QED
    BY <1>6, <2>1, SameBlocks DEF Mem, Kept
<1>8. MemTypes' /\ B4Small'
  BY <1>1, <1>6 DEF Mem, MemTypes, B4Small
<1>9. AtBreak'
  BY <1>1, <1>7 DEF Mem, AtBreak, Kept
<1> QED
  BY <1>1, <1>7, <1>8, <1>9 DEF Mem, lg

LEMMA ScanOnStep ==
  ASSUME IInv, ScanOn
  PROVE  IInv'
<1> DEFINE h == call.mini
           lg == Bigger(size[call.pcur], call.largest)
<1>1. Mem /\ RoversOK /\ UserTypes /\ CallOK /\ UsersOK
  BY Parts
<1>2. /\ call.at = "scan" /\ h \in Minis /\ call.pcur \in {h} \cup FreeIn(h) /\ UNCHANGED <<users, miniRover, freeRover>>
      /\ IF next[call.pcur] = h THEN PassOver(call.seen)
         ELSE call' = [call EXCEPT !.pcur = next[call.pcur], !.largest = lg] /\ largestB4' = largestB4
  BY <1>1 DEF ScanOn, CallOK
<1>3. /\ Mem' /\ Minis' = Minis /\ \A g \in Minis : FreeIn(g)' = FreeIn(g)
      /\ size' = size /\ used' = used /\ th' = th
  BY <1>1, <1>2, ScanOnMem DEF Kept, users
<1>4. /\ next[call.pcur] \in {h} \cup FreeIn(h) /\ next[call.pcur] \in 0..Top /\ lg \in 0..Top /\ h # 0
  <2>1. Linked(h, FreeIn(h), next, prev, call.pcur) /\ next[call.pcur] \in Addr /\ call.pcur \in Addr
    BY <1>1, <1>2, LinkTypes DEF Mem
  <2>2. size[call.pcur] \in Nat /\ size[call.pcur] <= Top
    BY <1>1, <2>1, SizesFit DEF Mem, MemTypes, Fits
  <2>3. call.largest \in 0..Top
    BY <1>1, CallFacts
  <2> QED
    BY <1>2, <2>1, <2>2, <2>3, Sizes DEF Linked, Addr, Bigger, Minis
<1>5. /\ call' \in CallRec /\ call'.at \in {"mini", "scan"} /\ call'.job = "malloc" /\ call'.t = call.t
      /\ call'.amt = call.amt /\ call'.size = call.size /\ largestB4' \in 0..Huge
      /\ call'.mini \in {0} \cup Minis
      /\ call'.at = "scan" => call'.mini = h /\ call'.pcur \in {h} \cup FreeIn(h)
  <2>0. call \in CallRec /\ call.job = "malloc" /\ call.seen \in 0..Huge /\ h \in 0..Top
    BY <1>1, <1>2, CallFacts DEF CallOK
  <2>1. CASE next[call.pcur] = h
    <3>1. PassOver(call.seen)
      BY <1>2, <2>1
    <3> QED
      BY <1>1, <1>2, <1>4, <2>0, <3>1, PassOverIs
  <2>2. CASE next[call.pcur] # h
    <3>1. call' = [call EXCEPT !.pcur = next[call.pcur], !.largest = lg] /\ largestB4' \in 0..Huge
      BY <1>1, <1>2, <2>2 DEF RoversOK
    <3> HIDE DEF lg
    <3> QED
      BY <1>2, <1>4, <2>0, <3>1 DEF CallRec
  <2> QED
    BY <2>1, <2>2
<1>6. RoversOK'
  BY <1>1, <1>2, <1>3, <1>5 DEF RoversOK, RoversLive
<1>7. CallOK'
  BY <1>1, <1>2, <1>3, <1>5 DEF CallOK
<1>8. UNCHANGED <<size, used, users>>
  BY <1>2, <1>3
<1> QED
  BY <1>2, <1>3, <1>5, <1>6, <1>7, <1>8, QuietStep

-----------------------------------------------------------------------------
(* Calls that end *)

LEMMA EndStep ==
  ASSUME IInv, Mem', RoversOK', NEW r, Return(r), Outcome(r)
  PROVE  IInv'
<1>1. UserTypes /\ UsersOK /\ CallOK /\ MemTypes' /\ MemOK'
  BY Parts DEF Mem
<1>2. UserTypes' /\ UsersOK' /\ CallOK'
  BY <1>1, ReturnUsers
<1> QED
  BY <1>2, PartsNext

LEMMA QuietEnd ==
  ASSUME IInv, QuietHeap, UNCHANGED rovers, NEW r, Return(r), call.job # "none", call.at # "nfree",
         call.job = "malloc" => r = 0, call.job = "expand" => r = 0 \/ (r = call.ptr /\ call.size <= size[r]),
         call.job = "heapmin" => r # 0, call.job # "free"
  PROVE  IInv'
<1>1. Mem /\ RoversOK /\ UserTypes
  BY Parts
<1>2. Mem' /\ Minis' = Minis /\ size' = size /\ used' = used
  BY <1>1, QuietMem
<1>3. RoversOK'
  BY <1>1, <1>2, RoversSame
<1>4. \A a \in used : size[a] <= size'[a]
  BY <1>1, <1>2 DEF UserTypes, MemTypes
<1>5. Outcome(r)
  BY <1>1, <1>2, <1>4, CallFacts DEF Outcome
<1> QED
  BY <1>2, <1>3, <1>5, EndStep

LEMMA QuietEnds ==
  ASSUME IInv, GiveUp \/ NoRoom \/ HeapMinDone \/ ExpandFits \/ ExpandFails
  PROVE  IInv'
<1>0. CallOK /\ UserTypes
  BY Parts
<1>1. CASE GiveUp
  <2>1. QuietHeap /\ UNCHANGED rovers /\ Return(0) /\ call.at = "mini" /\ call.job = "malloc"
    BY <1>0, <1>1 DEF GiveUp, QuietHeap, blocks, CallOK
  <2> QED
    BY <2>1, QuietEnd
<1>2. CASE NoRoom
  <2>1. QuietHeap /\ UNCHANGED rovers /\ Return(0) /\ call.at # "nfree" /\ call.job \in {"malloc", "expand"}
    BY <1>0, <1>2 DEF NoRoom, Growing, QuietHeap, blocks, CallOK
  <2> QED
    BY <2>1, QuietEnd
<1>3. CASE HeapMinDone
  <2>1. QuietHeap /\ UNCHANGED rovers /\ Return(1) /\ call.at # "nfree" /\ call.job = "heapmin"
    BY <1>3 DEF HeapMinDone, QuietHeap, blocks
  <2> QED
    BY <2>1, QuietEnd
<1>4. CASE ExpandFits
  <2>1. QuietHeap /\ UNCHANGED rovers /\ Return(call.ptr) /\ call.at # "nfree" /\ call.job = "expand" /\ call.size <= size[call.ptr]
    BY <1>0, <1>4 DEF ExpandFits, QuietHeap, blocks, CallOK
  <2> QED
    BY <2>1, QuietEnd
<1>5. CASE ExpandFails
  <2>1. QuietHeap /\ UNCHANGED rovers /\ Return(0) /\ call.at # "nfree" /\ call.job = "expand"
    BY <1>0, <1>5 DEF ExpandFails, QuietHeap, blocks, CallOK
  <2> QED
    BY <2>1, QuietEnd
<1> QED
  BY <1>1, <1>2, <1>3, <1>4, <1>5

LEMMA HeapMinStep ==
  ASSUME IInv, HeapMin \/ ShrinkFirst
  PROVE  IInv'
<1>1. Mem /\ RoversOK /\ UserTypes /\ CallOK /\ build \in {"slices", "pages"}
  BY Parts, HeapAssumption DEF Mem, MemTypes
<1>2. QuietHeap /\ UNCHANGED <<rovers, users>> /\ call.at # "nfree"
  BY NoCallIs DEF HeapMin, ShrinkFirst, Growing, QuietHeap, blocks, rovers
<1>3. Mem' /\ Minis' = Minis /\ size' = size /\ used' = used /\ build' = build /\ moved' = moved /\ th' = th /\ need' = need
  BY <1>1, <1>2, QuietMem DEF users
<1>4. RoversOK'
  BY <1>1, <1>2, <1>3, RoversSame
<1>5. FirstMini \in {0} \cup Minis /\ FirstMini \in 0..Top
  <2>1. FirstMini \in {0} \cup Minis
    BY <1>1, FirstMiniIs DEF Mem
  <2> QED
    BY <2>1, Sizes DEF Minis, Addr
<1>6. call' \in CallRec /\ call'.at # "nfree" /\ CallOK'
  <2>1. CASE HeapMin
    <3>1. /\ call' = [NoCall EXCEPT !.job = "heapmin", !.at = IF build = "pages" THEN "shrink" ELSE "cut",
                                   !.mini = IF build = "pages" THEN FirstMini ELSE 0]
      BY <2>1 DEF HeapMin
    <3>2. 0 \in 0..Top
      BY Sizes
    <3>3. /\ call' \in CallRec /\ call'.job = "heapmin" /\ call'.at = (IF build = "pages" THEN "shrink" ELSE "cut")
          /\ call'.mini \in {0} \cup Minis /\ call'.t = Other
      BY <1>5, <3>1, <3>2, NoCallIs DEF CallRec
    <3> QED
      BY <1>1, <1>3, <3>3 DEF CallOK
  <2>2. CASE ShrinkFirst
    <3>1. /\ call' = [call EXCEPT !.at = "shrink", !.mini = FirstMini] /\ build = "pages" /\ call.job = "malloc"
          /\ call \in CallRec
      BY <1>1, <2>2, CallFacts DEF ShrinkFirst, Growing, CallOK
    <3>2. /\ call' \in CallRec /\ call'.job = "malloc" /\ call'.at = "shrink" /\ call'.mini \in {0} \cup Minis /\ call'.t = call.t
          /\ call'.amt = call.amt /\ call'.size = call.size
      BY <1>5, <3>1 DEF CallRec
    <3> QED
      BY <1>1, <1>3, <3>1, <3>2 DEF CallOK
  <2> QED
    BY <2>1, <2>2
<1> QED
  <2>1. UNCHANGED <<size, used, users>>
    BY <1>2, <1>3
  <2> QED
    BY <1>2, <1>3, <1>4, <1>6, <2>1, QuietStep

-----------------------------------------------------------------------------
(* __MemAllocator takes a block. *)

CarveIs(h, c) ==
  /\ h \in Minis /\ c \in FreeIn(h) /\ c \in Addr /\ c \notin used /\ used' = used \cup {c}
  /\ build' = build /\ moved' = moved /\ curbrk' = curbrk /\ UNCHANGED rovers
  /\ size[c] \in Nat /\ call.size <= size[c] /\ call.size <= size'[c]
  /\ \A a \in Addr : a # c /\ a # c + call.size => size'[a] = size[a]
  /\ \A g \in Addr : g # h => mh'[g] = mh[g]
  /\ mh'[h].len = mh[h].len /\ mh'[h].largest = mh[h].largest /\ mh'[h].b4rover = call.largest
  /\ \/ /\ Splits(size[c] - call.size) /\ mh'[h].rover = c + call.size /\ size'[c + call.size] = size[c] - call.size
        /\ size[c + call.size] = 0 /\ c + call.size \notin used
        /\ Changed(h, Blocks(h) \cup {c + call.size}, (FreeIn(h) \ {c}) \cup {c + call.size})
     \/ /\ mh'[h].rover = prev[c] /\ size' = size
        /\ Changed(h, Blocks(h), FreeIn(h) \ {c})
LEMMA CarveMem ==
  ASSUME Mem, UserTypes, CallOK, Carve, NEW h, h = call.mini, NEW c, c = call.pcur
  PROVE  CarveIs(h, c)
<1> DEFINE s == call.size  n == c + s
           left == size[c] - s
           found == [mh[h] EXCEPT !.b4rover = call.largest, !.numalloc = @ + 1]
<1>1. /\ call.at = "scan" /\ size[c] >= s /\ used' = used \cup {c} /\ call.job = "malloc"
      /\ UNCHANGED <<build, moved, rovers, curbrk>>
      /\ \/ /\ Splits(left)
            /\ mh' = [mh EXCEPT ![h] = [found EXCEPT !.rover = n]]
            /\ size' = [size EXCEPT ![c] = s, ![n] = left]
            /\ next' = [next EXCEPT ![prev[c]] = n, ![n] = next[c], ![c] = 0]
            /\ prev' = [prev EXCEPT ![next[c]] = n, ![n] = prev[c], ![c] = 0]
         \/ /\ ~Splits(left)
            /\ mh' = [mh EXCEPT ![h] = [found EXCEPT !.rover = prev[c], !.numfree = @ - 1]]
            /\ size' = size
            /\ next' = [next EXCEPT ![prev[c]] = next[c], ![c] = 0]
            /\ prev' = [prev EXCEPT ![next[c]] = prev[c], ![c] = 0]
  BY DEF Carve, CallOK
<1>2. /\ h \in Minis /\ h \in Addr /\ c \in {h} \cup FreeIn(h) /\ s \in Nat /\ s > 0 /\ Frl <= s /\ call.largest \in Nat
  <2>1. s = BlockSize(call.amt) /\ call.amt > 0 /\ call.amt \in Nat /\ call.largest \in 0..Top
    BY <1>1, CallFacts DEF CallOK
  <2>2. s \in Nat /\ s > call.amt /\ Frl <= s
    BY <2>1, BlockSizeIs
  <2> QED
    BY <1>1, <2>1, <2>2, Sizes DEF CallOK, Minis
<1>3. c \in FreeIn(h)
  <2>1. size[h] = 0
    BY <1>2, NoBlockThere DEF Mem
  <2> QED
    BY <1>1, <1>2, <2>1
<1>4. c \in Addr /\ c \notin used /\ size[c] \in Nat /\ c \in Blocks(h)
  BY <1>2, <1>3, BlocksAre DEF Mem, MemTypes
<1>5. mh[h] \in MiniRec /\ mh \in [Addr -> MiniRec] /\ size \in [Addr -> Nat]
  BY <1>2 DEF Mem, MemTypes
<1>6. CASE Splits(left)
  <2>1. Frl <= size[c] - s
    BY <1>6 DEF Splits
  <2>2. /\ mh' = [mh EXCEPT ![h] = [found EXCEPT !.rover = n]]
        /\ size' = [size EXCEPT ![c] = s, ![n] = left]
        /\ next' = [next EXCEPT ![prev[c]] = n, ![n] = next[c], ![c] = 0]
        /\ prev' = [prev EXCEPT ![next[c]] = n, ![n] = prev[c], ![c] = 0]
    BY <1>1, <1>6
  <2>3. Changed(h, Blocks(h) \cup {n}, (FreeIn(h) \ {c}) \cup {n})
    <3>1. /\ used' = used \cup {c} /\ build' = build /\ moved' = moved
          /\ mh' = [mh EXCEPT ![h] = [[mh[h] EXCEPT !.b4rover = call.largest, !.numalloc = @ + 1] EXCEPT !.rover = c + s]]
          /\ size' = [size EXCEPT ![c] = s, ![c + s] = size[c] - s]
          /\ next' = [next EXCEPT ![prev[c]] = c + s, ![c + s] = next[c], ![c] = 0]
          /\ prev' = [prev EXCEPT ![next[c]] = c + s, ![c + s] = prev[c], ![c] = 0]
      BY <1>1, <2>2
    <3>2. Changed(h, Blocks(h) \cup {c + s}, (FreeIn(h) \ {c}) \cup {c + s})
      BY <1>2, <1>3, <2>1, <3>1, CarveSplit DEF Mem
    <3> QED
      BY <3>2
  <2>4. n \in Addr /\ n # c /\ size[n] = 0 /\ n \notin used
    <3>1. n \in Int /\ c < n /\ n < c + size[c]
      BY <1>2, <1>4, <2>1, Sizes DEF Addr
    <3> QED
      BY <1>2, <1>4, <3>1, InsideBlock, Sizes DEF Mem, Addr
  <2>5. size'[c] = s /\ size'[n] = left /\ \A a \in Addr : a # c /\ a # n => size'[a] = size[a]
    BY <1>4, <1>5, <2>2, <2>4
  <2>6. /\ \A g \in Addr : g # h => mh'[g] = mh[g]
        /\ mh'[h].len = mh[h].len /\ mh'[h].largest = mh[h].largest /\ mh'[h].b4rover = call.largest
        /\ mh'[h].rover = n
    BY <1>2, <1>5, <2>2 DEF MiniRec
  <2> QED
    BY <1>1, <1>2, <1>3, <1>4, <1>6, <2>3, <2>4, <2>5, <2>6 DEF CarveIs
<1>7. CASE ~Splits(left)
  <2>2. /\ mh' = [mh EXCEPT ![h] = [found EXCEPT !.rover = prev[c], !.numfree = @ - 1]]
        /\ size' = size
        /\ next' = [next EXCEPT ![prev[c]] = next[c], ![c] = 0]
        /\ prev' = [prev EXCEPT ![next[c]] = prev[c], ![c] = 0]
    BY <1>1, <1>7
  <2>3. Changed(h, Blocks(h), FreeIn(h) \ {c})
    <3>1. mh' = [mh EXCEPT ![h] = [[mh[h] EXCEPT !.b4rover = call.largest, !.numalloc = @ + 1] EXCEPT !.rover = prev[c], !.numfree = @ - 1]]
      BY <2>2
    <3> QED
      BY <1>1, <1>2, <1>3, <2>2, <3>1, CarveWhole DEF Mem
  <2>6. /\ \A g \in Addr : g # h => mh'[g] = mh[g]
        /\ mh'[h].len = mh[h].len /\ mh'[h].largest = mh[h].largest /\ mh'[h].b4rover = call.largest
        /\ mh'[h].rover = prev[c]
    BY <1>2, <1>5, <2>2 DEF MiniRec
  <2> QED
    BY <1>1, <1>2, <1>3, <1>4, <1>7, <2>2, <2>3, <2>6 DEF CarveIs
<1> QED
  BY <1>6, <1>7

\* The parts of Mem that a change of one mini-heap's blocks leaves.
LEMMA ChangedMem ==
  ASSUME Mem, NEW h \in Minis, NEW B2, NEW F2, Changed(h, B2, F2), build' = build /\ moved' = moved, curbrk' = curbrk,
         mh'[h].b4rover <= Top, \A g \in Addr : g # h => mh'[g] = mh[g]
  PROVE  Mem' /\ Minis' = Minis
<1>1. MemTypes' /\ MemOK' /\ Minis' = Minis /\ \A g \in Minis : EndTag(g)' = EndTag(g)
  BY DEF Changed
<1>2. B4Small'
  BY DEF Mem, B4Small
<1>3. AtBreak'
  BY <1>1 DEF Mem, AtBreak
<1> QED
  BY <1>1, <1>2, <1>3 DEF Mem

LEMMA CarveStep ==
  ASSUME IInv, Carve
  PROVE  IInv'
<1> SUFFICES ASSUME NEW h, h = call.mini, NEW c, c = call.pcur PROVE IInv'
  OBVIOUS
<1>1. Mem /\ RoversOK /\ UserTypes /\ CallOK
  BY Parts
<1>2. CarveIs(h, c) /\ Return(c) /\ call.job = "malloc" /\ call.at = "scan"
  BY <1>1, CarveMem DEF Carve, CallOK
<1>3. Mem' /\ Minis' = Minis
  <2>1. call.largest <= Top
    BY <1>1, CallFacts, Sizes
  <2> QED
    BY <1>1, <1>2, <2>1, ChangedMem DEF CarveIs
<1>4. RoversOK'
  BY <1>1, <1>2, <1>3, RoversSame DEF CarveIs
<1>5. Outcome(c)
  <2>1. \A a \in used : a \in Addr /\ size[a] > 0 /\ size[a] \in Nat
    BY <1>1 DEF Mem, MemTypes, MemOK, Covered
  <2>2. ASSUME NEW a \in used PROVE size'[a] = size[a]
    <3>1. CASE size' = size
      BY <3>1
    <3>2. CASE size[c + call.size] = 0
      BY <1>2, <2>1, <3>2 DEF CarveIs
    <3> QED
      BY <1>2, <3>1, <3>2 DEF CarveIs
  <2> QED
    BY <1>2, <2>1, <2>2 DEF Outcome, CarveIs
<1> QED
  BY <1>2, <1>3, <1>4, <1>5, EndStep

-----------------------------------------------------------------------------
(* The heap gets an allocated block that is still to be freed. *)

Added(a) ==
  /\ a \in Addr /\ a \notin used /\ used' = used \cup {a}
  /\ call' = [call EXCEPT !.at = "nfree", !.pcur = a]
  /\ UNCHANGED <<build, moved, rovers, users>>
  /\ \A x \in used : size'[x] > need[x]
  /\ \A x \in Addr : x \notin used' => size'[x] = size[x]
  /\ Minis \subseteq Minis'
  /\ \A g \in Minis : /\ FreeIn(g)' = FreeIn(g) /\ mh'[g].rover = mh[g].rover /\ mh'[g].b4rover = mh[g].b4rover
                      /\ mh'[g].largest \in {mh[g].largest, Huge}
  /\ \A g \in Minis' : g \notin Minis => FreeIn(g)' = {} /\ mh'[g].rover = g

LEMMA AddedStep ==
  ASSUME IInv, Mem', NEW a, Added(a), call.at # "nfree", call.job \in {"malloc", "expand"}
  PROVE  IInv'
<1>1. Mem /\ RoversOK /\ UserTypes /\ CallOK /\ UsersOK
  BY Parts
<1>2. /\ a \in Addr /\ a \notin used /\ used' = used \cup {a} /\ held' = held /\ need' = need /\ th' = th
      /\ call' = [call EXCEPT !.at = "nfree", !.pcur = a] /\ \A x \in used : size'[x] > need[x]
  BY DEF Added, users
<1>3. RoversOK'
  BY <1>1, RoversSame DEF Added
<1>4. /\ call' \in CallRec /\ call'.at = "nfree" /\ call'.pcur = a /\ call'.job = call.job /\ call'.t = call.t
      /\ call'.amt = call.amt /\ call'.size = call.size /\ call'.ptr = call.ptr
  <2>1. call \in CallRec /\ a \in 0..Top
    BY <1>1, <1>2, CallFacts, Sizes DEF Addr
  <2> QED
    BY <1>2, <2>1 DEF CallRec
<1>5. UserTypes'
  BY <1>1, <1>2, <1>4 DEF UserTypes, Mem
<1>6. Freeing = {} /\ Freeing' = {a}
  BY <1>4 DEF Freeing
<1>7. CallOK'
  BY <1>1, <1>2, <1>4 DEF CallOK
<1>8. ThreadsOK' /\ NeedSmall'
  BY <1>1, <1>2 DEF UsersOK, ThreadsOK, NeedSmall
<1>9. Owned'
  <2>1. \A t : Mine(t)' = Mine(t)
    BY <1>2 DEF Mine
  <2>2. a \notin held /\ \A t \in Threads : a \notin Mine(t)
    BY <1>1, <1>2 DEF UsersOK, Owned
  <2> QED
    BY <1>1, <1>2, <1>4, <1>6, <2>1, <2>2 DEF UsersOK, Owned
<1>10. Enough'
  <2>1. \A x \in used : need[x] > 0
    BY <1>1, <1>6 DEF UsersOK, Enough
  <2> QED
    BY <1>2, <1>6, <2>1 DEF Enough
<1>11. UsersOK'
  BY <1>8, <1>9, <1>10 DEF UsersOK
<1> QED
  BY <1>3, <1>5, <1>7, <1>11, PartsNext

\* Where _nexpand is.
ExpandingAt(p, h) ==
  /\ p = call.ptr /\ h = MiniOf(p) /\ call.job = "expand" /\ p \in used /\ p \in Addr /\ size[p] \in Nat
  /\ h \in Minis /\ h \in Addr /\ p \in Blocks(h) /\ Within(h, p)
  /\ need[p] \in Nat /\ need[p] < call.size /\ call.size \in Nat /\ Frl <= call.size /\ size[p] > need[p]
LEMMA Expanding ==
  ASSUME Mem, UserTypes, CallOK, UsersOK, call.at = "expand"
  PROVE  ExpandingAt(call.ptr, MiniOf(call.ptr)) /\ Freeing = {}
<1>1. call.job = "expand" /\ call.t \in Threads /\ call.ptr = th[call.t].ptr /\ th[call.t].at # "idle"
      /\ call.size = BlockSize(call.amt) /\ call.amt > 0 /\ call.amt \in Nat /\ need[call.ptr] <= call.amt
  BY CallFacts DEF CallOK
<1>2. Freeing = {}
  BY DEF Freeing
<1>3. call.ptr \in used
  <2>1. th[call.t].ptr # 0
    BY <1>1 DEF UsersOK, ThreadsOK, ThreadOK
  <2>2. call.ptr \in Mine(call.t)
    BY <1>1, <2>1 DEF Mine
  <2> QED
    BY <1>1, <2>2 DEF UsersOK, Owned
<1>4. call.ptr \in Addr /\ size[call.ptr] \in Nat /\ need[call.ptr] \in Nat /\ size[call.ptr] > need[call.ptr]
  BY <1>2, <1>3 DEF UserTypes, MemTypes, UsersOK, Enough
<1>5. MiniOf(call.ptr) \in Minis /\ call.ptr \in Blocks(MiniOf(call.ptr)) /\ Within(MiniOf(call.ptr), call.ptr)
  BY <1>4, BlockIn DEF Mem
<1>6. call.size \in Nat /\ call.size > call.amt /\ Frl <= call.size
  BY <1>1, BlockSizeIs
<1> QED
  BY <1>1, <1>2, <1>3, <1>4, <1>5, <1>6 DEF ExpandingAt, Minis

LEMMA ExpandCutMem ==
  ASSUME Mem, UserTypes, CallOK, UsersOK, ExpandCut,
         NEW p, p = call.ptr, NEW h, h = MiniOf(p), NEW s, s = call.size, NEW a, a = p + s
  PROVE  Mem' /\ Added(a)
<1>1. /\ call.at = "expand" /\ size[p] >= s + Frl
      /\ size' = [size EXCEPT ![p] = s, ![a] = size[p] - s] /\ used' = used \cup {a}
      /\ mh' = [mh EXCEPT ![h].numalloc = @ + 1]
      /\ call' = [call EXCEPT !.at = "nfree", !.pcur = a]
      /\ UNCHANGED <<build, moved, next, prev>> /\ UNCHANGED <<build, moved, rovers, users>> /\ curbrk' = curbrk
  BY DEF ExpandCut
<1>2. ExpandingAt(p, h)
  BY <1>1, Expanding
<1>3. /\ Changed(h, Blocks(h) \cup {a}, FreeIn(h))
      /\ mh'[h] = [mh[h] EXCEPT !.numalloc = @ + 1] /\ \A g \in Addr : g # h => mh'[g] = mh[g]
      /\ a \in Addr /\ a \notin used /\ a # p /\ size'[p] = s
      /\ \A x \in Addr : x # p /\ x # a => size'[x] = size[x]
  <2>1. MemTypes /\ MemOK /\ h \in Minis /\ p \in Blocks(h) /\ p \in used /\ s \in Nat /\ Frl <= s /\ s + Frl <= size[p]
    BY <1>1, <1>2, Sizes DEF ExpandingAt, Mem
  <2>2. /\ size' = [size EXCEPT ![p] = s, ![a] = size[p] - s]
        /\ used' = used \cup {a} /\ mh' = [mh EXCEPT ![h].numalloc = @ + 1]
        /\ UNCHANGED <<build, moved, next, prev>>
    BY <1>1
  <2>3. /\ Changed(h, Blocks(h) \cup {a}, FreeIn(h))
        /\ mh'[h] = [mh[h] EXCEPT !.numalloc = @ + 1] /\ \A g \in Addr : g # h => mh'[g] = mh[g]
        /\ a \in Addr /\ a \notin used
    BY <2>1, <2>2, SliceOff
  <2>4. a # p /\ p \in Addr
    BY <1>2, Sizes DEF ExpandingAt, Addr
  <2>5. size'[p] = s /\ \A x \in Addr : x # p /\ x # a => size'[x] = size[x]
    <3>1. size \in [Addr -> Nat]
      BY DEF Mem, MemTypes
    <3> QED
      BY <2>2, <2>4, <3>1
  <2> QED
    BY <2>3, <2>4, <2>5
<1>4. mh'[h].rover = mh[h].rover /\ mh'[h].b4rover = mh[h].b4rover /\ mh'[h].largest = mh[h].largest
  <2>1. mh[h] \in MiniRec
    BY <1>2 DEF ExpandingAt, Mem, MemTypes
  <2> QED
    BY <1>3, <2>1 DEF MiniRec
<1>5. Mem' /\ Minis' = Minis
  <2>1. mh'[h].b4rover <= Top /\ build' = build /\ moved' = moved
    BY <1>1, <1>2, <1>4 DEF ExpandingAt, Mem, B4Small
  <2> QED
    BY <1>1, <1>2, <1>3, <2>1, ChangedMem DEF ExpandingAt
<1>6. \A x \in used : size'[x] > need[x]
  <2>1. ASSUME NEW x \in used PROVE size'[x] > need[x]
    <3>1. x \in Addr /\ size[x] > need[x]
      BY <1>1, <2>1, Expanding DEF Mem, MemTypes, UsersOK, Enough
    <3> QED
      BY <1>2, <1>3, <3>1 DEF ExpandingAt
  <2> QED
    BY <2>1
<1>7. \A g \in Minis : /\ FreeIn(g)' = FreeIn(g) /\ mh'[g].rover = mh[g].rover /\ mh'[g].b4rover = mh[g].b4rover
                       /\ mh'[g].largest = mh[g].largest
  BY <1>3, <1>4 DEF Changed, Minis
<1>8. \A x \in Addr : x \notin used' => size'[x] = size[x]
  BY <1>1, <1>2, <1>3 DEF ExpandingAt
<1> QED
  BY <1>1, <1>3, <1>5, <1>6, <1>7, <1>8 DEF Added

LEMMA ExpandCutStep ==
  ASSUME IInv, ExpandCut
  PROVE  IInv'
<1> SUFFICES ASSUME NEW p, p = call.ptr, NEW h, h = MiniOf(p), NEW s, s = call.size, NEW a, a = p + s PROVE IInv'
  OBVIOUS
<1>1. Mem' /\ Added(a)
  BY ExpandCutMem, Parts
<1> QED
  BY <1>1, AddedStep, Parts DEF ExpandCut, CallOK

\* __AdjustAmount asks for more than a block and a descriptor.
LEMMA RoundedUp ==
  ASSUME NEW x \in Nat, NEW b \in Nat, b > 0
  PROVE  ((x + b - 1) \div b) * b \in Nat /\ x <= ((x + b - 1) \div b) * b
<1> DEFINE q == (x + b - 1) \div b
<1>1. q \in Nat /\ q * b \in Nat /\ x + b - 1 < (q + 1) * b
  OBVIOUS
<1>2. (q + 1) * b = q * b + b
  BY <1>1
<1> QED
  BY <1>1, <1>2
LEMMA AdjustedIs ==
  ASSUME Mem, NEW amount \in Nat
  PROVE  Adjusted(amount) \in Nat /\ Frl + Hdr + 1 <= Adjusted(amount)
<1>1. LastFree \in Nat
  <2>1. CASE Minis # {}
    <3>1. FirstMini \in Minis
      BY <2>1, FirstMiniIs DEF Mem, Minis, Addr
    <3>2. prev[FirstMini] \in Addr
      BY <3>1, LinkTypes DEF Mem
    <3> QED
      BY <2>1, <3>2 DEF LastFree, Mem, MemTypes
  <2> QED
    BY <2>1 DEF LastFree
<1> DEFINE more == amount + 1
           rest == IF build = "pages" THEN more
                   ELSE IF LastFree >= more THEN 0 ELSE more - LastFree
           all == rest + 1 + Frl + Hdr
<1>2. all \in Nat /\ Frl + Hdr + 1 <= all
  BY <1>1, Sizes
<1>3. Adjusted(amount) = IF build = "pages" THEN ((all + BlkSiz - 1) \div BlkSiz) * BlkSiz
                         ELSE Bigger(all, BlkSiz)
  BY DEF Adjusted
<1> HIDE DEF all
<1>4. ((all + BlkSiz - 1) \div BlkSiz) * BlkSiz \in Nat /\ all <= ((all + BlkSiz - 1) \div BlkSiz) * BlkSiz
  BY <1>2, Sizes, RoundedUp
<1> QED
  BY <1>2, <1>3, <1>4, Sizes DEF Bigger

\* A new mini-heap, at the break or where the system has a place.
LEMMA LinkUpMem ==
  ASSUME Mem, UserTypes, UsersOK, call.at # "nfree",
         NEW h \in Addr, NEW len \in Nat, NEW largest \in {0, Huge}, Frl <= len - Hdr, h + len <= Top,
         \A g \in Minis : EndTag(g) < h \/ h + len < g, UNCHANGED <<build, moved, rovers, users>>,
         LinkUp(h, len, largest), NEW a, a = h + Hdr
  PROVE  /\ MemTypes' /\ MemOK' /\ B4Small' /\ Minis' = Minis \cup {h} /\ EndTag(h)' = h + len
         /\ Added(a) /\ mh'[h].largest = largest /\ \A g \in Minis : EndTag(g)' = EndTag(g)
<1>1. /\ mh' = [mh EXCEPT ![h] = NewMini(h, len, largest)]
      /\ next' = [next EXCEPT ![h] = h] /\ prev' = [prev EXCEPT ![h] = h]
      /\ size' = [size EXCEPT ![h + Hdr] = len - Hdr] /\ used' = used \cup {h + Hdr}
      /\ call' = [call EXCEPT !.at = "nfree", !.pcur = a]
  BY DEF LinkUp, NewMini
<1>2. LinkedUp(h, len, largest)
  BY <1>1 DEF LinkedUp
<1>3. largest \in 0..Huge /\ MemTypes /\ MemOK
  BY Sizes DEF Huge, Mem
<1>4. /\ MemTypes' /\ MemOK' /\ Minis' = Minis \cup {h} /\ h \notin Minis
      /\ \A g \in Minis : Kept(g)
      /\ FreeIn(h)' = {} /\ EndTag(h)' = h + len
      /\ mh'[h] = NewMini(h, len, largest) /\ \A g \in Addr : g # h => mh'[g] = mh[g]
  BY <1>2, <1>3, LinkUpOK
<1>5. /\ h + Hdr \in Addr /\ h + Hdr \notin used
      /\ \A x \in Addr : x # h + Hdr => size'[x] = size[x]
  BY <1>2, <1>3, LinkUpOK
<1>6. B4Small'
  BY <1>4, Sizes DEF Mem, B4Small, NewMini
<1>7. \A x \in used : size'[x] > need[x]
  <2>1. ASSUME NEW x \in used PROVE size'[x] > need[x]
    <3>1. x \in Addr /\ x # h + Hdr /\ size[x] > need[x]
      BY <1>3, <1>5, <2>1 DEF MemTypes, UsersOK, Enough, Freeing
    <3> QED
      BY <1>5, <3>1
  <2> QED
    BY <2>1
<1>8. \A x \in Addr : x \notin used' => size'[x] = size[x]
  BY <1>1, <1>5
<1>9. \A g \in Minis : /\ FreeIn(g)' = FreeIn(g) /\ mh'[g].rover = mh[g].rover /\ mh'[g].b4rover = mh[g].b4rover
                       /\ mh'[g].largest \in {mh[g].largest, Huge}
  BY <1>4 DEF Kept, Minis
<1>10. \A g \in Minis' : g \notin Minis => FreeIn(g)' = {} /\ mh'[g].rover = g
  BY <1>4 DEF NewMini
<1>11. Added(a)
  BY <1>1, <1>4, <1>5, <1>7, <1>8, <1>9, <1>10 DEF Added
<1>12. \A g \in Minis : EndTag(g)' = EndTag(g)
  BY <1>4 DEF EndTag, Minis
<1> QED
  BY <1>4, <1>6, <1>11, <1>12 DEF NewMini

LEMMA WantedIs ==
  ASSUME Mem, UserTypes, CallOK, UsersOK, Growing
  PROVE  Wanted \in Nat /\ call.at # "nfree" /\ call.job \in {"malloc", "expand"}
<1>1. CASE call.at = "mini"
  BY <1>1, CallFacts DEF Wanted, CallOK
<1>2. CASE call.at # "mini"
  <2>1. call.at = "expand" /\ call.size > size[call.ptr]
    BY <1>2 DEF Growing
  <2>2. call.size \in Nat /\ size[call.ptr] \in Nat
    BY <2>1, Expanding DEF ExpandingAt
  <2> QED
    BY <1>2, <2>1, <2>2 DEF Wanted, CallOK
<1> QED
  BY <1>1, <1>2

\* sbrk: what is got ends at the new break.
LEMMA GrowMem ==
  ASSUME Mem, UserTypes, CallOK, UsersOK, GrowSlices, NEW a, a = call'.pcur
  PROVE  Mem' /\ Added(a) /\ build = "slices"
<1> SUFFICES ASSUME NEW got, got = Adjusted(Wanted), NEW b, b = curbrk
             PROVE  Mem' /\ Added(a) /\ build = "slices"
  OBVIOUS
<1>1. /\ build = "slices" /\ Growing /\ b + got <= Top + 1 /\ curbrk' = b + got
      /\ UNCHANGED <<build, moved, rovers, users>>
      /\ IF Minis # {} /\ EndTag(LastMini) = b - 1
         THEN /\ mh' = [mh EXCEPT ![LastMini].len = @ + got, ![LastMini].numalloc = @ + 1, ![LastMini].largest = Huge]
              /\ size' = [size EXCEPT ![b - 1] = got]
              /\ used' = used \cup {b - 1}
              /\ call' = [call EXCEPT !.at = "nfree", !.pcur = b - 1]
              /\ UNCHANGED <<next, prev>>
         ELSE LinkUp(b, got - 1, Huge)
  BY DEF GrowSlices
<1>2. got \in Nat /\ Frl + Hdr + 1 <= got /\ b \in 1..Top + 1 /\ call.at # "nfree"
  BY <1>1, WantedIs, AdjustedIs DEF Mem
<1>3. call \in CallRec /\ DOMAIN call = DOMAIN NoCall
  BY CallFacts
<1>4. CASE Minis # {} /\ EndTag(LastMini) = b - 1
  <2> SUFFICES ASSUME NEW h \in Minis, h = LastMini PROVE Mem' /\ Added(a)
    BY <1>1, <1>4, LastMiniIs DEF Mem
  <2>1. (\A g \in Minis : g <= h) /\ EndTag(h) = b - 1 /\ EndTag(h) \in Nat /\ b = EndTag(h) + 1
    BY <1>2, <1>4, LastMiniIs, MiniTypes DEF Mem
  <2>3. /\ mh' = [mh EXCEPT ![h].len = @ + got, ![h].numalloc = @ + 1, ![h].largest = Huge]
        /\ size' = [size EXCEPT ![EndTag(h)] = got]
        /\ used' = used \cup {EndTag(h)}
        /\ call' = [call EXCEPT !.at = "nfree", !.pcur = EndTag(h)]
        /\ UNCHANGED <<next, prev>>
    BY <1>1, <1>4, <2>1
  <2>4. Extended(h, got) /\ a = EndTag(h)
    BY <1>1, <1>3, <2>3 DEF Extended, NoCall
  <2>5. Frl <= got /\ EndTag(h) + got <= Top
    BY <1>1, <1>2, <2>1, Sizes
  <2>6. /\ MemTypes' /\ MemOK' /\ Minis' = Minis
        /\ FreeIn(h)' = FreeIn(h) /\ EndTag(h)' = EndTag(h) + got
        /\ mh'[h] = LongerMini(h, got) /\ \A g \in Addr : g # h => mh'[g] = mh[g]
        /\ \A g \in Minis : g # h => EndTag(g)' = EndTag(g) /\ Untouched(g)
    BY <1>2, <2>1, <2>4, <2>5, ExtendOK DEF Mem
  <2>7. EndTag(h) \in Addr /\ EndTag(h) \notin used /\ \A x \in Addr : x # EndTag(h) => size'[x] = size[x]
    BY <1>2, <2>1, <2>4, <2>5, ExtendOK DEF Mem
  <2>8. mh'[h].rover = mh[h].rover /\ mh'[h].b4rover = mh[h].b4rover /\ mh'[h].largest = Huge
    <3>1. mh[h] \in MiniRec
      BY DEF Mem, MemTypes, Minis
    <3> QED
      BY <2>6, <3>1 DEF LongerMini, MiniRec
  <2>9. B4Small' /\ AtBreak'
    <3>1. B4Small'
      BY <2>6, <2>8 DEF Mem, B4Small
    <3>2. curbrk' = EndTag(h)' + 1 /\ b < curbrk' /\ EndTag(h)' \in Int
      <4>1. curbrk' = b + got /\ EndTag(h)' = EndTag(h) + got
        BY <1>1, <2>6
      <4>2. got \in Nat /\ got > 0
        BY <1>2, Sizes
      <4>3. b \in Int /\ EndTag(h) \in Int /\ b = EndTag(h) + 1
        BY <2>1
      <4> QED
        BY <4>1, <4>2, <4>3
    <3>3. ASSUME NEW g \in Minis PROVE EndTag(g)' < curbrk'
      <4>1. EndTag(g) < b /\ EndTag(g) \in Int /\ b \in Int
        BY <1>1, <1>2, MiniTypes DEF Mem, AtBreak
      <4> QED
        BY <1>1, <1>2, <2>6, <3>2, <4>1
    <3>4. ~moved => Minis = {1} /\ h = 1
      BY <1>1 DEF Mem, AtBreak
    <3> QED
      BY <1>1, <2>6, <3>1, <3>2, <3>3, <3>4 DEF AtBreak
  <2>10. Mem'
    <3>1. curbrk' \in 1..Top + 1
      BY <1>1, <1>2, Sizes
    <3> QED
      BY <2>6, <2>9, <3>1 DEF Mem
  <2>11. \A x \in used : size'[x] > need[x]
    <3>1. ASSUME NEW x \in used PROVE size'[x] > need[x]
      <4>1. x \in Addr /\ x # EndTag(h) /\ size[x] > need[x]
        BY <1>2, <2>7, <3>1 DEF Mem, MemTypes, UsersOK, Enough, Freeing
      <4> QED
        BY <2>7, <4>1
    <3> QED
      BY <3>1
  <2>12. \A g \in Minis : /\ FreeIn(g)' = FreeIn(g) /\ mh'[g].rover = mh[g].rover /\ mh'[g].b4rover = mh[g].b4rover
                          /\ mh'[g].largest \in {mh[g].largest, Huge}
    <3> SUFFICES ASSUME NEW g \in Minis, g # h
                 PROVE  /\ FreeIn(g)' = FreeIn(g) /\ mh'[g].rover = mh[g].rover /\ mh'[g].b4rover = mh[g].b4rover
                        /\ mh'[g].largest \in {mh[g].largest, Huge}
      BY <2>6, <2>8
    <3>1. mh'[g] = mh[g]
      BY <2>6 DEF Untouched
    <3> QED
      BY <2>6, <3>1, UntouchedKept DEF Mem
  <2>13. Added(a)
    BY <1>1, <2>3, <2>4, <2>6, <2>7, <2>11, <2>12 DEF Added
  <2> QED
    BY <2>10, <2>13
<1>5. CASE ~(Minis # {} /\ EndTag(LastMini) = b - 1)
  <2>2. LinkUp(b, got - 1, Huge)
    BY <1>1, <1>5
  <2>3. b \in Addr /\ got - 1 \in Nat /\ Frl <= got - 1 - Hdr /\ b + (got - 1) <= Top /\ b \in Int
    BY <1>1, <1>2, Sizes DEF Addr
  <2>4. a = b + Hdr
    BY <1>3, <2>2 DEF LinkUp, NoCall
  <2>5. UNCHANGED <<build, moved, rovers, users>>
    BY <1>1
  <2>a. \A g \in Minis : EndTag(g) < b /\ EndTag(g) \in Int
    BY <1>1, MiniTypes DEF Mem, AtBreak
  <2>6. /\ MemTypes' /\ MemOK' /\ B4Small' /\ Minis' = Minis \cup {b} /\ EndTag(b)' = b + (got - 1)
        /\ Added(a) /\ \A g \in Minis : EndTag(g)' = EndTag(g)
    BY <1>2, <2>2, <2>3, <2>4, <2>5, <2>a, LinkUpMem
  <2>7. AtBreak' /\ curbrk' \in 1..Top + 1
    <3>1. curbrk' = EndTag(b)' + 1 /\ curbrk' \in 1..Top + 1 /\ b < curbrk' /\ EndTag(b)' \in Int
      BY <1>1, <1>2, <2>3, <2>6, Sizes
    <3>2. \A g \in Minis : EndTag(g)' < curbrk'
      BY <2>3, <2>6, <2>a, <3>1
    <3>3. ~moved => Minis = {} /\ b = 1
      <4> SUFFICES ASSUME ~moved, Minis = {1}, b = EndTag(1) + 1 PROVE FALSE
        BY <1>1 DEF Mem, AtBreak
      <4>1. LastMini = 1
        BY LastMiniIs DEF Mem
      <4>2. EndTag(1) \in Int
        BY <2>a
      <4> QED
        BY <1>5, <4>1, <4>2
    <3>4. \A g \in Minis' : EndTag(g)' < curbrk'
      BY <2>6, <3>1, <3>2
    <3> QED
      BY <1>1, <2>6, <3>1, <3>3, <3>4 DEF AtBreak
  <2>8. Mem'
    BY <2>6, <2>7 DEF Mem
  <2> QED
    BY <1>1, <2>6, <2>8
<1> QED
  BY <1>1, <1>4, <1>5

LEMMA GrowStep ==
  ASSUME IInv, GrowSlices
  PROVE  IInv'
<1> SUFFICES ASSUME NEW a, a = call'.pcur PROVE IInv'
  OBVIOUS
<1>1. Mem' /\ Added(a)
  BY GrowMem, Parts
<1>2. call.at # "nfree" /\ call.job \in {"malloc", "expand"}
  BY WantedIs, Parts DEF GrowSlices
<1> QED
  BY <1>1, <1>2, AddedStep

\* The system gives memory at h, or it has none.
CreatedAt(h, n) ==
  /\ n = Adjusted(call.amt) /\ h \in Addr /\ Room(h, n) /\ LinkUp(h, n - 1, 0)
LEMMA CreateMiniIs ==
  ASSUME Mem, UserTypes, CallOK, CreateMini
  PROVE  /\ call.at = "shrink" /\ call.mini = 0 /\ call.job = "malloc" /\ UNCHANGED <<build, moved, rovers, curbrk, users>>
         /\ \/ \E h, n : CreatedAt(h, n)
            \/ call' = [call EXCEPT !.at = "mini", !.expanded = TRUE] /\ UNCHANGED blocks
<1> DEFINE n == Adjusted(call.amt)
           places == {h \in {1 + i * BlkSiz : i \in 0..(Top \div BlkSiz)} : Room(h, n)}
<1>1. /\ call.at = "shrink" /\ call.mini = 0 /\ call.job = "malloc" /\ UNCHANGED <<build, moved, rovers, curbrk, users>>
      /\ \/ \E h \in places : LinkUp(h, n - 1, 0)
         \/ call' = [call EXCEPT !.at = "mini", !.expanded = TRUE] /\ UNCHANGED blocks
  BY DEF CreateMini
<1>2. n \in Nat /\ Frl + Hdr + 1 <= n
  BY CallFacts, AdjustedIs
<1>3. CASE \E h \in places : LinkUp(h, n - 1, 0)
  <2>1. PICK h \in places : LinkUp(h, n - 1, 0)
    BY <1>3
  <2>2. PICK i \in 0..(Top \div BlkSiz) : h = 1 + i * BlkSiz
    BY <2>1
  <2>3. i * BlkSiz \in Nat
    BY <2>2, Sizes
  <2>4. Room(h, n)
    BY <2>1
  <2> HIDE DEF n
  <2>5. h \in Addr
    BY <1>2, <2>2, <2>3, <2>4, Sizes DEF Room, Addr
  <2>6. CreatedAt(h, n)
    BY <2>1, <2>4, <2>5 DEF CreatedAt, n
  <2> QED
    BY <1>1, <2>6
<1> QED
  BY <1>1, <1>3

LEMMA CreatedMem ==
  ASSUME Mem, UserTypes, CallOK, UsersOK, CreateMini, NEW h, NEW n, CreatedAt(h, n), NEW a, a = h + Hdr
  PROVE  Mem' /\ Added(a) /\ Minis' = Minis \cup {h}
<1>1. h \in Addr /\ Room(h, n) /\ LinkUp(h, n - 1, 0) /\ n \in Nat /\ Frl + Hdr + 1 <= n
  BY CallFacts, AdjustedIs DEF CreatedAt
<1>2. call.at = "shrink" /\ UNCHANGED <<build, moved, rovers, users>> /\ build = "pages" /\ curbrk' = curbrk
  BY CreateMiniIs DEF CallOK
<1>3. n - 1 \in Nat /\ Frl <= n - 1 - Hdr /\ h + (n - 1) <= Top
  BY <1>1, Sizes DEF Room, Addr
<1>4. \A g \in Minis : EndTag(g) < h \/ h + (n - 1) < g
  <2>1. \A g \in Minis : g \in Int
    BY DEF Minis, Addr
  <2> QED
    BY <1>1, <2>1 DEF Room, Addr
<1>5. MemTypes' /\ MemOK' /\ B4Small' /\ Minis' = Minis \cup {h} /\ Added(a)
  BY <1>1, <1>2, <1>3, <1>4, LinkUpMem
<1>6. AtBreak'
  BY <1>2 DEF AtBreak
<1> QED
  BY <1>2, <1>5, <1>6 DEF Mem

LEMMA CreateStep ==
  ASSUME IInv, CreateMini
  PROVE  IInv'
<1>1. Mem /\ RoversOK /\ UserTypes /\ CallOK /\ UsersOK
  BY Parts
<1>2. CASE \E h, n : CreatedAt(h, n)
  <2>1. PICK h, n : CreatedAt(h, n)
    BY <1>2
  <2> DEFINE a == h + Hdr
  <2>2. Mem' /\ Added(a)
    BY <1>1, <2>1, CreatedMem
  <2> QED
    BY <1>1, <2>2, CreateMiniIs, AddedStep
<1>3. CASE call' = [call EXCEPT !.at = "mini", !.expanded = TRUE] /\ UNCHANGED blocks
  <2>1. QuietHeap /\ UNCHANGED <<rovers, users>> /\ call.at = "shrink" /\ call.mini = 0 /\ call.job = "malloc"
    BY <1>1, <1>3, CreateMiniIs DEF QuietHeap, blocks, rovers, users
  <2>2. Mem' /\ Minis' = Minis /\ size' = size /\ used' = used
    BY <1>1, <2>1, QuietMem
  <2>3. RoversOK'
    BY <1>1, <2>1, <2>2, RoversSame
  <2>4. /\ call' \in CallRec /\ call'.at = "mini" /\ call'.mini = 0 /\ call'.job = "malloc" /\ call'.t = call.t
        /\ call'.amt = call.amt /\ call'.size = call.size
    <3>1. call \in CallRec
      BY <1>1, CallFacts
    <3> QED
      BY <1>3, <2>1, <3>1 DEF CallRec
  <2>5. CallOK'
    <3>1. th' = th
      BY <2>1 DEF users
    <3> QED
      BY <1>1, <2>1, <2>4, <3>1 DEF CallOK
  <2>6. UNCHANGED <<size, used, users>>
    BY <2>1, <2>2
  <2> QED
    BY <2>1, <2>2, <2>3, <2>4, <2>5, <2>6, QuietStep
<1> QED
  BY <1>1, <1>2, <1>3, CreateMiniIs

-----------------------------------------------------------------------------
(* Calls that begin *)

LEMMA FreeStep ==
  ASSUME IInv, NEW t \in Threads, NEW p \in Addr, Free(t, p)
  PROVE  IInv'
<1>1. Mem /\ RoversOK /\ UserTypes /\ CallOK /\ UsersOK /\ ThreadsOK /\ Owned /\ Enough /\ NeedSmall
  BY Parts DEF UsersOK
<1>2. /\ QuietHeap /\ UNCHANGED rovers /\ call = NoCall /\ th' = th
      /\ held' = held \ {p} /\ need' = [need EXCEPT ![p] = 0]
      /\ call' = [NoCall EXCEPT !.t = t, !.job = "free", !.at = "nfree", !.pcur = p]
      /\ \/ t = Other /\ p \in held
         \/ th[t].at = "free" /\ p = th[t].ptr
  BY DEF Free, QuietHeap, blocks
<1>3. /\ Mem' /\ Minis' = Minis /\ size' = size /\ used' = used
  BY <1>1, <1>2, QuietMem
<1>4. RoversOK'
  BY <1>1, <1>2, <1>3, RoversSame
<1>5. /\ call' \in CallRec /\ call'.at = "nfree" /\ call'.job = "free" /\ call'.t = t /\ call'.pcur = p
  <2>1. p \in 0..Top
    BY Sizes DEF Addr
  <2> QED
    BY <1>2, <2>1, NoCallIs DEF CallRec
<1>6. Freeing = {} /\ Freeing' = {p} /\ call.at = "none"
  BY <1>2, <1>5, NoCallIs DEF Freeing
<1>7. need \in [Addr -> Nat] /\ need' \in [Addr -> Nat] /\ held \subseteq Addr /\ th \in [Threads -> ThreadRec] /\ used \subseteq Addr
  BY <1>1, <1>2 DEF UserTypes, MemTypes
<1>8. UserTypes'
  BY <1>2, <1>3, <1>5, <1>7 DEF UserTypes, Mem
<1>9. t = Other \/ (t \in Resizers /\ th[t].at = "free" /\ p = th[t].ptr)
  BY <1>2, OtherIn
<1>10. CallOK'
  BY <1>2, <1>5, <1>9 DEF CallOK
<1>11. ThreadsOK'
  BY <1>1, <1>2 DEF ThreadsOK
<1>12. /\ p \in used /\ \A u \in Threads : p \in Mine(u) => u = t
       /\ t \in Resizers => p = th[t].ptr
  <2>1. CASE t = Other /\ p \in held
    BY <1>1, <2>1, HeapAssumption DEF Owned
  <2>2. CASE th[t].at = "free" /\ p = th[t].ptr
    <3>1. p # 0
      BY <2>2, Sizes DEF Addr
    <3>2. p \in Mine(t)
      BY <2>2, <3>1 DEF Mine
    <3> QED
      BY <1>1, <2>2, <3>2 DEF Owned
  <2> QED
    BY <1>2, <2>1, <2>2
<1>13. Owned'
  <2>1. \A u : Mine(u)' = Mine(u)
    BY <1>2 DEF Mine
  <2> QED
    BY <1>1, <1>2, <1>3, <1>5, <1>6, <1>12, <2>1 DEF Owned
<1>14. Enough' /\ NeedSmall'
  <2>1. Enough'
    BY <1>1, <1>2, <1>3, <1>6, <1>7 DEF Enough
  <2>2. NeedSmall'
    BY <1>1, <1>2, <1>7, Sizes DEF NeedSmall
  <2> QED
    BY <2>1, <2>2
<1>15. UsersOK'
  BY <1>11, <1>13, <1>14 DEF UsersOK
<1> QED
  BY <1>3, <1>4, <1>8, <1>10, <1>15, PartsNext

LEMMA ExpandStep ==
  ASSUME IInv, NEW t \in Resizers, NEW p \in used, NEW amt \in Nat, amt > 0, Expand(t, p, amt), call = NoCall,
         held' \subseteq Addr, th' \in [Threads -> ThreadRec], ThreadsOK', th'[t].ptr = p,
         th'[t].at \in {"expand", "back"}, Freeing' = {} => Owned'
  PROVE  IInv'
<1>1. Mem /\ RoversOK /\ UserTypes /\ CallOK /\ UsersOK /\ ThreadsOK /\ Owned /\ Enough /\ NeedSmall
  BY Parts DEF UsersOK
<1>2. /\ QuietHeap /\ UNCHANGED rovers
      /\ need' = [need EXCEPT ![p] = IF amt < need[p] THEN amt ELSE need[p]]
      /\ call' = [NoCall EXCEPT !.t = t, !.job = "expand", !.at = "expand",
                                !.ptr = p, !.amt = amt, !.size = BlockSize(amt)]
  BY DEF Expand, QuietHeap, blocks
<1>3. /\ Mem' /\ Minis' = Minis /\ size' = size /\ used' = used
  BY <1>1, <1>2, QuietMem
<1>4. RoversOK'
  BY <1>1, <1>2, <1>3, RoversSame
<1>5. p \in Addr /\ need \in [Addr -> Nat] /\ used \subseteq Addr
  BY <1>1 DEF UserTypes, MemTypes
<1>6. /\ call' \in CallRec /\ call'.at = "expand" /\ call'.job = "expand" /\ call'.t = t /\ call'.ptr = p
      /\ call'.amt = amt /\ call'.size = BlockSize(amt)
  <2>1. p \in 0..Top /\ BlockSize(amt) \in Nat /\ t \in Threads
    BY <1>5, Sizes, BlockSizeIs DEF Addr, Threads
  <2> QED
    BY <1>2, <2>1, NoCallIs DEF CallRec
<1>7. Freeing = {} /\ Freeing' = {}
  BY <1>6, NoCallIs DEF Freeing
<1>8. /\ need' \in [Addr -> Nat] /\ \A a \in Addr : need'[a] <= need[a] /\ (need[a] > 0 => need'[a] > 0)
      /\ need'[p] <= amt
  BY <1>2, <1>5
<1>9. UserTypes'
  BY <1>3, <1>6, <1>8 DEF UserTypes, Mem
<1>10. CallOK'
  BY <1>6, <1>8 DEF CallOK
<1>11. Enough'
  <2>1. ASSUME NEW a \in used PROVE need'[a] > 0 /\ size[a] > need'[a]
    <3>1. a \in Addr /\ need[a] > 0 /\ size[a] > need[a] /\ need[a] \in Nat /\ size[a] \in Nat /\ need'[a] \in Nat
      BY <1>1, <1>5, <1>7, <1>8, <2>1 DEF Enough, Mem, MemTypes
    <3> QED
      BY <1>8, <3>1
  <2> QED
    BY <1>3, <1>7, <2>1 DEF Enough
<1>12. NeedSmall'
  <2>1. ASSUME NEW a \in Addr PROVE need'[a] <= Top
    <3>1. need[a] \in Nat /\ need'[a] \in Nat /\ need[a] <= Top /\ need'[a] <= need[a]
      BY <1>1, <1>5, <1>8 DEF NeedSmall
    <3> QED
      BY <3>1, Sizes
  <2> QED
    BY <2>1 DEF NeedSmall
<1>13. UsersOK'
  BY <1>7, <1>11, <1>12 DEF UsersOK
<1> QED
  BY <1>3, <1>4, <1>9, <1>10, <1>13, PartsNext

LEMMA ResizeStep ==
  ASSUME IInv, NEW t \in Resizers, NEW p \in held, NEW amt \in Amounts, Resize(t, p, amt)
  PROVE  IInv'
<1>1. Mem /\ UserTypes /\ ThreadsOK /\ Owned
  BY Parts DEF UsersOK
<1>2. /\ call = NoCall /\ th[t].at = "idle" /\ held' = held \ {p} /\ Expand(t, p, amt)
      /\ th' = [th EXCEPT ![t] = [at |-> "expand", ptr |-> p, old |-> size[p] - 1, amt |-> amt, new |-> 0]]
  BY DEF Resize
<1>3. p \in used /\ p \in Addr /\ t \in Threads /\ t # Other /\ amt \in Nat /\ amt > 0
  BY <1>1, HeapAssumption DEF Owned, UserTypes, Threads
<1>4. size[p] \in Nat /\ size[p] > 1
  <2>1. size[p] \in Nat /\ size[p] > 0
    BY <1>1, <1>3 DEF Mem, MemTypes, MemOK, Covered
  <2>2. MiniOf(p) \in Minis /\ p \in Blocks(MiniOf(p))
    BY <1>1, <1>3, <2>1, BlockIn DEF Mem
  <2>3. Frl <= size[p]
    BY <1>1, <2>2, BlockFits DEF Mem
  <2> QED
    BY <2>1, <2>3, Sizes
<1>5. used' = used /\ held \subseteq Addr
  BY <1>1, <1>2 DEF Expand, blocks, UserTypes
<1> DEFINE x == [at |-> "expand", ptr |-> p, old |-> size[p] - 1, amt |-> amt, new |-> 0]
<1>6. x \in ThreadRec /\ x.at = "expand" /\ x.ptr = p /\ x.old > 0 /\ x.amt > 0 /\ x.new = 0 /\ p # 0
  BY <1>3, <1>4, Sizes DEF ThreadRec, Addr
<1>7. th' = [th EXCEPT ![t] = x] /\ th \in [Threads -> ThreadRec]
  BY <1>1, <1>2 DEF UserTypes
<1> HIDE DEF x
<1>8. th'[t] = x /\ (\A u \in Threads : u # t => th'[u] = th[u]) /\ th' \in [Threads -> ThreadRec]
  BY <1>3, <1>6, <1>7
<1>9. ThreadsOK'
  <2>1. ThreadOK(th'[t])
    BY <1>6, <1>8 DEF ThreadOK
  <2> QED
    BY <1>1, <1>3, <1>8, <2>1, ThreadsAfter
<1>10. ASSUME Freeing' = {} PROVE Owned'
  <2>1. Mine(t) = {} /\ Mine(t)' = {p} /\ \A u \in Threads : u # t => Mine(u)' = Mine(u)
    <3>1. th[t].ptr = 0 /\ th[t].new = 0
      BY <1>1, <1>2, <1>3 DEF ThreadsOK, ThreadOK
    <3> QED
      BY <1>6, <1>8, <3>1 DEF Mine
  <2>2. Freeing = {}
    BY <1>2, NoCallIs DEF Freeing
  <2>3. \A u \in Threads : held' \cap Mine(u)' = {}
    BY <1>1, <1>2, <2>1 DEF Owned
  <2>4. \A u, v \in Threads : u # v => Mine(u)' \cap Mine(v)' = {}
    BY <1>1, <1>2, <2>1 DEF Owned
  <2>5. /\ \A a \in held' : a \in used'
        /\ \A u \in Threads : Mine(u)' \subseteq used'
    BY <1>1, <1>2, <1>3, <1>5, <2>1 DEF Owned
  <2>6. \A a \in used' : a \in held' \/ \E u \in Threads : a \in Mine(u)'
    <3>1. ASSUME NEW a \in used, a \notin held' PROVE \E u \in Threads : a \in Mine(u)'
      <4>1. CASE a = p
        BY <1>3, <2>1, <4>1
      <4>2. CASE a # p
        BY <1>1, <1>2, <2>1, <2>2, <3>1, <4>2 DEF Owned
      <4> QED
        BY <4>1, <4>2
    <3> QED
      BY <1>5, <3>1
  <2> QED
    BY <1>10, <2>3, <2>4, <2>5, <2>6 DEF Owned
<1>11. held' \subseteq Addr /\ th'[t].ptr = p /\ th'[t].at \in {"expand", "back"}
  BY <1>2, <1>5, <1>6, <1>8
<1> QED
  BY <1>2, <1>3, <1>8, <1>9, <1>10, <1>11, ExpandStep

LEMMA ResetSizeStep ==
  ASSUME IInv, NEW t \in Resizers, ResetSize(t)
  PROVE  IInv'
<1> SUFFICES ASSUME NEW p, p = th[t].ptr, NEW old, old = th[t].old PROVE IInv'
  OBVIOUS
<1>1. UserTypes /\ ThreadsOK /\ Owned
  BY Parts DEF UsersOK
<1>2. call = NoCall /\ th[t].at = "back" /\ held' = held /\ th' = th /\ Expand(t, p, old) /\ t \in Threads
  BY DEF ResetSize, Threads
<1>3. p # 0 /\ old > 0 /\ old \in Nat
  BY <1>1, <1>2, ThreadFacts DEF ThreadsOK, ThreadOK
<1>4. p \in used
  BY <1>1, <1>2, <1>3 DEF Mine, Owned
<1>5. used' = used /\ held' \subseteq Addr /\ th' \in [Threads -> ThreadRec]
  BY <1>1, <1>2 DEF Expand, blocks, UserTypes
<1>6. ThreadsOK'
  BY <1>1, <1>2 DEF ThreadsOK
<1>7. ASSUME Freeing' = {} PROVE Owned'
  <2>1. Freeing = {}
    BY <1>2, NoCallIs DEF Freeing
  <2>2. \A u \in Threads : Mine(u)' = Mine(u)
    BY <1>2 DEF Mine
  <2> QED
    BY <1>1, <1>2, <1>5, <1>7, <2>1, <2>2, OwnedSame
<1> QED
  BY <1>2, <1>3, <1>4, <1>5, <1>6, <1>7, ExpandStep

-----------------------------------------------------------------------------
(* __HeapManager_expand takes in what is behind the block. *)

TakenIn(h, p, n) ==
  /\ NextFree(h, p, n) /\ h \in Minis /\ UNCHANGED <<build, moved, used, rovers, curbrk, users, call>>
  /\ TakenMini(h, p, n)
  /\ AllGone(h, p, n) \/ \E n2 : FrontGone(h, p, n, n2)
FrontWritten(h, p, n, g, n2, s) ==
  /\ UNCHANGED <<build, moved, used>>
  /\ size' = [a \in Addr |->
        CASE a = p -> s
          [] a = n2 -> size[n] - g
          [] a = n -> 0
          [] OTHER -> size[a]]
  /\ next' = [next EXCEPT ![n] = 0, ![n2] = next[n], ![prev[n]] = n2]
  /\ prev' = [prev EXCEPT ![n] = 0, ![n2] = prev[n], ![next[n]] = n2]
  /\ mh' = [mh EXCEPT ![h].rover = TakenRover(h, n)]
LEMMA ExpandTakeMem ==
  ASSUME Mem, UserTypes, CallOK, UsersOK, ExpandTake,
         NEW p, p = call.ptr, NEW n, n = p + size[p], NEW h, h = MiniOf(p)
  PROVE  TakenIn(h, p, n)
<1> SUFFICES ASSUME NEW g, g = call.size - size[p], NEW n2, n2 = n + g, NEW s, s = call.size PROVE TakenIn(h, p, n)
  OBVIOUS
<1>1. /\ call.at = "expand" /\ s > size[p] /\ Within(h, n) /\ n \notin used
      /\ UNCHANGED <<build, moved, used, rovers, curbrk, users, call>>
  BY DEF ExpandTake
<1>2. /\ h \in Minis /\ p \in Blocks(h) /\ p \in used /\ p \in Addr /\ size[p] \in Nat /\ s \in Nat
  BY <1>1, Expanding DEF ExpandingAt
<1>3. NextFree(h, p, n)
  <2>1. n \in Blocks(h) \cup {EndTag(h)}
    BY <1>2, BlockFits DEF Mem
  <2>2. n # EndTag(h)
    <3>1. EndTag(h) \in Nat
      BY <1>2, MiniTypes DEF Mem
    <3> QED
      BY <1>1, <3>1 DEF Within
  <2> QED
    BY <1>1, <1>2, <2>1, <2>2 DEF NextFree, FreeIn
<1>4. size[n] \in Int /\ g \in Nat /\ 0 < g /\ s = size[p] + g /\ p # n /\ p # n2 /\ n # n2
  <2>1. size[n] \in Int /\ n \in Int /\ p \in Int /\ p < n
    BY <1>2, <1>3, NextFreeFacts DEF Mem
  <2> QED
    BY <1>1, <1>2, <2>1
<1>5. ASSUME AllTaken(h, p, n) PROVE TakenIn(h, p, n)
  <2>1. AllGone(h, p, n) /\ TakenMini(h, p, n)
    BY <1>2, <1>3, <1>5, TakeAll DEF Mem
  <2> QED
    BY <1>1, <1>2, <1>3, <2>1 DEF TakenIn
<1>6. ASSUME size[n] >= g + Frl, FrontTaken(h, p, n, g, n2) PROVE TakenIn(h, p, n)
  <2>1. g + Frl <= size[n]
    BY <1>4, <1>6, Sizes
  <2>2. FrontGone(h, p, n, n2) /\ TakenMini(h, p, n)
    BY <1>2, <1>3, <1>4, <1>6, <2>1, TakeFront DEF Mem
  <2> QED
    BY <1>1, <1>2, <1>3, <2>2 DEF TakenIn
<1>7. AllTaken(h, p, n) \/ (size[n] >= g + Frl /\ FrontTaken(h, p, n, g, n2))
  <2> DEFINE cp == call.ptr  cn == cp + size[cp]  cg == call.size - size[cp]
  <2>1. AllTaken(MiniOf(cp), cp, cn) \/ (size[cn] >= cg + Frl /\ FrontWritten(MiniOf(cp), cp, cn, cg, cn + cg, call.size))
    BY DEF ExpandTake, AllTaken, FrontWritten, TakenRover
  <2>2. cp = p /\ cn = n /\ cg = g /\ cn + cg = n2 /\ MiniOf(cp) = h /\ call.size = s
    OBVIOUS
  <2> HIDE DEF cp, cn, cg
  <2>3. AllTaken(h, p, n) \/ (size[n] >= g + Frl /\ FrontWritten(h, p, n, g, n2, s))
    BY <2>1, <2>2
  <2>4. ASSUME FrontWritten(h, p, n, g, n2, s) PROVE FrontTaken(h, p, n, g, n2)
    <3>1. size' = [a \in Addr |->
                     CASE a = p -> s
                       [] a = n2 -> size[n] - g
                       [] a = n -> 0
                       [] OTHER -> size[a]]
      BY <2>4 DEF FrontWritten
    <3>2. \A a \in Addr : size'[a] = IF a = p THEN s ELSE IF a = n2 THEN size[n] - g
                                    ELSE IF a = n THEN 0 ELSE size[a]
      BY <1>4, <3>1
    <3>3. size' = [a \in Addr |-> size'[a]]
      BY <3>1
    <3>4. \A a \in Addr : size'[a] = IF a = p THEN size[p] + g ELSE IF a = n2 THEN size[n] - g
                                    ELSE IF a = n THEN 0 ELSE size[a]
      BY <1>4, <3>2
    <3> QED
      BY <2>4, <3>3, <3>4 DEF FrontWritten, FrontTaken
  <2> QED
    BY <2>3, <2>4
<1> QED
  BY <1>5, <1>6, <1>7

LEMMA ExpandTakeStep ==
  ASSUME IInv, ExpandTake
  PROVE  IInv'
<1> SUFFICES ASSUME NEW p, p = call.ptr, NEW n, n = p + size[p], NEW h, h = MiniOf(p) PROVE IInv'
  OBVIOUS
<1>1. Mem /\ RoversOK /\ UserTypes /\ CallOK /\ UsersOK
  BY Parts
<1>2. TakenIn(h, p, n) /\ call.at = "expand"
  BY <1>1, ExpandTakeMem DEF ExpandTake
<1>3. /\ NextFree(h, p, n) /\ h \in Minis /\ UNCHANGED <<build, moved, used, rovers, curbrk, users, call>>
      /\ mh'[h].b4rover = mh[h].b4rover /\ \A g \in Addr : g # h => mh'[g] = mh[g]
      /\ held' = held /\ need' = need /\ th' = th /\ call' = call /\ used' = used
  BY <1>2 DEF TakenIn, TakenMini, users
<1>4. Mem' /\ Minis' = Minis
  <2>1. PICK B2, F2 : Changed(h, B2, F2)
    BY <1>2 DEF TakenIn, AllGone, FrontGone
  <2>2. mh'[h].b4rover <= Top
    BY <1>1, <1>3 DEF Mem, B4Small, Minis
  <2> QED
    BY <1>1, <1>3, <2>1, <2>2, ChangedMem
<1>5. RoversOK'
  BY <1>1, <1>3, <1>4, RoversSame
<1>6. \A a \in used : size'[a] \in Int /\ size'[a] >= size[a] /\ size[a] \in Int
  <2>1. ASSUME NEW a \in used PROVE size'[a] \in Int /\ size'[a] >= size[a] /\ size[a] \in Int
    <3>1. a \in Addr /\ size[a] \in Nat /\ size'[a] \in Nat
      BY <1>1, <1>4, <2>1 DEF Mem, MemTypes
    <3>2. a # n
      BY <1>3, <2>1 DEF NextFree, FreeIn
    <3>3. size'[p] > size[p]
      BY <1>2 DEF TakenIn, TakenMini
    <3>4. a # p => size'[a] = size[a]
      BY <1>2, <2>1, <3>1, <3>2 DEF TakenIn, AllGone, FrontGone
    <3> QED
      BY <3>1, <3>3, <3>4
  <2> QED
    BY <2>1
<1>7. UsersOK'
  BY <1>1, <1>2, <1>3, <1>6, QuietUsers
<1>8. UserTypes'
  BY <1>1, <1>3, <1>4 DEF UserTypes, Mem
<1>9. CallOK'
  BY <1>1, <1>2, <1>3 DEF CallOK
<1> QED
  BY <1>4, <1>5, <1>7, <1>8, <1>9, PartsNext

-----------------------------------------------------------------------------
(* _nfree *)

\* No other block in use is touched.
LEMMA FreedUsed ==
  ASSUME MemTypes, MemOK, NEW h \in Minis, NEW f, NEW pp, NEW pn, Freeable(h, f, pp, pn), FreedHeap(h, f, pp, pn)
  PROVE  \A a \in used : a # f => size'[a] = size[a]
<1> SUFFICES ASSUME NEW a \in used, a # f PROVE size'[a] = size[a]
  OBVIOUS
<1>1. a \in Addr
  BY DEF MemTypes
<1>2. a \notin Gone(h, f)
  BY FreedFacts
<1>3. a # FreedAt(h, f)
  <2>1. Joins(h, f) => pp \notin used /\ pp = PrevOf(h, f)
    BY FreedFacts DEF FreeIn, Freeable
  <2> QED
    BY <2>1 DEF FreedAt
<1> QED
  BY <1>1, <1>2, <1>3 DEF FreedHeap

FreedIs(h, f) ==
  /\ h \in Minis /\ f \in Blocks(h) /\ f \in used /\ used' = used \ {f} /\ UNCHANGED <<build, moved, miniRover, curbrk>>
  /\ freeRover' = h
  /\ Changed(h, FreedBlocks(h, f), FreedList(h, f))
  /\ mh'[h] = FreedMini(h, f) /\ \A g \in Addr : g # h => mh'[g] = mh[g]
  /\ Freeable(h, f, PrevOf(h, f), NextOf(h, f)) /\ FreedHeap(h, f, PrevOf(h, f), NextOf(h, f))
LEMMA NFreeMem ==
  ASSUME Mem, UserTypes, UsersOK, Looking, NFree, NEW f, f = call.pcur, NEW h, h = MiniOf(f)
  PROVE  FreedIs(h, f)
<1>1. call.at = "nfree" /\ MemFree(h, f) /\ freeRover' = h /\ UNCHANGED <<build, moved, miniRover, curbrk>>
  BY DEF NFree
<1>2. f \in used /\ f \in Addr
  BY <1>1 DEF UsersOK, Owned, Freeing, Mem, MemTypes
<1>3. h \in Minis /\ f \in Blocks(h)
  <2>1. size[f] > 0
    BY <1>2 DEF Mem, MemOK, Covered
  <2> QED
    BY <1>2, <2>1, BlockIn DEF Mem
<1>f. Found(h, f, look.pnext)
  BY <1>1 DEF NFree, Looking, LookedIn
<1>4. /\ Changed(h, FreedBlocks(h, f), FreedList(h, f))
      /\ mh'[h] = FreedMini(h, f) /\ \A g \in Addr : g # h => mh'[g] = mh[g]
      /\ Freeable(h, f, PrevOf(h, f), NextOf(h, f)) /\ FreedHeap(h, f, PrevOf(h, f), NextOf(h, f))
  BY <1>1, <1>2, <1>3, <1>f, Freed DEF Mem
<1> QED
  BY <1>1, <1>2, <1>3, <1>4 DEF FreedIs, FreedHeap

\* What the descriptor says of sizes.
LEMMA FreedBounds ==
  ASSUME Mem, NEW h, NEW f, FreedIs(h, f)
  PROVE  /\ mh'[h].rover = FreedRover(h, f) /\ mh'[h].len = mh[h].len
         /\ mh'[h].largest = Bigger(mh[h].largest, FreedLen(h, f)) /\ mh'[h].largest \in 0..Huge
         /\ mh'[h].b4rover = (IF FreedAt(h, f) < FreedRover(h, f) THEN Bigger(mh[h].b4rover, FreedLen(h, f)) ELSE mh[h].b4rover)
         /\ FreedLen(h, f) \in 0..Top /\ mh[h].largest \in 0..Huge /\ mh[h].b4rover \in 0..Top
         /\ mh'[h].b4rover <= Top
<1>1. mh[h] \in MiniRec /\ mh[h].largest \in 0..Huge /\ mh[h].b4rover \in 0..Top /\ h \in Addr
  <2>1. mh[h] \in MiniRec /\ h \in Addr
    BY DEF FreedIs, Mem, MemTypes, Minis
  <2>2. mh[h].b4rover <= Top
    BY <2>1 DEF Mem, B4Small
  <2> QED
    BY <2>1, <2>2, Sizes DEF MiniRec
<1>2. FreedLen(h, f) \in 0..Top
  BY FreedSize, Sizes DEF FreedIs, Mem
<1>3. /\ mh'[h].rover = FreedRover(h, f) /\ mh'[h].len = mh[h].len
      /\ mh'[h].largest = Bigger(mh[h].largest, FreedLen(h, f))
      /\ mh'[h].b4rover = (IF FreedAt(h, f) < FreedRover(h, f) THEN Bigger(mh[h].b4rover, FreedLen(h, f)) ELSE mh[h].b4rover)
  <2>1. mh'[h] = FreedMini(h, f)
    BY DEF FreedIs
  <2>2. DOMAIN mh[h] = {"len", "rover", "b4rover", "largest", "numalloc", "numfree"}
    BY <1>1 DEF MiniRec
  <2> QED
    BY <2>1, <2>2 DEF FreedMini
<1>4. mh'[h].largest \in 0..Huge /\ mh'[h].b4rover <= Top
  BY <1>1, <1>2, <1>3, Sizes DEF Bigger, Huge
<1> QED
  BY <1>1, <1>2, <1>3, <1>4

LEMMA NFreeStep ==
  ASSUME IInv, Looking, NFree
  PROVE  IInv'
<1> SUFFICES ASSUME NEW f, f = call.pcur, NEW h, h = MiniOf(f) PROVE IInv'
  OBVIOUS
<1>1. Mem /\ RoversOK /\ UserTypes /\ CallOK /\ UsersOK
  BY Parts
<1>2. FreedIs(h, f) /\ call.at = "nfree"
  BY <1>1, NFreeMem DEF NFree
<1>3. Mem' /\ Minis' = Minis
  BY <1>1, <1>2, FreedBounds, ChangedMem DEF FreedIs
<1>4. freeRover' \in 0..Top /\ RoversLive'
  BY <1>1, <1>2, <1>3, Sizes DEF FreedIs, RoversOK, RoversLive, Minis, Addr
<1>5. \A a \in used : a # f => size'[a] = size[a]
  BY <1>1, <1>2, FreedUsed DEF FreedIs, Mem
<1>6. call \in CallRec /\ call.job \in {"malloc", "free", "expand"} /\ used' = used \ {f}
  BY <1>1, <1>2, CallFacts DEF CallOK, FreedIs
<1> DEFINE b4 == B4After(h, mh'[h].largest)
           more == [call EXCEPT !.pcur = 0, !.expanded = TRUE]
<1>7. /\ call.job = "malloc" => SearchFrom(more, b4) /\ UNCHANGED users
      /\ call.job = "expand" => call' = [more EXCEPT !.at = "expand"] /\ largestB4' = b4 /\ UNCHANGED users
      /\ call.job = "free" => largestB4' = b4 /\ Return(1)
  BY DEF NFree
<1>8. b4 \in 0..Huge
  BY <1>1, <1>2, FreedBounds, Sizes DEF B4After, Bigger, RoversOK, Huge
<1>9. more \in CallRec /\ more.job = call.job /\ more.t = call.t /\ more.amt = call.amt /\ more.size = call.size /\ more.ptr = call.ptr
  <2>1. 0 \in 0..Top /\ TRUE \in BOOLEAN
    BY Sizes
  <2> QED
    BY <1>6, <2>1 DEF CallRec
<1> HIDE DEF b4, more
<1>10. CASE call.job = "free"
  <2>1. RoversOK'
    BY <1>4, <1>7, <1>8, <1>10 DEF RoversOK
  <2>2. \A a \in used : a \in used' => size[a] <= size'[a]
    <3>1. \A a \in used : size[a] \in Nat
      BY <1>1 DEF Mem, MemTypes
    <3> QED
      BY <1>5, <1>6, <3>1
  <2>3. Outcome(1)
    BY <1>6, <1>10, <2>2 DEF Outcome
  <2> QED
    BY <1>3, <1>7, <1>10, <2>1, <2>3, EndStep
<1>11. CASE call.job \in {"malloc", "expand"}
  <2>1. held' = held /\ need' = need /\ th' = th
    BY <1>7, <1>11 DEF users
  <2>2. /\ call' \in CallRec /\ call'.at \in {"mini", "expand"} /\ call'.job = call.job /\ call'.t = call.t
        /\ call'.amt = call.amt /\ call'.size = call.size /\ call'.ptr = call.ptr /\ largestB4' \in 0..Huge
        /\ call'.at = "mini" => call'.mini \in {0} \cup Minis /\ call.job = "malloc"
        /\ call'.at = "expand" => call.job = "expand"
    <3>1. CASE call.job = "malloc"
      BY <1>1, <1>7, <1>8, <1>9, <3>1, SearchIs
    <3>2. CASE call.job = "expand"
      <4>1. call' = [more EXCEPT !.at = "expand"] /\ largestB4' = b4
        BY <1>7, <3>2
      <4> QED
        BY <1>8, <1>9, <3>2, <4>1 DEF CallRec
    <3> QED
      BY <1>11, <3>1, <3>2
  <2>3. RoversOK'
    BY <1>4, <2>2 DEF RoversOK
  <2>4. UserTypes'
    BY <1>1, <1>3, <2>1, <2>2 DEF UserTypes, Mem
  <2>5. CallOK'
    BY <1>1, <1>3, <1>11, <2>1, <2>2 DEF CallOK
  <2>6. Freeing = {f} /\ Freeing' = {}
    BY <1>2, <2>2 DEF Freeing
  <2>7. Owned'
    <3>1. \A t : Mine(t)' = Mine(t)
      BY <2>1 DEF Mine
    <3>2. f \notin held /\ \A t \in Threads : f \notin Mine(t)
      BY <1>1, <1>11, <2>6 DEF UsersOK, Owned
    <3> QED
      BY <1>1, <1>6, <2>1, <2>6, <3>1, <3>2 DEF UsersOK, Owned
  <2>8. Enough'
    BY <1>1, <1>5, <1>6, <2>1, <2>6 DEF UsersOK, Enough
  <2>9. ThreadsOK' /\ NeedSmall'
    BY <1>1, <2>1 DEF UsersOK, ThreadsOK, NeedSmall
  <2>10. UsersOK'
    BY <2>7, <2>8, <2>9 DEF UsersOK
  <2> QED
    BY <1>3, <2>3, <2>4, <2>5, <2>10, PartsNext
<1> QED
  BY <1>6, <1>10, <1>11

-----------------------------------------------------------------------------
(* _nheapshrink *)

\* All of h is the one free block c, and h is given back.
AllFree(h, c) ==
  /\ h \in Minis /\ c \in FreeIn(h) /\ c \notin used /\ Dropped(h, c)
  /\ MemTypes' /\ MemOK' /\ Minis' = Minis \ {h}
  /\ \A g \in Minis : g # h => Kept(g)
  /\ \A g \in Addr : g # h => mh'[g] = mh[g]
  /\ \A x \in Addr : x # c => size'[x] = size[x]
LEMMA DropIs ==
  ASSUME Mem, NEW h \in Minis, NEW c, c = prev[h], mh[h].len - Hdr <= size[c], Dropped(h, c)
  PROVE  AllFree(h, c)
<1>1. h \in Addr /\ mh[h].len \in Nat /\ Walk(h, EndTag(h), Blocks(h), size) /\ EndTag(h) \in Nat /\ EndTag(h) = h + mh[h].len
  BY MiniTypes, MiniIs DEF Mem, EndTag
<1>2. c \in {h} \cup FreeIn(h)
  <2>1. Linked(h, FreeIn(h), next, prev, h)
    BY LinkTypes DEF Mem
  <2> QED
    BY <2>1 DEF Linked
<1>3. c # h
  <2>1. size[h] = 0
    BY NoBlockThere DEF Mem
  <2>2. h + Hdr < EndTag(h)
    BY <1>1 DEF Walk
  <2> QED
    BY <1>1, <2>1, <2>2, Sizes DEF Addr
<1>4. c \in FreeIn(h)
  BY <1>2, <1>3
<1>5. /\ MemTypes' /\ MemOK' /\ Minis' = Minis \ {h}
      /\ \A g \in Minis : g # h => Kept(g)
      /\ \A g \in Addr : g # h => mh'[g] = mh[g]
      /\ c \notin used /\ \A x \in Addr : x # c => size'[x] = size[x]
  BY <1>4, DropOK DEF Mem
<1> QED
  BY <1>4, <1>5 DEF AllFree

LEMMA DroppedMem ==
  ASSUME Mem, NEW h, NEW c, AllFree(h, c)
  PROVE  B4Small' /\ used' = used /\ build' = build /\ moved' = moved /\ \A a \in used : size'[a] \in Int /\ size'[a] >= size[a] /\ size[a] \in Int
<1>1. mh'[h] = NoMini \/ h \notin Addr
  BY DEF AllFree, Dropped, Mem, MemTypes
<1>2. B4Small'
  BY <1>1, Sizes DEF AllFree, Mem, B4Small, NoMini
<1>3. used' = used /\ build' = build /\ moved' = moved
  BY DEF AllFree, Dropped
<1>4. \A a \in used : size'[a] \in Int /\ size'[a] >= size[a] /\ size[a] \in Int
  <2>1. ASSUME NEW a \in used PROVE size'[a] \in Int /\ size'[a] >= size[a] /\ size[a] \in Int
    <3>1. a \in Addr /\ size[a] \in Nat /\ size'[a] \in Nat
      BY <2>1 DEF Mem, MemTypes, AllFree
    <3>2. size'[a] = size[a]
      BY <2>1, <3>1 DEF AllFree
    <3> QED
      BY <3>1, <3>2
  <2> QED
    BY <2>1
<1> QED
  BY <1>2, <1>3, <1>4

\* pages: h goes, or stays.
PagesRover(h) ==
  LET rv == IF miniRover # h THEN miniRover
            ELSE IF NextMini(h) # 0 THEN NextMini(h) ELSE FirstMini
  IN  IF rv = h THEN 0 ELSE rv
LEMMA ShrinkPagesIs ==
  ASSUME Mem, UserTypes, CallOK, ShrinkPages, NEW h, h = call.mini
  PROVE  /\ call.at = "shrink" /\ h # 0 /\ h \in Minis /\ build = "pages" /\ UNCHANGED <<build, moved, used, curbrk, users>>
         /\ call' = [call EXCEPT !.mini = NextMini(h)]
         /\ \/ /\ \E c : AllFree(h, c)
               /\ miniRover' = PagesRover(h)
               /\ largestB4' = (IF miniRover = h /\ NextMini(h) = 0 THEN 0 ELSE largestB4)
               /\ freeRover' = (IF freeRover = h THEN 0 ELSE freeRover)
            \/ QuietHeap /\ UNCHANGED rovers
<1> SUFFICES ASSUME NEW c, c = prev[h]
             PROVE  /\ call.at = "shrink" /\ h # 0 /\ h \in Minis /\ build = "pages" /\ UNCHANGED <<build, moved, used, curbrk, users>>
                    /\ call' = [call EXCEPT !.mini = NextMini(h)]
                    /\ \/ /\ AllFree(h, c)
                          /\ miniRover' = PagesRover(h)
                          /\ largestB4' = (IF miniRover = h /\ NextMini(h) = 0 THEN 0 ELSE largestB4)
                          /\ freeRover' = (IF freeRover = h THEN 0 ELSE freeRover)
                       \/ QuietHeap /\ UNCHANGED rovers
  OBVIOUS
<1>1. /\ call.at = "shrink" /\ h # 0 /\ call' = [call EXCEPT !.mini = NextMini(h)]
      /\ UNCHANGED <<build, moved, used, curbrk, users>>
      /\ IF mh[h].len - Hdr = size[c]
         THEN /\ Drop(h)
              /\ Forget(c, h)
              /\ miniRover' = PagesRover(h)
              /\ largestB4' = (IF miniRover = h /\ NextMini(h) = 0 THEN 0 ELSE largestB4)
              /\ freeRover' = (IF freeRover = h THEN 0 ELSE freeRover)
         ELSE UNCHANGED <<mh, size, next, prev, rovers>>
  BY DEF ShrinkPages, PagesRover, FreeRoverWithout
<1>2. h \in Minis /\ build = "pages"
  BY <1>1 DEF CallOK
<1>3. CASE mh[h].len - Hdr = size[c]
  <2>1. Dropped(h, c)
    BY <1>1, <1>3 DEF Drop, Forget, Dropped
  <2>2. mh[h].len - Hdr <= size[c]
    <3>1. mh[h].len \in Nat
      BY <1>2, MiniTypes DEF Mem
    <3> QED
      BY <1>3, <3>1, Sizes
  <2>3. AllFree(h, c)
    BY <1>2, <2>1, <2>2, DropIs
  <2> QED
    BY <1>1, <1>2, <1>3, <2>3
<1>4. CASE mh[h].len - Hdr # size[c]
  BY <1>1, <1>2, <1>4 DEF QuietHeap, blocks
<1> QED
  BY <1>3, <1>4

LEMMA ShrinkPagesStep ==
  ASSUME IInv, ShrinkPages
  PROVE  IInv'
<1> SUFFICES ASSUME NEW h, h = call.mini PROVE IInv'
  OBVIOUS
<1>1. Mem /\ RoversOK /\ UserTypes /\ CallOK /\ UsersOK
  BY Parts
<1>2. /\ call.at = "shrink" /\ h # 0 /\ h \in Minis /\ build = "pages" /\ UNCHANGED <<build, moved, used, curbrk, users>>
      /\ call' = [call EXCEPT !.mini = NextMini(h)]
  BY <1>1, ShrinkPagesIs
<1>3. /\ NextMini(h) \in {0} \cup Minis /\ NextMini(h) # h /\ h \in Addr /\ NextMini(h) \in 0..Top
      /\ FirstMini \in {0} \cup Minis
  <2>1. h \in Addr /\ h \in Nat
    BY <1>1, <1>2, MiniTypes DEF Mem
  <2>2. NextMini(h) \in {0} \cup Minis /\ (NextMini(h) # 0 => h < NextMini(h))
    BY <1>1, <2>1, NextMiniIs DEF Mem
  <2>3. NextMini(h) # h
    BY <1>2, <2>1, <2>2
  <2>4. FirstMini \in {0} \cup Minis
    BY <1>1, FirstMiniIs DEF Mem
  <2> QED
    BY <2>1, <2>2, <2>3, <2>4, Sizes DEF Minis, Addr
<1>4. /\ Mem' /\ RoversOK' /\ NextMini(h) \in {0} \cup Minis'
      /\ \A a \in used : size'[a] \in Int /\ size'[a] >= size[a] /\ size[a] \in Int
  <2>1. CASE /\ \E c : AllFree(h, c)
             /\ miniRover' = PagesRover(h)
             /\ largestB4' = (IF miniRover = h /\ NextMini(h) = 0 THEN 0 ELSE largestB4)
             /\ freeRover' = (IF freeRover = h THEN 0 ELSE freeRover)
    <3>1. PICK c : AllFree(h, c)
      BY <2>1
    <3>2. /\ B4Small' /\ Minis' = Minis \ {h} /\ MemTypes' /\ MemOK'
          /\ \A a \in used : size'[a] \in Int /\ size'[a] >= size[a] /\ size[a] \in Int
      BY <1>1, <3>1, DroppedMem DEF AllFree
    <3>3. Mem'
      BY <1>1, <1>2, <3>2 DEF Mem, AtBreak
    <3>4. miniRover' \in {0} \cup Minis'
      BY <1>1, <1>3, <2>1, <3>2 DEF PagesRover, RoversOK, RoversLive
    <3>5. RoversOK'
      BY <1>1, <2>1, <3>4, Sizes DEF RoversOK, RoversLive, Huge
    <3> QED
      BY <1>3, <3>2, <3>3, <3>5
  <2>2. CASE QuietHeap /\ UNCHANGED rovers
    <3>1. Mem' /\ Minis' = Minis /\ size' = size
      BY <1>1, <2>2, QuietMem
    <3>2. RoversOK'
      BY <1>1, <2>2, <3>1, RoversSame
    <3>3. \A a \in used : size[a] \in Int
      BY <1>1 DEF Mem, MemTypes
    <3> QED
      BY <1>3, <3>1, <3>2, <3>3
  <2> QED
    BY <1>1, <2>1, <2>2, ShrinkPagesIs
<1>5. /\ call' \in CallRec /\ call'.at = "shrink" /\ call'.job = call.job /\ call'.t = call.t /\ call'.amt = call.amt
      /\ call'.size = call.size /\ call'.mini = NextMini(h) /\ call.job \in {"malloc", "heapmin"}
  <2>1. call \in CallRec /\ call.job \in {"malloc", "heapmin"}
    BY <1>1, <1>2, CallFacts DEF CallOK
  <2> QED
    BY <1>2, <1>3, <2>1 DEF CallRec
<1>6. UsersOK'
  <2>1. UNCHANGED <<used, users>>
    BY <1>2
  <2> QED
    BY <1>1, <1>2, <1>4, <1>5, <2>1, QuietUsers
<1>7. UserTypes'
  BY <1>1, <1>2, <1>4, <1>5 DEF UserTypes, Mem, users
<1>8. CallOK'
  BY <1>1, <1>2, <1>4, <1>5 DEF CallOK, users
<1> QED
  BY <1>4, <1>6, <1>7, <1>8, PartsNext

\* slices: the last mini-heap loses the block at its end, or goes.
CutShort(h, c) ==
  /\ h \in Minis /\ c \in FreeIn(h) /\ Shortened(h, c) /\ curbrk' = c + 1 /\ UNCHANGED rovers
  /\ MemTypes' /\ MemOK' /\ Minis' = Minis
  /\ FreeIn(h)' = FreeIn(h) \ {c} /\ EndTag(h)' = c
  /\ mh'[h] = ShorterMini(h, c) /\ \A g \in Addr : g # h => mh'[g] = mh[g]
  /\ \A g \in Minis : g # h => EndTag(g)' = EndTag(g) /\ EndTag(g) < h /\ FreeIn(g)' = FreeIn(g)
  /\ c \notin used /\ c \in Addr /\ \A x \in Addr : x # c => size'[x] = size[x]
SlicesRover(h) == IF miniRover # h THEN miniRover ELSE IF Minis = {h} THEN 0 ELSE FirstMini
GivenBack(h, c) ==
  /\ AllFree(h, c)
  /\ curbrk' = h /\ miniRover' = SlicesRover(h) /\ freeRover' = freeRover
  /\ largestB4' = IF miniRover = h THEN 0 ELSE largestB4
LEMMA ShrinkSlicesIs ==
  ASSUME Mem, RoversOK, CallOK, ShrinkSlices
  PROVE  /\ call.at = "cut" /\ build = "slices" /\ call.job = "heapmin" /\ Return(1) /\ UNCHANGED <<build, moved, used>>
         /\ \/ \E h, c : (\A g \in Minis : g <= h) /\ (CutShort(h, c) \/ GivenBack(h, c))
            \/ QuietHeap /\ UNCHANGED rovers
<1> SUFFICES ASSUME NEW h, h = LastMini, NEW c, c = prev[h]
             PROVE  /\ call.at = "cut" /\ build = "slices" /\ call.job = "heapmin" /\ Return(1) /\ UNCHANGED <<build, moved, used>>
                    /\ \/ h \in Minis /\ (\A g \in Minis : g <= h) /\ (CutShort(h, c) \/ GivenBack(h, c))
                       \/ QuietHeap /\ UNCHANGED rovers
  OBVIOUS
<1>1. /\ call.at = "cut" /\ build = "slices" /\ call.job = "heapmin" /\ Return(1) /\ UNCHANGED <<build, moved, used>>
      /\ IF Minis # {} /\ c # h /\ c + size[c] = EndTag(h) /\ size[c] > Frl /\ curbrk = EndTag(h) + 1
         THEN IF mh[h].len - size[c] > Hdr
              THEN /\ mh' = [mh EXCEPT ![h].len = @ - size[c], ![h].numfree = @ - 1,
                               ![h].rover = IF @ = c THEN prev[c] ELSE @]
                   /\ size' = [size EXCEPT ![c] = 0]
                   /\ next' = [next EXCEPT ![prev[c]] = h, ![c] = 0]
                   /\ prev' = [prev EXCEPT ![h] = prev[c], ![c] = 0]
                   /\ curbrk' = c + 1
                   /\ UNCHANGED rovers
              ELSE /\ Drop(h)
                   /\ Forget(c, h)
                   /\ curbrk' = h
                   /\ miniRover' = SlicesRover(h)
                   /\ largestB4' = IF miniRover = h THEN 0 ELSE largestB4
                   /\ freeRover' = freeRover
         ELSE UNCHANGED <<mh, size, next, prev, curbrk, rovers>>
  BY DEF ShrinkSlices, CallOK, SlicesRover
<1> DEFINE Cut == Minis # {} /\ c # h /\ c + size[c] = EndTag(h) /\ size[c] > Frl /\ curbrk = EndTag(h) + 1
<1>2. CASE ~Cut
  BY <1>1, <1>2 DEF QuietHeap, blocks
<1>3. CASE Cut
  <2>1. h \in Minis /\ (\A g \in Minis : g <= h) /\ c + size[c] = EndTag(h) /\ c # h
    BY <1>3, LastMiniIs DEF Mem
  <2>2. mh[h].len \in Nat /\ h \in Addr
    BY <2>1, MiniTypes DEF Mem
  <2>3. c \in FreeIn(h)
    <3>1. Linked(h, FreeIn(h), next, prev, h)
      BY <2>1, LinkTypes DEF Mem
    <3> QED
      BY <2>1, <3>1 DEF Linked
  <2>4. size[c] \in Nat
    BY <2>1, <2>3, BlocksAre DEF Mem, MemTypes
  <2>5. CASE mh[h].len - size[c] > Hdr
    <3>1. Shortened(h, c) /\ curbrk' = c + 1 /\ UNCHANGED rovers
      BY <1>1, <1>3, <2>5 DEF Shortened
    <3>3. /\ MemTypes' /\ MemOK' /\ Minis' = Minis
          /\ FreeIn(h)' = FreeIn(h) \ {c} /\ EndTag(h)' = c
          /\ mh'[h] = ShorterMini(h, c) /\ \A g \in Addr : g # h => mh'[g] = mh[g]
          /\ \A g \in Minis : g # h => EndTag(g)' = EndTag(g) /\ EndTag(g) < h /\ Untouched(g)
          /\ c \notin used /\ c \in Addr /\ \A x \in Addr : x # c => size'[x] = size[x]
      BY <2>1, <2>3, <2>5, <3>1, ShortenOK DEF Mem
    <3>4. \A g \in Minis : g # h => FreeIn(g)' = FreeIn(g)
      BY <3>3, UntouchedKept DEF Mem
    <3>5. CutShort(h, c)
      BY <2>1, <2>3, <3>1, <3>3, <3>4 DEF CutShort
    <3> QED
      BY <1>1, <2>1, <3>5
  <2>6. CASE ~(mh[h].len - size[c] > Hdr)
    <3>1. /\ Drop(h) /\ Forget(c, h) /\ curbrk' = h
          /\ miniRover' = SlicesRover(h)
          /\ largestB4' = (IF miniRover = h THEN 0 ELSE largestB4)
          /\ freeRover' = freeRover
      BY <1>1, <1>3, <2>6
    <3>2. Dropped(h, c)
      BY <1>1, <3>1 DEF Drop, Forget, Dropped
    <3>3. mh[h].len - Hdr <= size[c]
      BY <2>2, <2>4, <2>6, Sizes
    <3>4. AllFree(h, c)
      BY <2>1, <3>2, <3>3, DropIs
    <3> QED
      BY <1>1, <2>1, <3>1, <3>4 DEF GivenBack
  <2> QED
    BY <2>5, <2>6
<1> QED
  BY <1>2, <1>3

LEMMA ShrinkSlicesStep ==
  ASSUME IInv, ShrinkSlices
  PROVE  IInv'
<1>1. Mem /\ RoversOK /\ UserTypes /\ CallOK /\ UsersOK
  BY Parts
<1>2. call.at = "cut" /\ build = "slices" /\ call.job = "heapmin" /\ Return(1) /\ UNCHANGED <<build, moved, used>>
  BY <1>1, ShrinkSlicesIs
<1>3. /\ Mem' /\ RoversOK'
      /\ \A a \in used : size[a] <= size'[a]
  <2>1. CASE \E h, c : CutShort(h, c)
    <3>1. PICK h, c : h \in Minis /\ CutShort(h, c)
      BY <2>1 DEF CutShort
    <3>2. /\ MemTypes' /\ MemOK' /\ Minis' = Minis /\ EndTag(h)' = c /\ curbrk' = c + 1 /\ c \in Addr /\ UNCHANGED rovers
          /\ h \in Addr /\ \A g \in Addr : g # h => mh'[g] = mh[g]
      BY <3>1 DEF CutShort, Minis
    <3>3. B4Small'
      <4>1. mh[h] \in MiniRec
        BY <1>1, <3>2 DEF Mem, MemTypes
      <4>2. mh'[h].b4rover = mh[h].b4rover
        BY <3>1, <4>1 DEF CutShort, ShorterMini, MiniRec
      <4> QED
        BY <1>1, <3>2, <4>2 DEF Mem, B4Small
    <3>4. AtBreak' /\ curbrk' \in 1..Top + 1
      <4>1. h < c /\ c \in Int /\ h \in Int
        BY <1>1, <3>1, BlocksAre, MiniTypes DEF CutShort, Mem, Addr
      <4>2. \A g \in Minis' : EndTag(g)' < curbrk'
        <5> SUFFICES ASSUME NEW g \in Minis PROVE EndTag(g)' < curbrk'
          BY <3>2
        <5>1. CASE g = h
          BY <3>2, <4>1, <5>1
        <5>2. CASE g # h
          <6>1. EndTag(g)' = EndTag(g) /\ EndTag(g) < h /\ EndTag(g) \in Int
            BY <1>1, <3>1, <5>2, MiniTypes DEF CutShort, Mem
          <6> QED
            BY <3>2, <4>1, <6>1
        <5> QED
          BY <5>1, <5>2
      <4>3. ~moved => Minis = {1} /\ h = 1
        BY <1>1, <1>2, <3>1 DEF Mem, AtBreak
      <4>4. curbrk' \in 1..Top + 1
        BY <3>2, Sizes DEF Addr
      <4> QED
        BY <1>2, <3>2, <4>2, <4>3, <4>4 DEF AtBreak
    <3>5. RoversOK'
      BY <1>1, <3>2, RoversSame
    <3>6. \A a \in used : size[a] <= size'[a]
      <4>1. ASSUME NEW a \in used PROVE size[a] <= size'[a]
        <5>1. a \in Addr /\ size[a] \in Nat
          BY <1>1, <4>1 DEF Mem, MemTypes
        <5>2. size'[a] = size[a]
          BY <3>1, <4>1, <5>1 DEF CutShort
        <5> QED
          BY <5>1, <5>2
      <4> QED
        BY <4>1
    <3> QED
      BY <3>2, <3>3, <3>4, <3>5, <3>6 DEF Mem
  <2>2. CASE \E h, c : (\A g \in Minis : g <= h) /\ GivenBack(h, c)
    <3>1. PICK h, c : h \in Minis /\ (\A g \in Minis : g <= h) /\ AllFree(h, c) /\ GivenBack(h, c)
      BY <2>2 DEF GivenBack, AllFree
    <3>2. /\ MemTypes' /\ MemOK' /\ Minis' = Minis \ {h} /\ B4Small' /\ (\A g \in Minis : g # h => EndTag(g)' = EndTag(g))
          /\ \A a \in used : size'[a] \in Int /\ size'[a] >= size[a] /\ size[a] \in Int
      BY <1>1, <3>1, DroppedMem DEF AllFree, Kept
    <3>3. AtBreak' /\ curbrk' \in 1..Top + 1
      <4>1. curbrk' = h /\ h \in Addr /\ h \in Int
        BY <1>1, <3>1, MiniTypes DEF GivenBack, Mem
      <4>2. \A g \in Minis' : EndTag(g)' < curbrk'
        <5> SUFFICES ASSUME NEW g \in Minis, g # h PROVE EndTag(g)' < curbrk'
          BY <3>2
        <5>1. g < h
          BY <1>1, <3>1, <4>1, MiniTypes DEF Mem
        <5>2. EndTag(g) < h
          BY <1>1, <3>1, <5>1 DEF Mem, MemOK, Apart
        <5> QED
          BY <3>2, <4>1, <5>2
      <4>3. ~moved => Minis = {1} /\ h = 1
        BY <1>1, <1>2, <3>1 DEF Mem, AtBreak
      <4>4. curbrk' \in 1..Top + 1
        BY <4>1, Sizes DEF Addr
      <4> QED
        BY <1>2, <3>2, <4>1, <4>2, <4>3, <4>4 DEF AtBreak
    <3>4. RoversOK'
      <4>1. SlicesRover(h) \in {0} \cup Minis'
        <5>1. FirstMini \in {0} \cup Minis /\ \A g \in Minis : FirstMini <= g
          BY <1>1, FirstMiniIs DEF Mem
        <5>2. \A g \in Minis : g \in Int
          BY <1>1, MiniTypes DEF Mem
        <5>3. CASE FirstMini = h
          <6>1. ASSUME NEW g \in Minis PROVE g = h
            <7>1. h <= g /\ g <= h /\ g \in Int /\ h \in Int
              BY <3>1, <5>1, <5>2, <5>3
            <7> QED
              BY <7>1
          <6>2. Minis = {h}
            BY <3>1, <6>1
          <6> QED
            BY <1>1, <3>2, <6>2 DEF SlicesRover, RoversOK, RoversLive
        <5>4. CASE FirstMini # h
          BY <1>1, <3>2, <5>1, <5>4 DEF SlicesRover, RoversOK, RoversLive
        <5> QED
          BY <5>3, <5>4
      <4>2. largestB4' \in 0..Huge /\ freeRover' \in 0..Top /\ miniRover' = SlicesRover(h)
        BY <1>1, <3>1, Sizes DEF GivenBack, RoversOK, Huge
      <4> QED
        BY <4>1, <4>2 DEF RoversOK, RoversLive
    <3>5. \A a \in used : size[a] <= size'[a]
      BY <3>2
    <3> QED
      BY <3>2, <3>3, <3>4, <3>5 DEF Mem
  <2>3. CASE QuietHeap /\ UNCHANGED rovers
    <3>1. Mem' /\ Minis' = Minis /\ size' = size
      BY <1>1, <2>3, QuietMem
    <3>2. RoversOK'
      BY <1>1, <2>3, <3>1, RoversSame
    <3>3. \A a \in used : size[a] <= size'[a]
      BY <1>1, <3>1 DEF Mem, MemTypes
    <3> QED
      BY <3>1, <3>2, <3>3
  <2> QED
    BY <1>1, <2>1, <2>2, <2>3, ShrinkSlicesIs
<1>4. Outcome(1)
  BY <1>2, <1>3 DEF Outcome
<1> QED
  BY <1>2, <1>3, <1>4, EndStep

-----------------------------------------------------------------------------
(* The invariant *)

LEMMA InitOK == Init => IInv
<1> SUFFICES ASSUME Init PROVE IInv
  OBVIOUS
<1>1. Minis = {}
  BY DEF Init, Minis, NoMini
<1>2. NoMini \in MiniRec /\ NoMini.len = 0 /\ NoMini.b4rover <= Top
  BY Sizes DEF NoMini, MiniRec, Huge
<1>3. MemTypes
  <2>1. 0 \in 0..Top /\ 0 \in Nat /\ mh \in [Addr -> MiniRec] /\ \A h \in Addr : mh[h] = NoMini
    BY <1>2, Sizes DEF Init
  <2>2. /\ build \in Builds /\ moved \in BOOLEAN /\ used \subseteq Addr
        /\ size \in [Addr -> Nat] /\ next \in [Addr -> 0..Top] /\ prev \in [Addr -> 0..Top]
    BY <2>1 DEF Init
  <2> QED
    BY <2>1, <2>2 DEF MemTypes
<1>4. MemOK
  BY <1>1, <1>3 DEF Init, MemOK, Apart, Covered
<1>5. AtBreak /\ B4Small /\ curbrk \in 1..Top + 1
  BY <1>1, <1>2, Sizes DEF Init, AtBreak, B4Small
<1>6. RoversOK
  BY Sizes DEF Init, RoversOK, RoversLive, Huge
<1>7. IdleThread \in ThreadRec /\ IdleThread.at = "idle" /\ IdleThread.ptr = 0 /\ IdleThread.new = 0
  BY Sizes DEF IdleThread, ThreadRec
<1>8. UserTypes
  BY <1>3, <1>7, NoCallIs DEF Init, UserTypes
<1>9. CallOK
  BY NoCallIs DEF Init, CallOK
<1>10. UsersOK
  <2>1. ThreadsOK
    BY <1>7, OtherIn DEF Init, ThreadsOK, ThreadOK
  <2>2. Freeing = {} /\ \A t \in Threads : Mine(t) = {}
    BY <1>7, NoCallIs DEF Init, Freeing, Mine
  <2>3. Owned /\ Enough
    BY <2>2 DEF Init, Owned, Enough
  <2>4. NeedSmall
    BY Sizes DEF Init, NeedSmall
  <2> QED
    BY <2>1, <2>3, <2>4 DEF UsersOK
<1> QED
  BY <1>3, <1>4, <1>5, <1>6, <1>8, <1>9, <1>10, Parts DEF Mem

\* Nothing of the heap is written, and no call begins or ends.
LEMMA StillStep ==
  ASSUME IInv, UNCHANGED <<build, blocks, rovers, users, call>>, AtBreak', curbrk' \in 1..Top + 1, moved' \in BOOLEAN
  PROVE  IInv'
<1>1. Mem /\ RoversOK /\ UserTypes /\ CallOK /\ UsersOK
  BY Parts
<1>2. /\ build' = build /\ mh' = mh /\ size' = size /\ used' = used /\ next' = next /\ prev' = prev /\ UNCHANGED rovers
      /\ held' = held /\ need' = need /\ th' = th /\ call' = call
  BY DEF blocks, users
<1>3. MemTypes' /\ B4Small'
  BY <1>1, <1>2 DEF Mem, MemTypes, B4Small
<1>4. MemOK' /\ Minis' = Minis /\ \A h \in Minis : Kept(h)
  <2>1. UNCHANGED <<size, used, next, prev>>
    BY <1>2
  <2>2. \A h \in Addr : /\ mh'[h].len = mh[h].len /\ mh'[h].rover = mh[h].rover
                        /\ mh'[h].numalloc = mh[h].numalloc /\ mh'[h].numfree = mh[h].numfree
    BY <1>2
  <2> QED
    BY <1>1, <2>1, <2>2, SameBlocks DEF Mem, Kept
<1>5. Mem'
  BY <1>3, <1>4 DEF Mem
<1>6. RoversOK'
  BY <1>1, <1>2, <1>4, RoversSame
<1>7. UserTypes'
  BY <1>1, <1>2, <1>3 DEF UserTypes
<1>8. CallOK'
  BY <1>1, <1>2, <1>4 DEF CallOK, Kept
<1>9. UsersOK'
  <2>1. Freeing' = Freeing /\ \A t : Mine(t)' = Mine(t)
    BY <1>2 DEF Freeing, Mine
  <2>2. Owned' /\ Enough'
    BY <1>1, <1>2, <2>1 DEF UsersOK, Owned, Enough
  <2>3. ThreadsOK' /\ NeedSmall'
    BY <1>1, <1>2 DEF UsersOK, ThreadsOK, NeedSmall
  <2> QED
    BY <2>2, <2>3 DEF UsersOK
<1> QED
  BY <1>5, <1>6, <1>7, <1>8, <1>9, PartsNext

LEMMA LookStep ==
  ASSUME IInv, LookOn
  PROVE  IInv'
<1>1. UNCHANGED <<build, blocks, rovers, users, call>> /\ curbrk' = curbrk /\ moved' = moved /\ mh' = mh
  BY DEF LookOn, blocks
<1>2. Mem
  BY Parts
<1>3. AtBreak' /\ curbrk' \in 1..Top + 1 /\ moved' \in BOOLEAN
  BY <1>1, <1>2 DEF Mem, MemTypes, AtBreak, Minis, EndTag
<1> QED
  BY <1>1, <1>3, StillStep

\* Other code moves the break.
LEMMA MoveBreakStep ==
  ASSUME IInv, NEW b \in Breaks, MoveBreak(b)
  PROVE  IInv'
<1>1. /\ UNCHANGED <<build, blocks, rovers, users, call>> /\ mh' = mh /\ curbrk' = b /\ moved' = TRUE
      /\ \A h \in Minis : EndTag(h) < b
  BY DEF MoveBreak, blocks
<1>2. AtBreak' /\ curbrk' \in 1..Top + 1 /\ moved' \in BOOLEAN
  BY <1>1, HeapAssumption DEF AtBreak, Minis, EndTag
<1> QED
  BY <1>1, <1>2, StillStep

LEMMA LooksOn ==
  LookNear \/ LookBehind \/ LookInList \/ LookAstray \/ Astray \/ UNCHANGED vars => LookOn
BY DEF LookNear, LookBehind, LookInList, LookAstray, Astray, vars, LookOn

LEMMA NextOK == IInv /\ Looking /\ [Next]_vars => IInv'
<1> SUFFICES ASSUME IInv, Looking, [Next]_vars PROVE IInv'
  OBVIOUS
<1>1. CASE \E t \in Threads, amt \in Amounts : Malloc(t, amt)
  BY <1>1, MallocStep
<1>2. CASE \E t \in Threads, p \in Addr : Free(t, p)
  BY <1>2, FreeStep
<1>3. CASE \E t \in Resizers, p \in held, amt \in Amounts : Resize(t, p, amt)
  BY <1>3, ResizeStep
<1>4. CASE \E t \in Resizers : ResetSize(t)
  BY <1>4, ResetSizeStep
<1>5. CASE Serve
  BY <1>5, TryMiniStep, ScanOnStep, CarveStep, NFreeStep, ShrinkPagesStep, ShrinkSlicesStep, GrowStep,
     CreateStep, ExpandCutStep, ExpandTakeStep, QuietEnds, HeapMinStep, LooksOn, LookStep DEF Serve
<1>6. CASE HeapMin
  BY <1>6, HeapMinStep
<1>7. CASE UNCHANGED vars
  BY <1>7, LooksOn, LookStep
<1>8. CASE \E b \in Breaks : MoveBreak(b)
  BY <1>8, MoveBreakStep
<1> QED
  BY <1>1, <1>2, <1>3, <1>4, <1>5, <1>6, <1>7, <1>8 DEF Next

\* Nothing is looked for outside _nfree.
LEMMA NoLookIs == NoLook \in LookRec /\ \A h, f : LookedIn(h, f, NoLook)
BY Sizes DEF NoLook, LookRec, LookedIn

LEMMA InitLooks == Init => Looking
BY NoLookIs, NoCallIs DEF Init, Looking

LEMMA NextLooks == IInv /\ Looking /\ [Next]_vars => Looking'
<1> SUFFICES ASSUME IInv, Looking, [Next]_vars PROVE Looking'
  OBVIOUS
<1>1. Mem /\ UserTypes /\ CallOK /\ UsersOK
  BY Parts
<1>2. ASSUME call.at = "nfree", LookOn, look' \in LookRec, LookedIn(MiniOf(call.pcur), call.pcur, look')
      PROVE  Looking'
  BY <1>1, <1>2, FreeingIs, LookKept DEF Mem, UsersOK
<1>3. CASE LookNear \/ LookBehind \/ LookInList \/ LookAstray
  <2>1. call.at = "nfree" /\ LookOn
    BY <1>3, LooksOn DEF LookNear, LookBehind, LookInList, LookAstray
  <2>2. /\ MiniOf(call.pcur) \in Minis /\ call.pcur \in Blocks(MiniOf(call.pcur)) /\ call.pcur \in used
        /\ look \in LookRec /\ LookedIn(MiniOf(call.pcur), call.pcur, look)
    BY <1>1, <2>1, FreeingIs DEF Looking, Mem, UsersOK
  <2>3. look' \in LookRec /\ LookedIn(MiniOf(call.pcur), call.pcur, look')
    BY <1>1, <1>3, <2>2, LookNearIs, LookBehindIs, LookInListIs, LookAstrayIs DEF Mem
  <2> QED
    BY <1>2, <2>1, <2>3
<1>4. CASE Astray \/ UNCHANGED vars
  <2>1. LookOn /\ look' = look /\ call' = call
    BY <1>4, LooksOn DEF Astray, vars, LookOn
  <2>2. CASE call.at = "nfree"
    BY <1>2, <2>1, <2>2 DEF Looking
  <2>3. CASE call.at # "nfree"
    BY <2>1, <2>3 DEF Looking
  <2> QED
    BY <2>2, <2>3
<1>5. ASSUME look' = NoLook PROVE Looking'
  BY <1>5, NoLookIs DEF Looking, LookedIn, NoLook
<1>6. CASE NFree
  BY <1>5, <1>6 DEF NFree
<1>7. ASSUME look' = look, call.at # "nfree" PROVE Looking'
  BY <1>5, <1>7 DEF Looking
<1>8. CASE \/ TryMini \/ ScanOn \/ Carve \/ GiveUp \/ ShrinkPages \/ ShrinkSlices \/ HeapMinDone
           \/ GrowSlices \/ NoRoom \/ ShrinkFirst \/ CreateMini \/ ExpandFits \/ ExpandCut \/ ExpandTake \/ ExpandFails
  <2>1. look' = look
    BY <1>8 DEF TryMini, ScanOn, Carve, GiveUp, ShrinkPages, ShrinkSlices, HeapMinDone,
                GrowSlices, NoRoom, ShrinkFirst, CreateMini, ExpandFits, ExpandCut, ExpandTake, ExpandFails
  <2>2. call.at # "nfree"
    BY <1>8 DEF TryMini, ScanOn, Carve, GiveUp, ShrinkPages, ShrinkSlices, HeapMinDone, Growing,
                GrowSlices, NoRoom, ShrinkFirst, CreateMini, ExpandFits, ExpandCut, ExpandTake, ExpandFails
  <2> QED
    BY <1>7, <2>1, <2>2
<1>9. CASE \/ HeapMin
           \/ \E t \in Threads, amt \in Amounts : Malloc(t, amt)
           \/ \E t \in Threads, p \in Addr : Free(t, p)
           \/ \E t \in Resizers, p \in held, amt \in Amounts : Resize(t, p, amt)
           \/ \E t \in Resizers : ResetSize(t)
           \/ \E b \in Breaks : MoveBreak(b)
  <2>1. look' = look /\ call = NoCall
    BY <1>9 DEF HeapMin, Malloc, Free, Resize, ResetSize, Expand, MoveBreak
  <2> QED
    BY <1>7, <2>1, NoCallIs
<1> QED
  BY <1>3, <1>4, <1>6, <1>8, <1>9 DEF Next, Serve

LEMMA InvariantHolds == Spec => [](IInv /\ Looking)
<1>1. Init => IInv /\ Looking
  BY InitOK, InitLooks
<1>2. IInv /\ Looking /\ [Next]_vars => (IInv /\ Looking)'
  BY NextOK, NextLooks
<1> QED
  BY <1>1, <1>2, PTL DEF Spec

\* What the runs check follows from it.
LEMMA TypesHold == IInv /\ Looking => TypeOK
<1> SUFFICES ASSUME IInv, Looking PROVE TypeOK
  OBVIOUS
<1>1. Mem /\ RoversOK /\ UserTypes /\ UsersOK
  BY Parts
<1>2. MemTypes /\ MemOK
  BY <1>1 DEF Mem
<1>3. \A a \in Addr : size[a] \in 0..Top
  BY <1>2, SizesFit, Sizes DEF MemTypes, Fits
<1>4. \A h \in Addr : mh[h] \in [len : 0..Top, rover : 0..Top, b4rover : 0..Top,
                                 largest : 0..Huge, numalloc : 0..Top, numfree : 0..Top]
  <2>1. SUFFICES ASSUME NEW h \in Addr
                 PROVE  mh[h] \in [len : 0..Top, rover : 0..Top, b4rover : 0..Top,
                                   largest : 0..Huge, numalloc : 0..Top, numfree : 0..Top]
    OBVIOUS
  <2>2. mh[h] \in MiniRec /\ mh[h].b4rover <= Top
    BY <1>1, <1>2 DEF Mem, B4Small, MemTypes
  <2>3. CASE h \in Minis
    <3>1. mh[h].len \in 0..Top
      BY <1>2, <2>2, <2>3, Sizes DEF MemOK, Apart, EndTag, MiniRec, Addr
    <3>2. mh[h].numfree \in 0..Top /\ mh[h].numalloc \in 0..Top
      <4>1. FreeIn(h) \subseteq Addr /\ Blocks(h) \cap used \subseteq Addr
        BY <1>2, <2>3, BlocksAre
      <4>2. \A S : S \subseteq Addr => Cardinality(S) \in Nat /\ Cardinality(S) <= Top
        <5>1. SUFFICES ASSUME NEW S, S \subseteq Addr PROVE Cardinality(S) \in Nat /\ Cardinality(S) <= Top
          OBVIOUS
        <5>2. Cardinality(S) <= Cardinality(Addr) /\ IsFiniteSet(S)
          BY <5>1, AddrFinite, FS_Subset
        <5> QED
          BY <5>2, AddrFinite, FS_CardinalityType
      <4>3. mh[h].numfree = Cardinality(FreeIn(h)) /\ mh[h].numalloc = Cardinality(Blocks(h) \cap used)
        BY <1>2, <2>3 DEF MemOK, Counted
      <4> QED
        BY <4>1, <4>2, <4>3, Sizes
    <3> QED
      BY <2>2, <3>1, <3>2, Sizes DEF MiniRec
  <2>4. CASE h \notin Minis
    <3>1. mh[h] = NoMini
      BY <1>2, <2>2, <2>4 DEF Minis, MemTypes, MiniRec
    <3> QED
      BY <3>1, Sizes DEF NoMini, Huge
  <2> QED
    BY <2>3, <2>4
<1>5. mh \in [Addr -> [len : 0..Top, rover : 0..Top, b4rover : 0..Top,
                       largest : 0..Huge, numalloc : 0..Top, numfree : 0..Top]]
  BY <1>2, <1>4 DEF MemTypes
<1>6. size \in [Addr -> 0..Top]
  BY <1>2, <1>3 DEF MemTypes
<1>7. need \in [Addr -> 0..Top]
  <2>1. \A a \in Addr : need[a] \in 0..Top
    BY <1>1, Sizes DEF UserTypes, UsersOK, NeedSmall
  <2> QED
    BY <1>1, <2>1 DEF UserTypes
<1>8. miniRover \in 0..Top
  BY <1>1, Sizes DEF RoversOK, RoversLive, Minis, Addr
<1>9. look \in [at : {"start", "skip", "search", "link", "astray"}, pnext : 0..Top, left : Nat]
  BY DEF Looking, LookRec
<1> QED
  BY <1>1, <1>2, <1>5, <1>6, <1>7, <1>8, <1>9 DEF TypeOK, MemTypes, Mem, RoversOK, UserTypes

LEMMA WalkHolds == MemTypes /\ MemOK => WalkOK
<1> SUFFICES ASSUME MemTypes, MemOK PROVE WalkOK
  OBVIOUS
<1>1. \A g, h \in Minis : g < h => EndTag(g) < h
  BY DEF MemOK, Apart
<1>2. \A h \in Minis :
       /\ h + Hdr \in Blocks(h)
       /\ \A a \in Blocks(h) : a + size[a] \in Blocks(h) \union {EndTag(h)}
       /\ \A a, b \in Blocks(h) : a < b => a + size[a] <= b
  BY DEF MemOK, MiniOK, Walk
<1>3. \A a \in Addr : size[a] > 0 => size[a] >= Frl /\ \E h \in Minis : a \in Blocks(h)
  <2>1. SUFFICES ASSUME NEW a \in Addr, size[a] > 0 PROVE size[a] >= Frl /\ \E h \in Minis : a \in Blocks(h)
    OBVIOUS
  <2>2. MiniOf(a) \in Minis /\ a \in Blocks(MiniOf(a))
    BY <2>1, BlockIn
  <2>3. Frl <= size[a] /\ size[a] \in Nat
    BY <2>1, <2>2, BlockFits DEF MemTypes
  <2> QED
    BY <2>2, <2>3, Sizes
<1>4. \A a \in used : size[a] > 0
  BY DEF MemOK, Covered
<1>5. \A a \in Addr : size[a] > 0 => size[a] >= Frl /\ \E h \in Minis : Within(h, a)
  BY <1>3 DEF Blocks
<1> QED
  BY <1>1, <1>2, <1>4, <1>5 DEF WalkOK

LEMMA RingHolds == MemTypes /\ MemOK => RingOK
<1> SUFFICES ASSUME MemTypes, MemOK, NEW h \in Minis, NEW a \in {h} \cup FreeIn(h)
             PROVE  /\ next[a] \in {h} \cup FreeIn(h) /\ prev[a] \in {h} \cup FreeIn(h)
                    /\ prev[next[a]] = a /\ next[prev[a]] = a
                    /\ next[a] # h => next[a] > a
                    /\ \A b \in FreeIn(h) : b > a => next[a] \in a+1..b
  BY DEF RingOK
<1>1. /\ Linked(h, FreeIn(h), next, prev, a)
  BY LinkTypes
<1>2. \A b \in FreeIn(h) : b \in Int
  BY BlocksAre
<1>3. ASSUME NEW b \in FreeIn(h), b > a PROVE next[a] \in a+1..b
  <2>1. a \in Int /\ next[a] \in Int /\ b \in Int /\ a < b
    BY <1>1, <1>2, <1>3 DEF Linked
  <2>2. next[a] # h /\ next[a] <= b /\ a < next[a]
    BY <1>1, <1>3, <2>1 DEF Linked
  <2> QED
    BY <2>1, <2>2
<1>4. next[a] # h => next[a] > a
  BY <1>1 DEF Linked
<1> QED
  BY <1>1, <1>3, <1>4 DEF Linked

LEMMA HeldHolds == UserTypes /\ UsersOK => Held
<1> SUFFICES ASSUME UserTypes, UsersOK PROVE Held
  OBVIOUS
<1>1. Owned /\ Enough /\ used \subseteq Addr /\ 0 \notin Addr
  BY DEF UsersOK, UserTypes, MemTypes, Addr
<1>2. \A a : a \in Holding <=> a # 0 /\ (a \in held \/ \E t \in Threads : a \in Mine(t))
  <2>1. \A a : a \in UNION {{th[t].ptr, th[t].new} : t \in Threads} <=> \E t \in Threads : a \in {th[t].ptr, th[t].new}
    OBVIOUS
  <2> QED
    BY <2>1 DEF Holding, Mine
<1>3. used \ Freeing = Holding \ Freeing
  BY <1>1, <1>2 DEF Owned
<1>4. \A t \in Threads : {th[t].ptr, th[t].new} \cap held = {}
  <2>1. 0 \notin held
    BY <1>1 DEF Owned
  <2> QED
    BY <1>1, <2>1 DEF Owned, Mine
<1>5. \A a \in used \ Freeing : need[a] > 0 /\ size[a] > need[a]
  BY <1>1 DEF Enough
<1> QED
  BY <1>3, <1>4, <1>5 DEF Held, Freeing

-----------------------------------------------------------------------------
\* The heap is sound at every step of every call, whatever is split, joined,
\* grown, cut off or given back (_nheapchk would find nothing): memory is
\* divided into blocks without gap or overlap, and the links are one ring in
\* address order of exactly the free ones.
THEOREM HeapSound == Spec => []HeapOK
<1>1. IInv /\ Looking => HeapOK
  BY TypesHold, WalkHolds, RingHolds, Parts DEF HeapOK, Mem
<1> QED
  BY <1>1, InvariantHolds, PTL

\* No two free blocks are neighbours, and the counts are those of the blocks.
THEOREM AlwaysJoined == Spec => []JoinedAndCounted
<1>1. IInv => JoinedAndCounted
  BY Parts DEF Mem, MemOK, MiniOK, Counted, Joined, JoinedAndCounted
<1> QED
  BY <1>1, InvariantHolds, PTL

\* No allocated block is lost or held twice, through _nrealloc and its
\* failures too, and each is long enough for what its holder has in it.
THEOREM AlwaysHeld == Spec => []Held
<1>1. IInv => Held
  BY HeldHolds, Parts
<1> QED
  BY <1>1, InvariantHolds, PTL
-----------------------------------------------------------------------------
(* The cached sizes: the invariant                                          *)

FreeUpTo(h, n) == \A a \in FreeIn(h) : size[a] <= n
TooSmall(h, n) == \A a \in FreeIn(h) : size[a] < n
MiniBound(h) ==
  /\ FreeUpTo(h, mh[h].largest)
  /\ \A a \in FreeIn(h) : a < mh[h].rover => size[a] <= mh[h].b4rover

\* How far _nmalloc has looked, or where it would begin.
Place == IF call.at \in {"mini", "scan"} /\ call.mini # 0 THEN call.mini ELSE miniRover
Before == \A h \in Minis : h < Place => FreeUpTo(h, largestB4)

\* What __MemAllocator knows of the mini-heap it is in: the largest entry so
\* far, and largest_blk as _nmalloc read it.
ScanAt(h) ==
  /\ miniRover = h /\ FreeUpTo(h, call.seen)
  /\ \A a \in FreeIn(h) : a < call.pcur => size[a] <= call.largest /\ size[a] < call.size
Scanning == call.at = "scan" => \A h \in Minis : h = call.mini => ScanAt(h)

\* In the mini-heaps a _nmalloc has passed nothing is long enough; when it has
\* to grow it has passed all.
Passed ==
  /\ call.at \in {"mini", "scan"} =>
       \A h \in Minis : call.mini = 0 \/ h < call.mini => TooSmall(h, call.size)
  /\ call.at = "shrink" /\ call.job = "malloc" => \A h \in Minis : TooSmall(h, call.size)

\* As long as only the heap moves the break the one mini-heap comes back at the
\* same place, so __MiniHeapFreeRover may outlive it.
FreeRoverOK ==
  \/ build = "slices" /\ moved
  \/ freeRover \in {0} \cup (IF build = "slices" THEN {1} ELSE Minis)

Caches ==
  /\ \A h \in Minis : MiniBound(h)
  /\ Before /\ Scanning /\ Passed /\ FreeRoverOK

-----------------------------------------------------------------------------
(* The cached sizes: steps                                                  *)

LEMMA FreeTypes ==
  MemTypes => \A h \in Minis :
    /\ h \in Addr /\ h \in Nat /\ mh[h].rover \in Nat /\ mh[h].b4rover \in Nat /\ mh[h].largest \in Nat
    /\ \A a \in FreeIn(h) : a \in Addr /\ a \in Nat /\ size[a] \in Nat
<1> SUFFICES ASSUME MemTypes, NEW h \in Minis
             PROVE  /\ h \in Addr /\ h \in Nat /\ mh[h].rover \in Nat /\ mh[h].b4rover \in Nat /\ mh[h].largest \in Nat
                    /\ \A a \in FreeIn(h) : a \in Addr /\ a \in Nat /\ size[a] \in Nat
  OBVIOUS
<1>1. h \in Addr /\ h \in Nat /\ mh[h] \in MiniRec
  BY Sizes DEF Minis, Addr, MemTypes
<1>2. \A a \in FreeIn(h) : a \in Addr /\ a \in Nat /\ size[a] \in Nat
  BY Sizes DEF FreeIn, Blocks, Addr, MemTypes
<1> QED
  BY <1>1, <1>2, Sizes DEF MiniRec, Huge
LEMMA FreeTypesNext ==
  MemTypes' => \A h \in Minis' :
    /\ h \in Addr /\ h \in Nat /\ mh'[h].rover \in Nat /\ mh'[h].b4rover \in Nat /\ mh'[h].largest \in Nat
    /\ \A a \in FreeIn(h)' : a \in Addr /\ a \in Nat /\ size'[a] \in Nat
<1>1. (MemTypes => \A h \in Minis :
         /\ h \in Addr /\ h \in Nat /\ mh[h].rover \in Nat /\ mh[h].b4rover \in Nat /\ mh[h].largest \in Nat
         /\ \A a \in FreeIn(h) : a \in Addr /\ a \in Nat /\ size[a] \in Nat)'
  BY FreeTypes, PTL
<1>2. Addr' = Addr
  BY DEF Addr
<1> QED
  BY <1>1, <1>2

\* A block is in one mini-heap.
LEMMA OtherMini ==
  ASSUME MemTypes, MemOK, NEW g \in Minis, NEW h \in Minis, g # h, NEW a, a \in Blocks(g)
  PROVE  a \notin Blocks(h)
<1>1. a \in Int /\ Within(g, a)
  BY BlocksAre
<1>2. a \in Blocks(h) => Within(h, a)
  BY BlocksAre
<1> QED
  BY <1>1, <1>2, InOneMini DEF MemOK

\* No free block of g is longer than one that was there before.
NoBigger(g) == \A a \in FreeIn(g)' : g \in Minis /\ \E b \in FreeIn(g) : size'[a] <= size[b]

\* What most steps do to the caches: nothing.
Steady ==
  /\ \A g \in Minis' : NoBigger(g)
  /\ \A g \in Minis' : MiniBound(g)'
  /\ FreeRoverOK'

LEMMA PlaceIs == Mem /\ RoversOK /\ UserTypes => Place \in Nat /\ largestB4 \in Nat
BY CallFacts, Sizes DEF Place, RoversOK, RoversLive, Minis, Addr, Huge
LEMMA PlaceIsNext == Mem' /\ RoversOK' /\ UserTypes' => Place' \in Nat /\ largestB4' \in Nat
<1>1. (Mem /\ RoversOK /\ UserTypes => Place \in Nat /\ largestB4 \in Nat)'
  BY PlaceIs, PTL
<1> QED
  BY <1>1

LEMMA BeforeStays ==
  ASSUME IInv, IInv', Before, \A g \in Minis' : g < Place' => NoBigger(g), Place' <= Place, largestB4 <= largestB4'
  PROVE  Before'
<1>1. Mem /\ RoversOK /\ UserTypes /\ Mem' /\ RoversOK' /\ UserTypes'
  BY Parts, PartsNext
<1>2. Place \in Nat /\ largestB4 \in Nat /\ Place' \in Nat /\ largestB4' \in Nat
  BY <1>1, PlaceIs, PlaceIsNext
<1>3. ASSUME NEW g \in Minis', g < Place', NEW a \in FreeIn(g)' PROVE size'[a] <= largestB4'
  <2>1. NoBigger(g)
    BY <1>3
  <2>2. g \in Minis
    BY <1>3, <2>1 DEF NoBigger
  <2>3. PICK b \in FreeIn(g) : size'[a] <= size[b]
    BY <1>3, <2>1 DEF NoBigger
  <2>4. g < Place
    BY <1>1, <1>2, <1>3, <2>2, FreeTypes DEF Mem
  <2>5. size[b] <= largestB4
    BY <2>2, <2>4 DEF Before, FreeUpTo
  <2>6. size[b] \in Nat
    BY <1>1, <2>2, FreeTypes DEF Mem
  <2>7. size'[a] \in Nat
    BY <1>1, <1>3, FreeTypesNext DEF Mem
  <2> QED
    BY <1>2, <2>3, <2>5, <2>6, <2>7
<1> QED
  BY <1>3 DEF Before, FreeUpTo

\* What is too small stays too small.
LEMMA SmallStays ==
  ASSUME Mem, Mem', NEW g \in Minis', NoBigger(g), NEW n \in Nat, g \in Minis => TooSmall(g, n)
  PROVE  \A a \in FreeIn(g)' : size'[a] < n
<1> SUFFICES ASSUME NEW a \in FreeIn(g)' PROVE size'[a] < n
  OBVIOUS
<1>1. g \in Minis
  BY DEF NoBigger
<1>2. PICK b \in FreeIn(g) : size'[a] <= size[b]
  BY DEF NoBigger
<1>3. size[b] < n
  BY <1>1 DEF TooSmall
<1>4. size[b] \in Nat /\ size'[a] \in Nat
  BY <1>1, FreeTypes, FreeTypesNext DEF Mem
<1> QED
  BY <1>2, <1>3, <1>4

\* A step to a place outside _nmalloc's loop.
LEMMA CachesBy ==
  ASSUME Caches, IInv, IInv', Steady, miniRover' = miniRover, largestB4' = largestB4,
         call.at \in {"mini", "scan"} => call.mini \in {0, miniRover},
         call'.at \notin {"mini", "scan"}, call'.at = "shrink" => call'.job # "malloc"
  PROVE  Caches'
<1>1. Place = miniRover /\ Place' = miniRover
  BY DEF Place
<1>2. Before'
  <2>1. Place' <= Place /\ largestB4 <= largestB4'
    <3>1. Place \in Nat /\ largestB4 \in Nat
      BY Parts, PlaceIs
    <3> QED
      BY <1>1, <3>1
  <2> QED
    BY <2>1, BeforeStays DEF Caches, Steady
<1>3. Scanning' /\ Passed'
  BY DEF Scanning, Passed
<1> QED
  BY <1>2, <1>3 DEF Caches, Steady

\* Nothing is written to the heap.
LEMMA QuietSteady ==
  ASSUME IInv, IInv', Caches, QuietHeap, freeRover' = freeRover
  PROVE  /\ Steady /\ Minis' = Minis /\ build' = build /\ moved' = moved /\ mh' = mh /\ size' = size /\ used' = used
         /\ \A g \in Minis : FreeIn(g)' = FreeIn(g)
<1>1. Mem /\ Mem'
  BY Parts, PartsNext
<1>2. /\ Minis' = Minis /\ \A g \in Minis : FreeIn(g)' = FreeIn(g)
      /\ build' = build /\ moved' = moved /\ mh' = mh /\ size' = size /\ used' = used
  BY <1>1, QuietMem DEF Kept
<1>3. \A g \in Minis : \A a \in FreeIn(g) : size[a] \in Nat
  BY <1>1, FreeTypes DEF Mem
<1>4. \A g \in Minis' : NoBigger(g)
  BY <1>2, <1>3 DEF NoBigger
<1>5. \A g \in Minis' : MiniBound(g)'
  BY <1>2 DEF Caches, MiniBound, FreeUpTo
<1>6. FreeRoverOK'
  BY <1>2 DEF Caches, FreeRoverOK
<1> QED
  BY <1>2, <1>4, <1>5, <1>6 DEF Steady

LEMMA QuietCaches ==
  ASSUME IInv, IInv', Caches, QuietHeap, UNCHANGED rovers, call.at # "scan", call.at = "mini" => call.mini = 0,
         call'.at \notin {"mini", "scan"}, call'.at = "shrink" => call'.job # "malloc"
  PROVE  Caches'
<1>1. Steady
  BY QuietSteady DEF rovers
<1> QED
  BY <1>1, CachesBy DEF rovers

LEMMA EndCaches ==
  ASSUME IInv, IInv', Caches, GiveUp \/ NoRoom \/ HeapMinDone \/ ExpandFits \/ ExpandFails
  PROVE  Caches'
<1>1. QuietHeap /\ UNCHANGED rovers /\ call' = NoCall /\ call.at # "scan" /\ (call.at = "mini" => call.mini = 0)
  BY DEF GiveUp, NoRoom, HeapMinDone, ExpandFits, ExpandFails, Return, QuietHeap, blocks, Growing
<1> QED
  BY <1>1, NoCallIs, QuietCaches

LEMMA BeginCaches ==
  ASSUME IInv, IInv', Caches,
         \/ HeapMin
         \/ \E t \in Threads, p \in Addr : Free(t, p)
         \/ \E t \in Resizers, p \in held, amt \in Amounts : Resize(t, p, amt)
         \/ \E t \in Resizers : ResetSize(t)
  PROVE  Caches'
<1>1. QuietHeap /\ UNCHANGED rovers /\ call = NoCall
  BY DEF HeapMin, Free, Resize, ResetSize, Expand, QuietHeap, blocks
<1>2. call'.at \notin {"mini", "scan"} /\ (call'.at = "shrink" => call'.job # "malloc")
  <2>1. CASE HeapMin
    <3>1. call'.at \in {"shrink", "cut"} /\ call'.job = "heapmin"
      BY <2>1 DEF HeapMin, NoCall
    <3> QED
      BY <3>1
  <2>2. CASE ~HeapMin
    <3>1. call'.at \in {"nfree", "expand"}
      <4>1. CASE \E t \in Threads, p \in Addr : Free(t, p)
        BY <4>1 DEF Free, NoCall
      <4>2. CASE \E t, p, amt : Expand(t, p, amt)
        BY <4>2 DEF Expand, NoCall
      <4> QED
        BY <2>2, <4>1, <4>2 DEF Resize, ResetSize
    <3> QED
      BY <3>1
  <2> QED
    BY <2>1, <2>2
<1> QED
  BY <1>1, <1>2, NoCallIs, QuietCaches

\* _nmalloc has passed everything, and begins or ends to grow.
LEMMA ShrinkFirstCaches ==
  ASSUME IInv, IInv', Caches, ShrinkFirst
  PROVE  Caches'
<1>1. /\ call' = [call EXCEPT !.at = "shrink", !.mini = FirstMini] /\ QuietHeap /\ UNCHANGED rovers
      /\ call.at = "mini" /\ call.mini = 0
  BY Parts, HeapAssumption DEF ShrinkFirst, Growing, QuietHeap, blocks
<1>2. DOMAIN call = DOMAIN NoCall /\ call.size \in Nat
  BY Parts, CallFacts
<1>3. call'.at = "shrink" /\ call'.size = call.size
  BY <1>1, <1>2 DEF NoCall
<1>4. Steady /\ Minis' = Minis /\ size' = size /\ \A g \in Minis : FreeIn(g)' = FreeIn(g)
  BY <1>1, QuietSteady DEF rovers
<1>5. Before'
  <2>1. Place \in Nat /\ largestB4 \in Nat /\ Place' = Place /\ largestB4' = largestB4
    BY <1>1, <1>3, Parts, PlaceIs DEF Place, rovers
  <2> QED
    BY <1>4, <2>1, BeforeStays DEF Caches, Steady
<1>6. Scanning'
  BY <1>3 DEF Scanning
<1>7. Passed'
  BY <1>1, <1>3, <1>4 DEF Caches, Passed, TooSmall
<1> QED
  BY <1>4, <1>5, <1>6, <1>7 DEF Caches, Steady

LEMMA NoPlaceCaches ==
  ASSUME IInv, IInv', Caches, CreateMini, call' = [call EXCEPT !.at = "mini", !.expanded = TRUE], UNCHANGED blocks
  PROVE  Caches'
<1>1. QuietHeap /\ UNCHANGED rovers /\ call.at = "shrink" /\ call.mini = 0 /\ call.job = "malloc"
  BY Parts, CreateMiniIs DEF QuietHeap
<1>2. DOMAIN call = DOMAIN NoCall /\ call.size \in Nat
  BY Parts, CallFacts
<1>3. call'.at = "mini" /\ call'.mini = 0 /\ call'.size = call.size
  BY <1>1, <1>2 DEF NoCall
<1>4. Steady /\ Minis' = Minis /\ size' = size /\ \A g \in Minis : FreeIn(g)' = FreeIn(g)
  BY <1>1, QuietSteady DEF rovers
<1>5. Before'
  <2>1. Place \in Nat /\ largestB4 \in Nat /\ Place' = Place /\ largestB4' = largestB4
    BY <1>1, <1>3, Parts, PlaceIs DEF Place, rovers
  <2> QED
    BY <1>4, <2>1, BeforeStays DEF Caches, Steady
<1>6. Scanning'
  BY <1>3 DEF Scanning
<1>7. Passed'
  BY <1>1, <1>3, <1>4 DEF Caches, Passed, TooSmall
<1> QED
  BY <1>4, <1>5, <1>6, <1>7 DEF Caches, Steady

LEMMA StillCaches ==
  ASSUME IInv, IInv', Caches, LookOn
  PROVE  Caches'
<1>1. QuietHeap /\ UNCHANGED rovers /\ call' = call /\ freeRover' = freeRover
  BY DEF LookOn, QuietHeap, rovers
<1>2. Steady /\ Minis' = Minis /\ size' = size /\ \A g \in Minis : FreeIn(g)' = FreeIn(g)
  BY <1>1, QuietSteady
<1>3. Before' /\ Scanning' /\ Passed'
  BY <1>1, <1>2 DEF Caches, Before, Scanning, ScanAt, Passed, TooSmall, FreeUpTo, Place, rovers
<1> QED
  BY <1>2, <1>3 DEF Caches, Steady

-----------------------------------------------------------------------------
(* The cached sizes: _nmalloc                                               *)

\* A search begins at the rover when nothing before it is long enough (b4),
\* and at the first mini-heap otherwise.
LEMMA SearchCaches ==
  ASSUME IInv, IInv', NEW c \in CallRec, NEW b4 \in 0..Huge, SearchFrom(c, b4), Minis' = Minis, miniRover' = miniRover,
         \A g \in Minis' : MiniBound(g)', FreeRoverOK',
         \A g \in Minis' : g < miniRover => \A a \in FreeIn(g)' : size'[a] <= b4
  PROVE  Caches'
<1>1. Mem /\ RoversOK /\ Mem' /\ UserTypes'
  BY Parts, PartsNext
<1>2. call'.at = "mini" /\ call'.size = c.size /\ c.size \in Nat /\ b4 \in Nat
  <2>1. call'.at = "mini" /\ call'.size = c.size
    BY <1>1, SearchIs
  <2> QED
    BY <2>1, Sizes DEF CallRec, Huge
<1>3. DOMAIN c = DOMAIN NoCall
  BY DEF CallRec, NoCall
<1>4. \A g \in Minis : g \in Nat /\ g # 0
  BY <1>1, FreeTypes DEF Mem, Addr
<1>5. \A g \in Minis' : \A a \in FreeIn(g)' : size'[a] \in Nat
  BY <1>1, FreeTypesNext DEF Mem
<1>6. Scanning'
  BY <1>2 DEF Scanning
<1>7. CASE c.size <= b4 \/ miniRover = 0
  <2>1. call'.mini = FirstMini /\ largestB4' = 0
    BY <1>3, <1>7 DEF SearchFrom, NoCall
  <2>2. FirstMini = 0 => Minis = {}
    BY <1>1, FirstMiniIs DEF Mem
  <2>3. \A g \in Minis : FirstMini <= g /\ FirstMini \in Nat
    <3>1. FirstMini \in {0} \cup Minis /\ \A g \in Minis : FirstMini <= g
      BY <1>1, FirstMiniIs DEF Mem
    <3> QED
      BY <1>4, <3>1
  <2>4. \A g \in Minis : ~(g < FirstMini) /\ FirstMini # 0
    BY <1>4, <2>2, <2>3
  <2>5. Before'
    BY <1>2, <2>1, <2>4 DEF Before, Place
  <2>6. Passed'
    BY <1>2, <2>1, <2>4 DEF Passed
  <2> QED
    BY <1>6, <2>5, <2>6 DEF Caches
<1>8. CASE ~(c.size <= b4 \/ miniRover = 0)
  <2>1. call'.mini = miniRover /\ largestB4' = b4 /\ miniRover # 0
    BY <1>3, <1>8 DEF SearchFrom, NoCall
  <2>2. Place' = miniRover
    BY <1>2, <2>1 DEF Place
  <2>3. Before'
    BY <2>1, <2>2 DEF Before, FreeUpTo
  <2>4. b4 < c.size
    BY <1>2, <1>8
  <2>5. \A g \in Minis' : g < miniRover => \A a \in FreeIn(g)' : size'[a] < c.size
    BY <1>2, <1>5, <2>4
  <2>6. Passed'
    BY <1>2, <2>1, <2>5 DEF Passed, TooSmall
  <2> QED
    BY <1>6, <2>3, <2>6 DEF Caches
<1> QED
  BY <1>7, <1>8

LEMMA MallocCaches ==
  ASSUME IInv, IInv', Caches, NEW t \in Threads, NEW amt \in Amounts, Malloc(t, amt)
  PROVE  Caches'
<1>1. QuietHeap /\ miniRover' = miniRover /\ freeRover' = freeRover /\ call = NoCall
  BY DEF Malloc, QuietHeap, blocks
<1>2. Steady /\ Minis' = Minis /\ size' = size /\ \A g \in Minis : FreeIn(g)' = FreeIn(g)
  BY <1>1, QuietSteady
<1> DEFINE c == [NoCall EXCEPT !.t = t, !.job = "malloc", !.amt = amt, !.size = BlockSize(amt)]
<1>3. amt \in Nat /\ BlockSize(amt) \in Nat
  BY HeapAssumption, BlockSizeIs
<1>4. c \in CallRec
  BY <1>3, NoCallIs DEF CallRec
<1>5. SearchFrom(c, largestB4) /\ largestB4 \in 0..Huge
  BY Parts DEF Malloc, RoversOK
<1>6. \A g \in Minis' : g < miniRover => \A a \in FreeIn(g)' : size'[a] <= largestB4
  <2>1. Place = miniRover
    BY <1>1, NoCallIs DEF Place
  <2> QED
    BY <1>2, <2>1 DEF Caches, Before, FreeUpTo
<1> HIDE DEF c
<1> QED
  BY <1>1, <1>2, <1>4, <1>5, <1>6, SearchCaches DEF Steady

\* The loop goes on from the mini-heap h: nothing in it is longer than `seen`,
\* nor long enough.
LEMMA PassOverCaches ==
  ASSUME IInv, IInv', Caches, Steady, call.at \in {"mini", "scan"}, NEW h, h = call.mini, h # 0, NEW seen \in 0..Huge, PassOver(seen),
         miniRover' = h, Minis' = Minis, \A g \in Minis : FreeIn(g)' = FreeIn(g), size' = size,
         FreeUpTo(h, seen), TooSmall(h, call.size)
  PROVE  Caches'
<1>1. Mem /\ RoversOK /\ UserTypes /\ CallOK
  BY Parts
<1>2. h \in Minis /\ \A g \in Minis : g \in Nat /\ g # 0
  BY <1>1, FreeTypes DEF CallOK, Mem, Addr
<1>3. call'.at = "mini" /\ call'.mini = NextMini(h) /\ call'.size = call.size /\ largestB4' = Bigger(seen, largestB4)
  BY <1>1, PassOverIs
<1>4. /\ NextMini(h) \in {0} \cup Minis
      /\ NextMini(h) = 0 => \A g \in Minis : g <= h
      /\ NextMini(h) # 0 => h < NextMini(h) /\ \A g \in Minis : h < g => NextMini(h) <= g
  BY <1>1, <1>2, NextMiniIs DEF Mem
<1>5. \A g \in Minis : NextMini(h) = 0 \/ g < NextMini(h) => g < h \/ g = h
  BY <1>2, <1>4
<1>6. seen \in Nat /\ largestB4 \in Nat /\ seen <= largestB4' /\ largestB4 <= largestB4' /\ largestB4' \in Nat
  <2>1. seen \in Nat /\ largestB4 \in Nat
    BY <1>1, PlaceIs, Sizes DEF Huge
  <2> QED
    BY <1>3, <2>1 DEF Bigger
<1>7. \A g \in Minis : \A a \in FreeIn(g) : size[a] \in Nat
  BY <1>1, FreeTypes DEF Mem
<1>8. Place = h
  BY DEF Place
<1>9. Before'
  <2>1. Place' = (IF NextMini(h) # 0 THEN NextMini(h) ELSE h)
    BY <1>3 DEF Place
  <2>2. ASSUME NEW g \in Minis, g < Place', NEW a \in FreeIn(g) PROVE size[a] <= largestB4'
    <3>1. g < h \/ g = h
      BY <1>5, <2>1, <2>2
    <3>2. g < h => size[a] <= largestB4
      BY <1>8, <2>2 DEF Caches, Before, FreeUpTo
    <3>3. g = h => size[a] <= seen
      BY <2>2 DEF FreeUpTo
    <3>4. size[a] \in Nat
      BY <1>7, <2>2
    <3> QED
      BY <1>6, <3>1, <3>2, <3>3, <3>4
  <2> QED
    BY <2>2 DEF Before, FreeUpTo
<1>10. Scanning'
  BY <1>3 DEF Scanning
<1>11. Passed'
  <2>1. \A g \in Minis : g < h => TooSmall(g, call.size)
    BY <1>2 DEF Caches, Passed
  <2>2. \A g \in Minis : NextMini(h) = 0 \/ g < NextMini(h) => TooSmall(g, call.size)
    BY <1>5, <2>1
  <2>3. \A g \in Minis' : NextMini(h) = 0 \/ g < NextMini(h) => \A a \in FreeIn(g)' : size'[a] < call.size
    BY <2>2 DEF TooSmall
  <2> QED
    BY <1>3, <2>3 DEF Passed, TooSmall
<1> QED
  BY <1>9, <1>10, <1>11 DEF Caches, Steady

LEMMA TryMiniCaches ==
  ASSUME IInv, IInv', Caches, TryMini, NEW h, h = call.mini
  PROVE  Caches'
<1> DEFINE low == call.size <= mh[h].b4rover
           pc == IF low THEN next[h] ELSE mh[h].rover
           lg == IF low THEN 0 ELSE mh[h].b4rover
<1>1. /\ call.at = "mini" /\ h # 0 /\ miniRover' = h /\ QuietHeap /\ freeRover' = freeRover
      /\ IF mh[h].largest >= call.amt /\ call.size <= mh[h].largest
         THEN /\ call' = [call EXCEPT !.at = "scan", !.seen = mh[h].largest, !.pcur = pc, !.largest = lg]
              /\ largestB4' = largestB4
         ELSE PassOver(mh[h].largest)
  BY DEF TryMini, QuietHeap, blocks
<1>2. Mem /\ RoversOK /\ UserTypes /\ CallOK
  BY Parts
<1>3. /\ h \in Minis /\ h \in Addr /\ h \in Nat /\ call.job = "malloc" /\ call.size \in Nat /\ call.amt \in Nat /\ call.amt < call.size
  <2>1. h \in Minis /\ call.job = "malloc" /\ call.size = BlockSize(call.amt) /\ call.amt \in Nat /\ call.amt > 0
    BY <1>1, <1>2, CallFacts DEF CallOK
  <2> QED
    <3>1. h \in Addr /\ h \in Nat
      BY <1>2, <2>1, FreeTypes DEF Mem
    <3>2. call.size \in Nat /\ call.size > call.amt
      BY <2>1, BlockSizeIs
    <3> QED
      BY <2>1, <3>1, <3>2
<1>4. /\ mh[h].largest \in 0..Huge /\ mh[h].largest \in Nat /\ mh[h].b4rover \in Nat /\ mh[h].rover \in Nat
      /\ \A a \in FreeIn(h) : a \in Nat /\ size[a] \in Nat
  <2>1. mh[h] \in MiniRec
    BY <1>2, <1>3 DEF Mem, MemTypes
  <2> QED
    BY <1>2, <1>3, <2>1, FreeTypes DEF Mem, MiniRec
<1>5. Steady /\ Minis' = Minis /\ size' = size /\ \A g \in Minis : FreeIn(g)' = FreeIn(g)
  BY <1>1, QuietSteady
<1>6. MiniBound(h)
  BY <1>3 DEF Caches
<1>7. CASE ~(mh[h].largest >= call.amt /\ call.size <= mh[h].largest)
  <2>1. PassOver(mh[h].largest)
    BY <1>1, <1>7
  <2>2. FreeUpTo(h, mh[h].largest)
    BY <1>6 DEF MiniBound
  <2>3. mh[h].largest < call.size
    BY <1>3, <1>4, <1>7
  <2>4. TooSmall(h, call.size)
    BY <1>3, <1>4, <2>2, <2>3 DEF FreeUpTo, TooSmall
  <2> QED
    BY <1>1, <1>4, <1>5, <2>1, <2>2, <2>4, PassOverCaches
<1>8. CASE mh[h].largest >= call.amt /\ call.size <= mh[h].largest
  <2>1. call' = [call EXCEPT !.at = "scan", !.seen = mh[h].largest, !.pcur = pc, !.largest = lg] /\ largestB4' = largestB4
    BY <1>1, <1>8
  <2>2. DOMAIN call = DOMAIN NoCall
    BY <1>2, CallFacts
  <2>3. \A a \in FreeIn(h) : a < pc => size[a] <= lg /\ size[a] < call.size
    <3>1. CASE low
      <4>1. h \in {h} \cup FreeIn(h)
        OBVIOUS
      <4>2. Linked(h, FreeIn(h), next, prev, h) /\ next[h] \in Addr
        BY <1>2, <1>3, <4>1, LinkTypes DEF Mem
      <4>3. \A a \in FreeIn(h) : h < a
        BY <1>2, <1>3, BlocksAre DEF Mem
      <4>4. \A a \in FreeIn(h) : next[h] <= a
        BY <4>2, <4>3 DEF Linked
      <4>5. next[h] \in Nat
        BY <4>2, Sizes DEF Addr
      <4> QED
        BY <1>4, <3>1, <4>4, <4>5
    <3>2. CASE ~low
      BY <1>3, <1>4, <1>6, <3>2 DEF MiniBound
    <3> QED
      BY <3>1, <3>2
  <2> HIDE DEF low, pc, lg
  <2>4. /\ call'.at = "scan" /\ call'.mini = h /\ call'.size = call.size /\ call'.seen = mh[h].largest
        /\ call'.pcur = pc /\ call'.largest = lg
    BY <2>1, <2>2 DEF NoCall
  <2>5. Before'
    <3>1. Place' = h /\ Place = h
      BY <1>1, <2>4 DEF Place
    <3>2. Place' <= Place /\ largestB4 <= largestB4'
      BY <1>2, <1>3, <2>1, <3>1, PlaceIs
    <3> QED
      BY <1>5, <3>2, BeforeStays DEF Caches, Steady
  <2>6. Scanning'
    <3>1. FreeUpTo(h, mh[h].largest)
      BY <1>6 DEF MiniBound
    <3>2. /\ \A a \in FreeIn(h)' : size'[a] <= mh[h].largest
          /\ \A a \in FreeIn(h)' : a < pc => size'[a] <= lg /\ size'[a] < call.size
      BY <1>3, <1>5, <2>3, <3>1 DEF FreeUpTo
    <3>3. ASSUME NEW g \in Minis', g = call'.mini PROVE ScanAt(g)'
      <4>1. g = h
        BY <2>4, <3>3
      <4>2. ScanAt(h)'
        BY <1>1, <2>4, <3>2 DEF ScanAt, FreeUpTo
      <4> QED
        BY <4>1, <4>2
    <3> QED
      BY <3>3 DEF Scanning
  <2>7. Passed'
    <3>1. \A g \in Minis : g < h => TooSmall(g, call.size)
      BY <1>1 DEF Caches, Passed
    <3>2. \A g \in Minis' : g < h => \A a \in FreeIn(g)' : size'[a] < call.size
      BY <1>5, <3>1 DEF TooSmall
    <3> QED
      BY <1>1, <2>4, <3>2 DEF Passed, TooSmall
  <2> QED
    BY <1>5, <2>5, <2>6, <2>7 DEF Caches, Steady
<1> QED
  BY <1>7, <1>8

LEMMA ScanOnCaches ==
  ASSUME IInv, IInv', Caches, ScanOn, NEW h, h = call.mini, NEW c, c = call.pcur
  PROVE  Caches'
<1> DEFINE lg == Bigger(size[c], call.largest)
<1>1. Mem /\ Mem' /\ RoversOK /\ UserTypes /\ CallOK
  BY Parts, PartsNext
<1>2. /\ call.at = "scan" /\ size[c] < call.size /\ UNCHANGED <<miniRover, freeRover>> /\ h \in Minis /\ c \in {h} \cup FreeIn(h)
      /\ IF next[c] = h THEN PassOver(call.seen)
         ELSE call' = [call EXCEPT !.pcur = next[c], !.largest = lg] /\ largestB4' = largestB4
      /\ next[c] # h => mh' = mh
      /\ next[c] = h => mh' = [mh EXCEPT ![h].largest = lg]
  BY <1>1 DEF ScanOn, CallOK
<1>3. /\ Minis' = Minis /\ \A g \in Minis : FreeIn(g)' = FreeIn(g)
      /\ build' = build /\ moved' = moved /\ size' = size
  BY <1>1, ScanOnMem DEF ScanOn, Kept
<1>4. h \in Nat /\ h \in Addr /\ h # 0 /\ \A g \in Minis : \A a \in FreeIn(g) : size[a] \in Nat /\ a \in Nat
  BY <1>1, <1>2, FreeTypes DEF Mem, Addr
<1>5. ScanAt(h)
  BY <1>2 DEF Caches, Scanning
<1>6. call.size \in Nat /\ call.seen \in 0..Huge /\ call.largest \in Nat /\ DOMAIN call = DOMAIN NoCall
  BY <1>1, CallFacts
<1>7. size[c] \in Nat /\ c \in Nat /\ Linked(h, FreeIn(h), next, prev, c)
  <2>1. c \in Addr /\ Linked(h, FreeIn(h), next, prev, c)
    BY <1>1, <1>2, LinkTypes DEF Mem
  <2> QED
    BY <1>1, <2>1, Sizes DEF Addr, Mem, MemTypes
<1>8. lg \in Nat /\ size[c] <= lg /\ call.largest <= lg
  BY <1>6, <1>7 DEF Bigger
<1> HIDE DEF lg
<1>9. \A a \in FreeIn(h) : a < c \/ a = c => size[a] <= lg /\ size[a] < call.size
  BY <1>2, <1>4, <1>5, <1>6, <1>7, <1>8 DEF ScanAt
<1>10. \A g \in Minis' : NoBigger(g)
  BY <1>3, <1>4 DEF NoBigger
<1>11. FreeRoverOK'
  BY <1>2, <1>3 DEF Caches, FreeRoverOK
<1>12. CASE next[c] = h
  <2>1. \A a \in FreeIn(h) : size[a] <= lg /\ size[a] < call.size
    <3>1. \A a \in FreeIn(h) : ~(c < a)
      BY <1>7, <1>12 DEF Linked
    <3> QED
      BY <1>2, <1>4, <1>7, <1>9, <3>1
  <2>2. \A g \in Minis' : MiniBound(g)'
    <3>1. ASSUME NEW g \in Minis', g # h PROVE MiniBound(g)'
      <4>1. mh'[g] = mh[g]
        BY <1>1, <1>2, <1>3, <1>12, <3>1 DEF Minis, Mem, MemTypes
      <4> QED
        BY <1>3, <3>1, <4>1 DEF Caches, MiniBound, FreeUpTo
    <3>2. MiniBound(h)'
      <4>1. mh'[h].largest = lg /\ mh'[h].rover = mh[h].rover /\ mh'[h].b4rover = mh[h].b4rover
        <5>1. mh[h] \in MiniRec /\ mh \in [Addr -> MiniRec]
          BY <1>1, <1>4 DEF Mem, MemTypes
        <5> QED
          BY <1>2, <1>4, <1>12, <5>1 DEF MiniRec
      <4>2. MiniBound(h)
        BY <1>2 DEF Caches
      <4> QED
        BY <1>2, <1>3, <2>1, <4>1, <4>2 DEF MiniBound, FreeUpTo
    <3> QED
      BY <3>1, <3>2
  <2>3. Steady
    BY <1>10, <1>11, <2>2 DEF Steady
  <2>4. PassOver(call.seen) /\ miniRover' = h
    BY <1>2, <1>5, <1>12 DEF ScanAt
  <2>5. FreeUpTo(h, call.seen) /\ TooSmall(h, call.size)
    BY <1>5, <2>1 DEF ScanAt, TooSmall
  <2> QED
    BY <1>2, <1>3, <1>4, <1>6, <2>3, <2>4, <2>5, PassOverCaches
<1>13. CASE next[c] # h
  <2>1. call' = [call EXCEPT !.pcur = next[c], !.largest = lg] /\ largestB4' = largestB4 /\ mh' = mh
    BY <1>2, <1>13
  <2>2. /\ call'.at = "scan" /\ call'.mini = h /\ call'.size = call.size /\ call'.seen = call.seen
        /\ call'.pcur = next[c] /\ call'.largest = lg
    BY <1>2, <1>6, <2>1 DEF NoCall
  <2>3. \A g \in Minis' : MiniBound(g)'
    BY <1>3, <2>1 DEF Caches, MiniBound, FreeUpTo
  <2>4. Steady
    BY <1>10, <1>11, <2>3 DEF Steady
  <2>5. Before'
    <3>1. Place' = h /\ Place = h
      BY <1>2, <1>4, <2>2 DEF Place
    <3>2. Place' <= Place /\ largestB4 <= largestB4'
      BY <1>1, <1>4, <2>1, <3>1, PlaceIs
    <3> QED
      BY <2>4, <3>2, BeforeStays DEF Caches, Steady
  <2>6. \A a \in FreeIn(h) : a < next[c] => a < c \/ a = c
    BY <1>2, <1>4, <1>7, <1>13 DEF Linked
  <2>7. ScanAt(h)'
    <3>1. \A a \in FreeIn(h)' : a < next[c] => size'[a] <= lg /\ size'[a] < call.size
      BY <1>2, <1>3, <1>9, <2>6
    <3>2. \A a \in FreeIn(h)' : size'[a] <= call.seen
      BY <1>2, <1>3, <1>5 DEF ScanAt, FreeUpTo
    <3>3. miniRover' = h
      BY <1>2, <1>5 DEF ScanAt
    <3> QED
      BY <2>2, <3>1, <3>2, <3>3 DEF ScanAt, FreeUpTo
  <2>8. Scanning'
    <3>1. ASSUME NEW g \in Minis', g = call'.mini PROVE ScanAt(g)'
      <4>1. g = h
        BY <2>2, <3>1
      <4> QED
        BY <2>7, <4>1
    <3> QED
      BY <3>1 DEF Scanning
  <2>9. Passed'
    <3>1. \A g \in Minis : g < h => TooSmall(g, call.size)
      BY <1>2 DEF Caches, Passed
    <3>2. \A g \in Minis' : g < h => \A a \in FreeIn(g)' : size'[a] < call.size
      BY <1>3, <3>1 DEF TooSmall
    <3> QED
      BY <1>4, <2>2, <3>2 DEF Passed, TooSmall
  <2> QED
    BY <2>4, <2>5, <2>8, <2>9 DEF Caches, Steady
<1> QED
  BY <1>12, <1>13

LEMMA CarveCaches ==
  ASSUME IInv, IInv', Caches, Carve, NEW h, h = call.mini, NEW c, c = call.pcur
  PROVE  Caches'
<1> SUFFICES ASSUME NEW n, n = c + call.size PROVE Caches'
  OBVIOUS
<1>1. Mem /\ Mem' /\ RoversOK /\ UserTypes /\ CallOK
  BY Parts, PartsNext
<1>2. CarveIs(h, c) /\ call.at = "scan" /\ call' = NoCall
  BY <1>1, CarveMem DEF Carve, Return
<1>3. /\ h \in Minis /\ c \in FreeIn(h) /\ c \in Addr /\ UNCHANGED rovers /\ build' = build /\ moved' = moved /\ size[c] \in Nat
      /\ \A a \in Addr : a # c /\ a # n => size'[a] = size[a]
      /\ \A g \in Addr : g # h => mh'[g] = mh[g]
      /\ mh'[h].largest = mh[h].largest /\ mh'[h].b4rover = call.largest
      /\ \/ /\ mh'[h].rover = n /\ size'[n] = size[c] - call.size /\ size[n] = 0
            /\ Changed(h, Blocks(h) \cup {n}, (FreeIn(h) \ {c}) \cup {n})
         \/ /\ mh'[h].rover = prev[c] /\ size' = size
            /\ Changed(h, Blocks(h), FreeIn(h) \ {c})
  BY <1>2 DEF CarveIs
<1>4. ScanAt(h) /\ MiniBound(h)
  BY <1>2, <1>3 DEF Caches, Scanning
<1>5. /\ \A g \in Minis : g \in Addr /\ \A a \in FreeIn(g) : a \in Addr /\ a \in Nat /\ size[a] \in Nat
      /\ mh[h].largest \in Nat /\ c \in Nat
  BY <1>1, <1>3, FreeTypes DEF Mem
<1>6. call.size \in Nat /\ call.largest \in Nat
  <2>1. call.largest \in 0..Top
    BY <1>1, CallFacts
  <2> QED
    BY <1>1, <2>1, CallFacts, Sizes
<1>7. Minis' = Minis /\ \A g \in Minis : g # h => FreeIn(g)' = FreeIn(g)
  BY <1>3 DEF Changed
<1>8. \A g \in Minis : \A a \in FreeIn(g) : g # h => size'[a] = size[a]
  <2>1. ASSUME NEW g \in Minis, NEW a \in FreeIn(g), g # h PROVE size'[a] = size[a]
    <3>1. a \in Blocks(g) /\ size[a] > 0 /\ a \in Addr /\ c \in Blocks(h)
      BY <1>1, <1>3, <2>1, BlocksAre DEF Mem, FreeIn
    <3>2. a # c
      BY <1>1, <1>3, <2>1, <3>1, OtherMini DEF Mem
    <3>3. size[n] = 0 => a # n
      BY <3>1
    <3> QED
      BY <1>3, <3>1, <3>2, <3>3
  <2> QED
    BY <2>1
<1>9. ASSUME NEW g \in Minis', g # h PROVE NoBigger(g) /\ MiniBound(g)'
  <2>1. NoBigger(g)
    BY <1>5, <1>7, <1>8, <1>9 DEF NoBigger
  <2>2. MiniBound(g)'
    <3>1. mh'[g] = mh[g]
      BY <1>3, <1>5, <1>7, <1>9
    <3> QED
      BY <1>7, <1>8, <1>9, <3>1 DEF Caches, MiniBound, FreeUpTo
  <2> QED
    BY <2>1, <2>2
<1>10. NoBigger(h) /\ MiniBound(h)'
  <2>1. CASE /\ mh'[h].rover = n /\ size'[n] = size[c] - call.size /\ size[n] = 0
             /\ Changed(h, Blocks(h) \cup {n}, (FreeIn(h) \ {c}) \cup {n})
    <3>1. FreeIn(h)' = (FreeIn(h) \ {c}) \cup {n}
      BY <2>1 DEF Changed
    <3>2. \A a \in FreeIn(h)' : a # n => a \in FreeIn(h) /\ size'[a] = size[a]
      BY <1>3, <1>5, <3>1
    <3>3. size'[n] <= size[c] /\ size'[n] <= mh[h].largest
      <4>1. size[c] <= mh[h].largest
        BY <1>3, <1>4 DEF MiniBound, FreeUpTo
      <4> QED
        BY <1>3, <1>5, <1>6, <2>1, <4>1
    <3>4. NoBigger(h)
      <4>1. ASSUME NEW a \in FreeIn(h)' PROVE \E b \in FreeIn(h) : size'[a] <= size[b]
        <5>1. CASE a = n
          BY <1>3, <3>3, <5>1
        <5>2. CASE a # n
          BY <1>3, <1>5, <3>2, <5>2
        <5> QED
          BY <5>1, <5>2
      <4> QED
        BY <1>3, <4>1 DEF NoBigger
    <3>5. FreeUpTo(h, mh[h].largest)'
      <4>1. \A a \in FreeIn(h)' : size'[a] <= mh[h].largest
        BY <1>4, <3>2, <3>3 DEF MiniBound, FreeUpTo
      <4> QED
        BY <1>3, <4>1 DEF FreeUpTo
    <3>6. \A a \in FreeIn(h)' : a < n => size'[a] <= call.largest
      <4>1. ASSUME NEW a \in FreeIn(h), a # c, a < n PROVE a < c
        <5>1. c \in Blocks(h) /\ a \in Blocks(h) /\ size[a] \in Int /\ size[a] > 0
          BY <1>1, <1>3, <4>1, BlocksAre DEF Mem
        <5>2. c < a => c + size[c] <= a
          BY <1>1, <1>3, <5>1, BlockFits DEF Mem
        <5>3. call.size <= size[c]
          BY <1>2 DEF CarveIs
        <5> QED
          BY <1>3, <1>5, <1>6, <4>1, <5>2, <5>3
      <4>2. ASSUME NEW a \in FreeIn(h)', a < n PROVE size'[a] <= call.largest
        <5>1. a # n
          <6>1. n \in Int
            BY <1>5, <1>6
          <6> QED
            BY <4>2, <6>1
        <5>2. a \in FreeIn(h) /\ a # c /\ size'[a] = size[a]
          BY <3>1, <3>2, <4>2, <5>1
        <5> QED
          BY <1>4, <4>1, <4>2, <5>2 DEF ScanAt
      <4> QED
        BY <4>2
    <3> QED
      BY <1>3, <2>1, <3>4, <3>5, <3>6 DEF MiniBound
  <2>2. CASE /\ mh'[h].rover = prev[c] /\ size' = size
             /\ Changed(h, Blocks(h), FreeIn(h) \ {c})
    <3>1. FreeIn(h)' = FreeIn(h) \ {c}
      BY <2>2 DEF Changed
    <3>2. NoBigger(h)
      BY <1>3, <1>5, <2>2, <3>1 DEF NoBigger
    <3>3. FreeUpTo(h, mh[h].largest)'
      BY <1>3, <1>4, <2>2, <3>1 DEF MiniBound, FreeUpTo
    <3>4. \A a \in FreeIn(h)' : a < prev[c] => size'[a] <= call.largest
      <4>1. prev[c] < c /\ prev[c] \in Int
        <5>1. Linked(h, FreeIn(h), next, prev, c) /\ c # h
          BY <1>1, <1>3, LinkTypes, BlocksAre DEF Mem
        <5> QED
          BY <5>1 DEF Linked
      <4> QED
        BY <1>4, <1>5, <1>3, <2>2, <3>1, <4>1 DEF ScanAt
    <3> QED
      BY <1>3, <2>2, <3>2, <3>3, <3>4 DEF MiniBound
  <2> QED
    BY <1>3, <2>1, <2>2
<1>11. FreeRoverOK'
  BY <1>3, <1>7 DEF Caches, FreeRoverOK, rovers
<1>12. Steady
  BY <1>9, <1>10, <1>11 DEF Steady
<1> QED
  BY <1>2, <1>3, <1>4, <1>12, NoCallIs, CachesBy DEF ScanAt, rovers

-----------------------------------------------------------------------------
(* The cached sizes: growing, _nexpand                                      *)

\* A block is added that is still to be freed: no free block is new.
LEMMA AddedCaches ==
  ASSUME IInv, IInv', Caches, NEW a, Added(a), call.at \in {"mini", "expand", "shrink"}, call.at = "mini" => call.mini = 0,
         build = "pages" \/ build = "slices"
  PROVE  Caches'
<1>1. Mem /\ Mem' /\ UserTypes /\ UserTypes'
  BY Parts, PartsNext
<1>2. /\ UNCHANGED <<build, moved, rovers>> /\ used' = used \cup {a}
      /\ call' = [call EXCEPT !.at = "nfree", !.pcur = a]
      /\ \A x \in Addr : x \notin used' => size'[x] = size[x]
      /\ Minis \subseteq Minis'
      /\ \A g \in Minis : /\ FreeIn(g)' = FreeIn(g) /\ mh'[g].rover = mh[g].rover /\ mh'[g].b4rover = mh[g].b4rover
                          /\ mh'[g].largest \in {mh[g].largest, Huge}
      /\ \A g \in Minis' : g \notin Minis => FreeIn(g)' = {}
  BY DEF Added
<1>3. call'.at = "nfree"
  <2>1. call \in CallRec
    BY <1>1, CallFacts
  <2> QED
    BY <1>2, <2>1 DEF CallRec
<1>4. \A g \in Minis : \A x \in FreeIn(g) : size'[x] = size[x] /\ size[x] \in Nat /\ size[x] <= Top
  <2>1. ASSUME NEW g \in Minis, NEW x \in FreeIn(g) PROVE size'[x] = size[x] /\ size[x] \in Nat /\ size[x] <= Top
    <3>1. x \in Addr /\ size[x] \in Nat /\ size[x] <= Top
      BY <1>1, <2>1, FreeTypes, SizesFit DEF Mem, Fits
    <3>2. x \notin used'
      <4>1. x \in FreeIn(g)' /\ g \in Minis'
        BY <1>2, <2>1
      <4> QED
        BY <4>1 DEF FreeIn
    <3> QED
      BY <1>2, <3>1, <3>2
  <2> QED
    BY <2>1
<1>5. ASSUME NEW g \in Minis' PROVE NoBigger(g) /\ MiniBound(g)'
  <2>1. CASE g \in Minis
    <3>1. NoBigger(g)
      BY <1>2, <1>4, <2>1 DEF NoBigger
    <3>2. \A x \in FreeIn(g) : size[x] <= mh'[g].largest
      <4>1. \A x \in FreeIn(g) : size[x] <= mh[g].largest /\ size[x] <= Huge
        BY <1>4, <2>1, Sizes DEF Caches, MiniBound, FreeUpTo, Huge
      <4> QED
        BY <1>2, <2>1, <4>1
    <3>3. MiniBound(g)'
      BY <1>2, <1>4, <2>1, <3>2 DEF Caches, MiniBound, FreeUpTo
    <3> QED
      BY <3>1, <3>3
  <2>2. CASE g \notin Minis
    BY <1>2, <2>2 DEF NoBigger, MiniBound, FreeUpTo
  <2> QED
    BY <2>1, <2>2
<1>6. FreeRoverOK'
  BY <1>2 DEF Caches, FreeRoverOK, rovers
<1>7. Steady
  BY <1>5, <1>6 DEF Steady
<1> QED
  BY <1>2, <1>3, <1>7, CachesBy DEF rovers

LEMMA GrowCaches ==
  ASSUME IInv, IInv', Caches, GrowSlices \/ ExpandCut \/ (CreateMini /\ ~(UNCHANGED blocks))
  PROVE  Caches'
<1>1. Mem /\ UserTypes /\ CallOK /\ UsersOK /\ (build = "slices" \/ build = "pages")
  BY Parts, HeapAssumption DEF Mem, MemTypes
<1>2. CASE GrowSlices
  <2> SUFFICES ASSUME NEW a, a = call'.pcur PROVE Caches'
    OBVIOUS
  <2>1. Added(a)
    BY <1>1, <1>2, GrowMem
  <2>2. call.at \in {"mini", "expand"} /\ (call.at = "mini" => call.mini = 0)
    BY <1>2 DEF GrowSlices, Growing
  <2> QED
    BY <1>1, <2>1, <2>2, AddedCaches
<1>3. CASE ExpandCut
  <2> SUFFICES ASSUME NEW p, p = call.ptr, NEW h, h = MiniOf(p), NEW s, s = call.size, NEW a, a = p + s PROVE Caches'
    OBVIOUS
  <2>1. Added(a)
    BY <1>1, <1>3, ExpandCutMem
  <2>2. call.at = "expand"
    BY <1>3 DEF ExpandCut
  <2> QED
    BY <1>1, <2>1, <2>2, AddedCaches
<1>4. CASE CreateMini /\ ~(UNCHANGED blocks)
  <2>1. PICK h, n : CreatedAt(h, n)
    BY <1>1, <1>4, CreateMiniIs
  <2> SUFFICES ASSUME NEW a, a = h + Hdr PROVE Caches'
    OBVIOUS
  <2>2. Added(a)
    BY <1>1, <1>4, <2>1, CreatedMem
  <2>3. call.at = "shrink"
    BY <1>1, <1>4, CreateMiniIs
  <2> QED
    BY <1>1, <2>2, <2>3, AddedCaches
<1> QED
  BY <1>2, <1>3, <1>4

\* A free block is taken in, or its front: what is left of it is shorter.
LEMMA ExpandTakeCaches ==
  ASSUME IInv, IInv', Caches, ExpandTake, NEW p, p = call.ptr, NEW n, n = p + size[p], NEW h, h = MiniOf(p)
  PROVE  Caches'
<1>1. Mem /\ Mem' /\ RoversOK /\ UserTypes /\ CallOK /\ UsersOK
  BY Parts, PartsNext
<1>2. TakenIn(h, p, n) /\ call.at = "expand"
  BY <1>1, ExpandTakeMem DEF ExpandTake
<1>3. /\ NextFree(h, p, n) /\ h \in Minis /\ UNCHANGED <<build, moved, used, rovers, call>>
      /\ \A g \in Addr : g # h => mh'[g] = mh[g]
      /\ mh'[h].rover = TakenRover(h, n) /\ mh'[h].b4rover = mh[h].b4rover /\ mh'[h].largest = mh[h].largest
      /\ n \in FreeIn(h) /\ p \in used /\ p \in Blocks(h)
  BY <1>2 DEF TakenIn, TakenMini, NextFree
<1>4. /\ \A g \in Minis : g \in Addr /\ \A a \in FreeIn(g) : a \in Addr /\ a \in Nat /\ size[a] \in Nat
      /\ mh[h].largest \in Nat /\ mh[h].b4rover \in Nat /\ mh[h].rover \in Nat
  BY <1>1, <1>3, FreeTypes DEF Mem
<1>5. /\ prev[n] < n /\ prev[n] \in Int /\ n \in Int /\ size[n] \in Int /\ n \in Addr
      /\ mh[h].rover \in {h} \cup FreeIn(h) /\ h < n
  <2>1. mh[h].rover \in {h} \cup FreeIn(h) /\ \A a \in FreeIn(h) : h < a
    BY <1>1, <1>3, MiniIs DEF Mem
  <2> QED
    BY <1>1, <1>3, <2>1, NextFreeFacts DEF Mem
<1>6. MiniBound(h)
  BY <1>3 DEF Caches
<1>7. Minis' = Minis /\ \A g \in Minis : g # h => FreeIn(g)' = FreeIn(g)
  BY <1>2 DEF TakenIn, AllGone, FrontGone, Changed
<1>8. \A g \in Minis : g # h => \A a \in FreeIn(g) : size'[a] = size[a]
  <2>1. ASSUME NEW g \in Minis, NEW a \in FreeIn(g), g # h PROVE size'[a] = size[a]
    <3>1. a \in Blocks(g) /\ size[a] > 0 /\ a \in Addr /\ a \notin used
      BY <1>1, <2>1, BlocksAre DEF Mem, FreeIn
    <3>2. a # n /\ a # p
      BY <1>1, <1>3, <2>1, <3>1, OtherMini DEF Mem, FreeIn
    <3>3. CASE AllGone(h, p, n)
      BY <3>1, <3>2, <3>3 DEF AllGone
    <3>4. CASE \E n2 : FrontGone(h, p, n, n2)
      <4>1. PICK n2 : FrontGone(h, p, n, n2)
        BY <3>4
      <4>2. n < n2 /\ n2 < n + size[n] /\ n2 \in Addr
        BY <4>1 DEF FrontGone
      <4>3. size[n2] = 0
        <5>1. n \in Blocks(h) /\ n2 \in Int
          BY <1>3, <4>2, Sizes DEF FreeIn, Addr
        <5> QED
          BY <1>1, <1>3, <4>2, <5>1, InsideBlock DEF Mem
      <4>4. a # n2
        BY <3>1, <4>3
      <4> QED
        BY <3>1, <3>2, <4>1, <4>4 DEF FrontGone
    <3> QED
      BY <1>2, <3>3, <3>4 DEF TakenIn
  <2> QED
    BY <2>1
<1>9. ASSUME NEW g \in Minis', g # h PROVE NoBigger(g) /\ MiniBound(g)'
  <2>1. NoBigger(g)
    BY <1>4, <1>7, <1>8, <1>9 DEF NoBigger
  <2>2. MiniBound(g)'
    <3>1. mh'[g] = mh[g]
      BY <1>3, <1>4, <1>7, <1>9
    <3> QED
      BY <1>7, <1>8, <1>9, <3>1 DEF Caches, MiniBound, FreeUpTo
  <2> QED
    BY <2>1, <2>2
\* what is before the rover was before it
<1>10. \A a \in FreeIn(h) : a < TakenRover(h, n) => a < mh[h].rover
  <2>1. ASSUME NEW a \in FreeIn(h), a < TakenRover(h, n) PROVE a < mh[h].rover
    <3>1. a \in Nat
      BY <1>3, <1>4, <2>1
    <3>2. CASE mh[h].rover = n
      BY <1>5, <2>1, <3>1, <3>2 DEF TakenRover
    <3> QED
      BY <2>1, <3>2 DEF TakenRover
  <2> QED
    BY <2>1
<1>11. \A a \in FreeIn(h) : a # n => a # p
  BY <1>3 DEF FreeIn
<1>12. NoBigger(h) /\ MiniBound(h)'
  <2>1. CASE AllGone(h, p, n)
    <3>1. FreeIn(h)' = FreeIn(h) \ {n}
      BY <2>1 DEF AllGone, Changed
    <3>2. \A a \in FreeIn(h)' : a \in FreeIn(h) /\ size'[a] = size[a] /\ size[a] \in Nat
      BY <1>3, <1>4, <1>11, <2>1, <3>1 DEF AllGone
    <3>3. NoBigger(h)
      <4>1. ASSUME NEW a \in FreeIn(h)' PROVE \E b \in FreeIn(h) : size'[a] <= size[b]
        <5>1. a \in FreeIn(h) /\ size'[a] <= size[a]
          BY <3>2
        <5> QED
          BY <5>1
      <4> QED
        BY <1>3, <4>1 DEF NoBigger
    <3>4. MiniBound(h)'
      BY <1>3, <1>6, <1>10, <3>2 DEF MiniBound, FreeUpTo
    <3> QED
      BY <3>3, <3>4
  <2>2. CASE \E n2 : FrontGone(h, p, n, n2)
    <3>1. PICK n2 : FrontGone(h, p, n, n2)
      BY <2>2
    <3>2. /\ FreeIn(h)' = (FreeIn(h) \ {n}) \cup {n2} /\ n < n2 /\ n2 < n + size[n] /\ size'[n2] < size[n] /\ n2 \in Addr
          /\ \A x \in Addr : x # p /\ x # n /\ x # n2 => size'[x] = size[x]
      BY <3>1 DEF FrontGone, Changed
    <3>3. \A a \in FreeIn(h)' : a # n2 => a \in FreeIn(h) /\ size'[a] = size[a] /\ size[a] \in Nat
      BY <1>3, <1>4, <1>11, <3>2
    <3>4. n2 \in FreeIn(h)' /\ size'[n2] \in Int /\ n2 \in Int
      BY <1>1, <1>3, <1>7, <3>2, FreeTypesNext, Sizes DEF Mem, Addr
    <3>5. NoBigger(h)
      <4>1. ASSUME NEW a \in FreeIn(h)' PROVE \E b \in FreeIn(h) : size'[a] <= size[b]
        <5>1. CASE a = n2
          BY <1>3, <1>5, <3>2, <3>4, <5>1
        <5>2. CASE a # n2
          BY <3>3, <5>2
        <5> QED
          BY <5>1, <5>2
      <4> QED
        BY <1>3, <4>1 DEF NoBigger
    <3>6. size'[n2] <= mh[h].largest
      <4>1. size[n] <= mh[h].largest
        BY <1>3, <1>6 DEF MiniBound, FreeUpTo
      <4> QED
        BY <1>4, <1>5, <3>2, <3>4, <4>1
    <3>7. n2 < TakenRover(h, n) => size'[n2] <= mh[h].b4rover
      <4>1. ASSUME n2 < TakenRover(h, n) PROVE size'[n2] <= mh[h].b4rover
        <5>1. n < mh[h].rover
          BY <1>4, <1>5, <3>2, <3>4, <4>1 DEF TakenRover
        <5>2. size[n] <= mh[h].b4rover
          BY <1>3, <1>6, <5>1 DEF MiniBound
        <5> QED
          BY <1>4, <1>5, <3>2, <3>4, <5>2
      <4> QED
        BY <4>1
    <3>8. MiniBound(h)'
      <4>1. \A a \in FreeIn(h)' : size'[a] <= mh[h].largest
        BY <1>6, <3>3, <3>6 DEF MiniBound, FreeUpTo
      <4>2. \A a \in FreeIn(h)' : a < TakenRover(h, n) => size'[a] <= mh[h].b4rover
        BY <1>6, <1>10, <3>3, <3>7 DEF MiniBound
      <4> QED
        BY <1>3, <4>1, <4>2 DEF MiniBound, FreeUpTo
    <3> QED
      BY <3>5, <3>8
  <2> QED
    BY <1>2, <2>1, <2>2 DEF TakenIn
<1>13. FreeRoverOK'
  BY <1>3, <1>7 DEF Caches, FreeRoverOK, rovers
<1>14. Steady
  BY <1>9, <1>12, <1>13 DEF Steady
<1> QED
  BY <1>2, <1>3, <1>14, CachesBy DEF rovers

-----------------------------------------------------------------------------
(* The cached sizes: _nfree                                                 *)

\* The block is joined with its neighbours and noted where it counts.
LEMMA FreedBound ==
  ASSUME Mem, Mem', Caches, NEW h, NEW f, FreedIs(h, f)
  PROVE  /\ Minis' = Minis /\ \A g \in Minis : g # h => FreeIn(g)' = FreeIn(g)
         /\ \A g \in Minis : g # h => \A a \in FreeIn(g) : size'[a] = size[a]
         /\ \A g \in Minis' : MiniBound(g)'
         /\ \A g \in Minis' : g # h => NoBigger(g)
         /\ mh[h].largest <= mh'[h].largest
<1> DEFINE at == FreedAt(h, f)
           len == FreedLen(h, f)
           rv == FreedRover(h, f)
<1>1. /\ h \in Minis /\ f \in Blocks(h) /\ Changed(h, FreedBlocks(h, f), FreedList(h, f))
      /\ \A g \in Addr : g # h => mh'[g] = mh[g]
      /\ Freeable(h, f, PrevOf(h, f), NextOf(h, f)) /\ FreedHeap(h, f, PrevOf(h, f), NextOf(h, f))
  BY DEF FreedIs
<1>2. Minis' = Minis /\ (\A g \in Minis : g # h => FreeIn(g)' = FreeIn(g)) /\ FreeIn(h)' = FreedList(h, f)
  BY <1>1 DEF Changed
<1>3. \A g \in Minis : g \in Addr /\ \A a \in FreeIn(g) : a \in Addr /\ a \in Nat /\ size[a] \in Nat
  BY FreeTypes DEF Mem
<1>4. /\ mh'[h].rover = rv /\ mh'[h].largest = Bigger(mh[h].largest, len)
      /\ mh'[h].b4rover = (IF at < rv THEN Bigger(mh[h].b4rover, len) ELSE mh[h].b4rover)
      /\ len \in 0..Top /\ mh[h].largest \in 0..Huge /\ mh[h].b4rover \in 0..Top
  BY FreedBounds
<1>5. /\ size'[at] = len
      /\ \A a \in FreedBlocks(h, f) : a # at => size'[a] = size[a]
      /\ at \in FreedBlocks(h, f) /\ Gone(h, f) \subseteq Blocks(h)
  BY <1>1, FreedSize, FreedFacts DEF Mem
<1>6. \A g \in Minis : g # h => \A a \in FreeIn(g) : size'[a] = size[a]
  <2>1. ASSUME NEW g \in Minis, NEW a \in FreeIn(g), g # h PROVE size'[a] = size[a]
    <3>1. a \in Blocks(g) /\ a \in Addr
      BY <1>3, <2>1, BlocksAre DEF Mem
    <3>2. a \notin Blocks(h)
      BY <1>1, <2>1, <3>1, OtherMini DEF Mem
    <3>3. a \notin Gone(h, f) /\ a # at
      BY <1>5, <3>2 DEF FreedBlocks
    <3> QED
      BY <1>1, <3>1, <3>3 DEF FreedHeap
  <2> QED
    BY <2>1
<1>7. ASSUME NEW g \in Minis', g # h PROVE NoBigger(g) /\ MiniBound(g)'
  <2>1. NoBigger(g)
    BY <1>2, <1>3, <1>6, <1>7 DEF NoBigger
  <2>2. MiniBound(g)'
    <3>1. mh'[g] = mh[g]
      BY <1>1, <1>2, <1>3, <1>7
    <3> QED
      BY <1>2, <1>6, <1>7, <3>1 DEF Caches, MiniBound, FreeUpTo
  <2> QED
    BY <2>1, <2>2
<1>8. \A a \in FreeIn(h)' : a = at \/ (a # at /\ a \in FreeIn(h) /\ size'[a] = size[a])
  <2>1. \A a \in FreeIn(h) : a \in Blocks(h)
    BY <1>1, BlocksAre DEF Mem
  <2> QED
    BY <1>2, <1>5, <2>1 DEF FreedList, FreedBlocks
<1>9. rv \in Int /\ mh[h].rover \in Int /\ rv <= mh[h].rover
  <2>1. /\ f \in Int /\ f \notin FreeIn(h) /\ h < f /\ h \in Int /\ Behind(f) \in Int /\ f < Behind(f)
    BY <1>1, FreedFacts DEF Mem
  <2>2. Placed(h, f, PrevOf(h, f), NextOf(h, f))
    BY <1>1 DEF Freeable
  <2>3. mh[h].rover \in {h} \cup FreeIn(h) /\ mh[h].rover \in Int
    BY <1>1, <1>3, <2>1, MiniIs DEF Mem
  <2>4. PrevOf(h, f) \in Int /\ PrevOf(h, f) < f
    BY <2>2 DEF Placed
  <2>5. mh[h].rover # f
    BY <2>1, <2>3
  <2> QED
    BY <2>1, <2>3, <2>4, <2>5 DEF FreedRover
<1>10. len \in Nat /\ mh[h].largest \in Nat /\ mh[h].b4rover \in Nat
  BY <1>4, Sizes DEF Huge
<1> HIDE DEF at, len, rv
<1>11. /\ mh[h].largest <= mh'[h].largest /\ len <= mh'[h].largest /\ mh'[h].largest \in Nat
       /\ mh[h].b4rover <= mh'[h].b4rover /\ (at < rv => len <= mh'[h].b4rover) /\ mh'[h].b4rover \in Nat
  BY <1>4, <1>10 DEF Bigger
<1>12. MiniBound(h)'
  <2>1. MiniBound(h)
    BY <1>1 DEF Caches
  <2>2. \A a \in FreeIn(h)' : size'[a] <= mh'[h].largest
    <3>1. \A a \in FreeIn(h) : size[a] <= mh'[h].largest
      BY <1>1, <1>3, <1>10, <1>11, <2>1 DEF MiniBound, FreeUpTo
    <3> QED
      BY <1>5, <1>8, <1>11, <3>1
  <2>3. \A a \in FreeIn(h)' : a < mh'[h].rover => size'[a] <= mh'[h].b4rover
    <3>1. \A a \in FreeIn(h) : a < rv => size[a] <= mh'[h].b4rover
      <4>1. \A a \in FreeIn(h) : a < rv => a < mh[h].rover
        BY <1>1, <1>3, <1>9
      <4> QED
        BY <1>1, <1>3, <1>10, <1>11, <2>1, <4>1 DEF MiniBound
    <3> QED
      BY <1>4, <1>5, <1>8, <1>11, <3>1
  <2> QED
    BY <2>2, <2>3 DEF MiniBound, FreeUpTo
<1>13. \A g \in Minis' : MiniBound(g)'
  BY <1>7, <1>12
<1> QED
  BY <1>2, <1>6, <1>7, <1>11, <1>13

LEMMA NFreeCaches ==
  ASSUME IInv, IInv', Looking, Caches, NFree, NEW f, f = call.pcur, NEW h, h = MiniOf(f)
  PROVE  Caches'
<1> DEFINE b4 == B4After(h, mh'[h].largest)
           more == [call EXCEPT !.pcur = 0, !.expanded = TRUE]
<1>1. Mem /\ Mem' /\ RoversOK /\ UserTypes /\ CallOK /\ UsersOK
  BY Parts, PartsNext
<1>2. /\ call.at = "nfree" /\ freeRover' = h /\ miniRover' = miniRover /\ build' = build /\ moved' = moved
      /\ CASE call.job = "malloc" -> SearchFrom(more, b4)
           [] call.job = "expand" -> call' = [more EXCEPT !.at = "expand"] /\ largestB4' = b4
           [] OTHER -> largestB4' = b4 /\ call' = NoCall
  BY DEF NFree, Return
<1>3. FreedIs(h, f) /\ h \in Minis
  BY <1>1, NFreeMem DEF FreedIs
<1>4. /\ Minis' = Minis /\ \A g \in Minis : g # h => FreeIn(g)' = FreeIn(g)
      /\ \A g \in Minis : g # h => \A a \in FreeIn(g) : size'[a] = size[a]
      /\ \A g \in Minis' : MiniBound(g)'
      /\ \A g \in Minis' : g # h => NoBigger(g)
      /\ mh[h].largest <= mh'[h].largest
  BY <1>1, <1>3, FreedBound
<1>5. FreeRoverOK'
  <2>1. build = "slices" /\ ~moved => h = 1
    BY <1>1, <1>3 DEF Mem, AtBreak
  <2> QED
    BY <1>2, <1>3, <1>4, <2>1 DEF FreeRoverOK
<1>6. mh'[h].largest \in 0..Huge /\ largestB4 \in 0..Huge /\ miniRover \in Nat /\ h \in Nat
  <2>1. mh'[h].largest \in 0..Huge
    BY <1>1, <1>3, FreedBounds
  <2>2. miniRover \in Nat /\ h \in Nat
    BY <1>1, <1>3, FreeTypes DEF Mem, RoversOK, RoversLive
  <2> QED
    BY <1>1, <2>1, <2>2 DEF RoversOK
<1>7. b4 \in 0..Huge /\ b4 \in Nat /\ largestB4 <= b4 /\ (h < miniRover => mh'[h].largest <= b4)
  BY <1>6, Sizes DEF B4After, Bigger, Huge
<1> HIDE DEF b4
<1>8. ASSUME NEW g \in Minis', g < miniRover, NEW a \in FreeIn(g)' PROVE size'[a] <= b4
  <2>1. size'[a] \in Nat
    BY <1>1, <1>8, FreeTypesNext DEF Mem
  <2>2. CASE g = h
    <3>1. size'[a] <= mh'[h].largest
      BY <1>4, <1>8, <2>2 DEF MiniBound, FreeUpTo
    <3> QED
      BY <1>6, <1>7, <1>8, <2>1, <2>2, <3>1, Sizes DEF Huge
  <2>3. CASE g # h
    <3>1. size'[a] <= largestB4
      <4>1. Place = miniRover
        BY <1>2 DEF Place
      <4> QED
        BY <1>4, <1>8, <2>3, <4>1 DEF Caches, Before, FreeUpTo
    <3> QED
      BY <1>6, <1>7, <2>1, <3>1, Sizes DEF Huge
  <2> QED
    BY <2>2, <2>3
<1>9. DOMAIN call = DOMAIN NoCall /\ call \in CallRec
  BY <1>1, CallFacts
<1>10. CASE call.job = "malloc"
  <2>1. SearchFrom(more, b4)
    BY <1>2, <1>10
  <2>2. 0 \in 0..Top /\ TRUE \in BOOLEAN
    BY Sizes
  <2>3. more \in CallRec
    BY <1>9, <2>2 DEF CallRec
  <2> HIDE DEF more
  <2> QED
    BY <1>2, <1>4, <1>5, <1>7, <1>8, <2>1, <2>3, SearchCaches
<1>11. CASE call.job # "malloc"
  <2>1. largestB4' = b4 /\ call'.at \in {"expand", "none"}
    BY <1>2, <1>9, <1>11, NoCallIs DEF NoCall
  <2>2. Before'
    <3>1. Place' = miniRover
      BY <1>2, <2>1 DEF Place
    <3> QED
      BY <1>8, <2>1, <3>1 DEF Before, FreeUpTo
  <2>3. Scanning' /\ Passed'
    BY <2>1 DEF Scanning, Passed
  <2> QED
    BY <1>4, <1>5, <2>2, <2>3 DEF Caches
<1> QED
  BY <1>10, <1>11

-----------------------------------------------------------------------------
(* The cached sizes: _nheapshrink                                           *)

\* A mini-heap is given back: the others keep what they have.
LEMMA GoneSteady ==
  ASSUME Mem, Caches, NEW h, NEW c, AllFree(h, c)
  PROVE  /\ \A g \in Minis' : NoBigger(g)
         /\ \A g \in Minis' : MiniBound(g)'
         /\ \A g \in Minis' : g \in Minis /\ FreeIn(g)' = FreeIn(g) /\ \A a \in FreeIn(g) : size'[a] = size[a]
<1>1. /\ h \in Minis /\ c \in FreeIn(h) /\ Minis' = Minis \ {h} /\ \A g \in Minis : g # h => Kept(g)
      /\ \A g \in Addr : g # h => mh'[g] = mh[g]
      /\ \A x \in Addr : x # c => size'[x] = size[x]
  BY DEF AllFree
<1>2. \A g \in Minis : g \in Addr /\ \A a \in FreeIn(g) : a \in Addr /\ a \in Nat /\ size[a] \in Nat
  BY FreeTypes DEF Mem
<1>3. \A g \in Minis' : g \in Minis /\ FreeIn(g)' = FreeIn(g) /\ mh'[g] = mh[g]
  BY <1>1, <1>2 DEF Kept
<1>4. \A g \in Minis' : \A a \in FreeIn(g) : size'[a] = size[a]
  <2>1. ASSUME NEW g \in Minis', NEW a \in FreeIn(g) PROVE size'[a] = size[a]
    <3>1. a \in Blocks(g) /\ c \in Blocks(h) /\ g \in Minis /\ g # h
      BY <1>1, <2>1, BlocksAre DEF Mem
    <3>2. a # c
      BY <1>1, <3>1, OtherMini DEF Mem
    <3> QED
      BY <1>1, <1>2, <2>1, <3>1, <3>2
  <2> QED
    BY <2>1
<1>5. \A g \in Minis' : NoBigger(g)
  BY <1>2, <1>3, <1>4 DEF NoBigger
<1>6. \A g \in Minis' : MiniBound(g)'
  BY <1>3, <1>4 DEF Caches, MiniBound, FreeUpTo
<1> QED
  BY <1>3, <1>4, <1>5, <1>6

LEMMA ShrinkPagesCaches ==
  ASSUME IInv, IInv', Caches, ShrinkPages, NEW h, h = call.mini
  PROVE  Caches'
<1>1. Mem /\ Mem' /\ RoversOK /\ UserTypes /\ CallOK
  BY Parts, PartsNext
<1>2. /\ call.at = "shrink" /\ h # 0 /\ h \in Minis /\ build = "pages" /\ build' = build /\ moved' = moved
      /\ call' = [call EXCEPT !.mini = NextMini(h)]
      /\ \/ /\ \E c : AllFree(h, c)
            /\ miniRover' = PagesRover(h)
            /\ largestB4' = (IF miniRover = h /\ NextMini(h) = 0 THEN 0 ELSE largestB4)
            /\ freeRover' = (IF freeRover = h THEN 0 ELSE freeRover)
         \/ QuietHeap /\ UNCHANGED rovers
  BY <1>1, ShrinkPagesIs
<1>3. DOMAIN call = DOMAIN NoCall /\ call.size \in Nat
  BY <1>1, CallFacts
<1>4. call'.at = "shrink" /\ call'.job = call.job /\ call'.size = call.size
  BY <1>2, <1>3 DEF NoCall
<1>5. Place = miniRover /\ Place' = miniRover'
  BY <1>2, <1>4 DEF Place
<1>6. Scanning'
  BY <1>4 DEF Scanning
<1>7. /\ \A g \in Minis' : NoBigger(g)
      /\ \A g \in Minis' : MiniBound(g)'
      /\ \A g \in Minis' : g \in Minis /\ FreeIn(g)' = FreeIn(g) /\ \A a \in FreeIn(g) : size'[a] = size[a]
  <2>1. CASE \E c : AllFree(h, c)
    BY <1>1, <2>1, GoneSteady
  <2>2. CASE QuietHeap /\ UNCHANGED rovers
    BY <2>2, QuietSteady DEF Steady, rovers
  <2> QED
    BY <1>2, <2>1, <2>2
<1>8. Passed'
  BY <1>2, <1>4, <1>7 DEF Caches, Passed, TooSmall
<1>9. FreeRoverOK'
  <2>1. CASE (\E c : AllFree(h, c)) /\ freeRover' = (IF freeRover = h THEN 0 ELSE freeRover)
    <3>1. Minis' = Minis \ {h}
      BY <2>1 DEF AllFree
    <3>2. freeRover \in {0} \cup Minis
      BY <1>2 DEF Caches, FreeRoverOK
    <3> QED
      BY <1>2, <2>1, <3>1, <3>2 DEF FreeRoverOK
  <2>2. CASE QuietHeap /\ UNCHANGED rovers
    BY <2>2, QuietSteady DEF Steady, rovers
  <2> QED
    BY <1>2, <2>1, <2>2
<1>10. Before'
  <2>1. CASE miniRover' = miniRover /\ largestB4' = largestB4
    BY <1>5, <1>7, <2>1 DEF Caches, Before, FreeUpTo
  <2>2. CASE miniRover # h /\ miniRover' = PagesRover(h) /\ largestB4' = (IF miniRover = h /\ NextMini(h) = 0 THEN 0 ELSE largestB4)
    BY <2>1, <2>2 DEF PagesRover
  <2>3. CASE /\ miniRover = h /\ \E c : AllFree(h, c)
             /\ miniRover' = PagesRover(h)
             /\ largestB4' = (IF miniRover = h /\ NextMini(h) = 0 THEN 0 ELSE largestB4)
    <3>1. Minis' = Minis \ {h} /\ \A g \in Minis : g \in Nat /\ g # 0
      BY <1>1, <2>3, FreeTypes DEF AllFree, Mem, Addr
    <3>2. /\ NextMini(h) \in {0} \cup Minis
          /\ NextMini(h) # 0 => h < NextMini(h)
          /\ NextMini(h) # 0 => \A g \in Minis : h < g => NextMini(h) <= g
      BY <1>1, <1>2, <3>1, NextMiniIs DEF Mem
    <3>3. CASE NextMini(h) # 0
      <4>1. miniRover' = NextMini(h) /\ largestB4' = largestB4
        BY <1>2, <2>3, <3>1, <3>2, <3>3 DEF PagesRover
      <4>2. \A g \in Minis' : g < NextMini(h) => g < h
        BY <1>2, <3>1, <3>2, <3>3
      <4> QED
        BY <1>5, <1>7, <2>3, <4>1, <4>2 DEF Caches, Before, FreeUpTo
    <3>4. CASE NextMini(h) = 0
      <4>1. miniRover' \in {0, FirstMini}
        BY <2>3, <3>4 DEF PagesRover
      <4>2. \A g \in Minis : FirstMini <= g /\ FirstMini \in Nat
        <5>1. FirstMini \in {0} \cup Minis /\ \A g \in Minis : FirstMini <= g
          BY <1>1, FirstMiniIs DEF Mem
        <5> QED
          BY <3>1, <5>1
      <4>3. \A g \in Minis' : ~(g < miniRover')
        BY <3>1, <4>1, <4>2
      <4> QED
        BY <1>5, <4>3 DEF Before
    <3> QED
      BY <3>3, <3>4
  <2> QED
    BY <1>2, <2>1, <2>2, <2>3 DEF rovers
<1> QED
  BY <1>6, <1>7, <1>8, <1>9, <1>10 DEF Caches

LEMMA ShrinkSlicesCaches ==
  ASSUME IInv, IInv', Caches, ShrinkSlices
  PROVE  Caches'
<1>1. Mem /\ Mem' /\ RoversOK /\ CallOK
  BY Parts, PartsNext
<1>2. /\ call.at = "cut" /\ build = "slices" /\ build' = build /\ moved' = moved /\ Return(1)
      /\ \/ \E h, c : (\A g \in Minis : g <= h) /\ (CutShort(h, c) \/ GivenBack(h, c))
         \/ QuietHeap /\ UNCHANGED rovers
  BY <1>1, ShrinkSlicesIs
<1>3. call' = NoCall /\ call'.at = "none"
  BY <1>2, NoCallIs DEF Return
<1>4. CASE \E h, c : CutShort(h, c)
  <2>1. PICK h, c : h \in Minis /\ CutShort(h, c)
    BY <1>4 DEF CutShort
  <2>2. /\ Minis' = Minis /\ FreeIn(h)' = FreeIn(h) \ {c} /\ c \in FreeIn(h) /\ UNCHANGED rovers
        /\ mh'[h] = ShorterMini(h, c) /\ (\A x \in Addr : x # c => size'[x] = size[x])
        /\ \A g \in Minis : g # h => FreeIn(g)' = FreeIn(g) /\ mh'[g] = mh[g]
    BY <2>1 DEF CutShort, Minis
  <2>3. /\ \A g \in Minis : \A a \in FreeIn(g) : a \in Addr /\ a \in Nat /\ size[a] \in Nat
        /\ h \in Addr /\ mh[h] \in MiniRec
    BY <1>1, <2>1, FreeTypes DEF Mem, MemTypes, Minis
  <2>4. mh'[h].rover = TakenRover(h, c) /\ mh'[h].b4rover = mh[h].b4rover /\ mh'[h].largest = mh[h].largest
    BY <2>2, <2>3 DEF ShorterMini, MiniRec
  <2>5. \A g \in Minis : \A a \in FreeIn(g)' : a \in FreeIn(g) /\ size'[a] = size[a]
    <3> SUFFICES ASSUME NEW g \in Minis, NEW a \in FreeIn(g)' PROVE a \in FreeIn(g) /\ size'[a] = size[a]
      OBVIOUS
    <3>1. CASE g = h
      BY <2>2, <2>3, <3>1
    <3>2. CASE g # h
      <4>1. a \in FreeIn(g) /\ a \in Blocks(g) /\ c \in Blocks(h)
        BY <1>1, <2>1, <2>2, <3>2, BlocksAre DEF Mem
      <4>2. a # c
        BY <1>1, <2>1, <3>2, <4>1, OtherMini DEF Mem
      <4> QED
        BY <2>2, <2>3, <4>1, <4>2
    <3> QED
      BY <3>1, <3>2
  <2>6. \A g \in Minis' : NoBigger(g)
    BY <2>2, <2>3, <2>5 DEF NoBigger
  <2>7. \A a \in FreeIn(h) : a < TakenRover(h, c) => a < mh[h].rover
    <3>1. ASSUME NEW a \in FreeIn(h), a < TakenRover(h, c) PROVE a < mh[h].rover
      <4>1. CASE mh[h].rover = c
        <5>1. Linked(h, FreeIn(h), next, prev, c) /\ c # h
          BY <1>1, <2>1, <2>2, <2>3, LinkTypes, BlocksAre DEF Mem
        <5>2. prev[c] < c /\ prev[c] \in Int /\ c \in Int /\ a \in Int
          BY <2>1, <2>2, <2>3, <5>1, <3>1 DEF Linked
        <5> QED
          BY <3>1, <4>1, <5>2 DEF TakenRover
      <4> QED
        BY <3>1, <4>1 DEF TakenRover
    <3> QED
      BY <3>1
  <2>8. \A g \in Minis' : MiniBound(g)'
    <3> SUFFICES ASSUME NEW g \in Minis PROVE MiniBound(g)'
      BY <2>2
    <3>1. MiniBound(g)
      BY DEF Caches
    <3>2. CASE g = h
      BY <2>4, <2>5, <2>7, <3>1, <3>2 DEF MiniBound, FreeUpTo
    <3>3. CASE g # h
      BY <2>2, <2>5, <3>1, <3>3 DEF MiniBound, FreeUpTo
    <3> QED
      BY <3>2, <3>3
  <2>9. FreeRoverOK'
    BY <1>2, <2>2 DEF Caches, FreeRoverOK, rovers
  <2>10. Steady
    BY <2>6, <2>8, <2>9 DEF Steady
  <2> QED
    BY <1>2, <1>3, <2>2, <2>10, CachesBy DEF rovers
<1>5. CASE \E h, c : (\A g \in Minis : g <= h) /\ GivenBack(h, c)
  <2>1. PICK h, c : h \in Minis /\ (\A g \in Minis : g <= h) /\ AllFree(h, c) /\ GivenBack(h, c)
    BY <1>5 DEF GivenBack, AllFree
  <2>2. FreeRoverOK'
    BY <1>2, <2>1 DEF Caches, FreeRoverOK, GivenBack
  <2>3. /\ \A g \in Minis' : NoBigger(g)
        /\ \A g \in Minis' : MiniBound(g)'
        /\ \A g \in Minis' : g \in Minis /\ FreeIn(g)' = FreeIn(g) /\ \A a \in FreeIn(g) : size'[a] = size[a]
    BY <1>1, <2>1, GoneSteady
  <2>4. Place = miniRover /\ Place' = miniRover' /\ miniRover' = SlicesRover(h)
    BY <1>2, <1>3, <2>1 DEF Place, GivenBack
  <2>5. Before'
    <3>1. CASE miniRover # h
      <4>1. miniRover' = miniRover /\ largestB4' = largestB4
        BY <2>1, <2>4, <3>1 DEF SlicesRover, GivenBack
      <4> QED
        BY <2>3, <2>4, <4>1 DEF Caches, Before, FreeUpTo
    <3>2. CASE miniRover = h
      <4>1. miniRover' \in {0, FirstMini}
        BY <2>4, <3>2 DEF SlicesRover
      <4>2. \A g \in Minis : g \in Nat /\ FirstMini <= g /\ FirstMini \in Int
        <5>1. FirstMini \in {0} \cup Minis /\ \A g \in Minis : FirstMini <= g
          BY <1>1, FirstMiniIs DEF Mem
        <5> QED
          BY <1>1, <5>1, MiniTypes DEF Mem
      <4>3. \A g \in Minis' : ~(g < miniRover')
        BY <2>3, <4>1, <4>2
      <4> QED
        BY <2>4, <4>3 DEF Before
    <3> QED
      BY <3>1, <3>2
  <2>6. Scanning' /\ Passed'
    BY <1>3 DEF Scanning, Passed
  <2> QED
    BY <2>2, <2>3, <2>5, <2>6 DEF Caches
<1>6. CASE QuietHeap /\ UNCHANGED rovers
  BY <1>2, <1>3, <1>6, QuietCaches
<1> QED
  BY <1>2, <1>4, <1>5, <1>6

-----------------------------------------------------------------------------
(* The cached sizes: theorems                                               *)

\* Other code moves the break.
LEMMA MoveBreakCaches ==
  ASSUME IInv, IInv', Caches, NEW b, MoveBreak(b)
  PROVE  Caches'
<1>1. /\ build' = build /\ mh' = mh /\ size' = size /\ used' = used /\ UNCHANGED rovers /\ call' = call
      /\ build = "slices" /\ moved' = TRUE
  BY DEF MoveBreak, blocks
<1>2. Minis' = Minis /\ \A h : FreeIn(h)' = FreeIn(h)
  BY <1>1 DEF Minis, FreeIn, Blocks, Within, EndTag
<1>3. Before' /\ Scanning' /\ Passed'
  BY <1>1, <1>2 DEF Caches, Before, Scanning, ScanAt, Passed, TooSmall, FreeUpTo, Place, rovers
<1>4. \A h \in Minis' : MiniBound(h)'
  BY <1>1, <1>2 DEF Caches, MiniBound, FreeUpTo
<1>5. FreeRoverOK'
  BY <1>1 DEF FreeRoverOK
<1> QED
  BY <1>3, <1>4, <1>5 DEF Caches

LEMMA InitCaches == Init => Caches
<1> SUFFICES ASSUME Init PROVE Caches
  OBVIOUS
<1>1. Minis = {}
  BY DEF Init, Minis, NoMini
<1>2. FreeRoverOK
  BY DEF Init, FreeRoverOK
<1> QED
  BY <1>1, <1>2, NoCallIs DEF Init, Caches, Before, Scanning, Passed

LEMMA NextCaches == IInv /\ IInv' /\ Looking /\ Caches /\ [Next]_vars => Caches'
<1> SUFFICES ASSUME IInv, IInv', Looking, Caches, [Next]_vars PROVE Caches'
  OBVIOUS
<1>1. CASE \E t \in Threads, amt \in Amounts : Malloc(t, amt)
  BY <1>1, MallocCaches
<1>2. CASE \/ HeapMin
           \/ \E t \in Threads, p \in Addr : Free(t, p)
           \/ \E t \in Resizers, p \in held, amt \in Amounts : Resize(t, p, amt)
           \/ \E t \in Resizers : ResetSize(t)
  BY <1>2, BeginCaches
<1>3. CASE Serve
  <2>1. CASE TryMini
    BY <2>1, TryMiniCaches
  <2>2. CASE ScanOn
    BY <2>2, ScanOnCaches
  <2>3. CASE Carve
    BY <2>3, CarveCaches
  <2>4. CASE GiveUp \/ NoRoom \/ HeapMinDone \/ ExpandFits \/ ExpandFails
    BY <2>4, EndCaches
  <2>5. CASE NFree
    BY <2>5, NFreeCaches
  <2>6. CASE ShrinkPages
    BY <2>6, ShrinkPagesCaches
  <2>7. CASE ShrinkSlices
    BY <2>7, ShrinkSlicesCaches
  <2>8. CASE ShrinkFirst
    BY <2>8, ShrinkFirstCaches
  <2>9. CASE GrowSlices \/ ExpandCut
    BY <2>9, GrowCaches
  <2>10. CASE CreateMini
    <3>1. CASE UNCHANGED blocks
      <4>1. \/ \E h, n : CreatedAt(h, n)
            \/ call' = [call EXCEPT !.at = "mini", !.expanded = TRUE]
        BY <2>10, Parts, CreateMiniIs
      <4>2. ASSUME NEW h, NEW n, CreatedAt(h, n) PROVE FALSE
        <5> SUFFICES ASSUME NEW a, a = h + Hdr PROVE FALSE
          OBVIOUS
        <5>1. Added(a)
          BY <2>10, <4>2, Parts, CreatedMem
        <5> QED
          BY <3>1, <5>1 DEF Added, blocks
      <4> QED
        BY <2>10, <3>1, <4>1, <4>2, NoPlaceCaches
    <3>2. CASE ~(UNCHANGED blocks)
      BY <2>10, <3>2, GrowCaches
    <3> QED
      BY <3>1, <3>2
  <2>11. CASE ExpandTake
    BY <2>11, ExpandTakeCaches
  <2>12. CASE LookNear \/ LookBehind \/ LookInList \/ LookAstray \/ Astray
    BY <2>12, LooksOn, StillCaches
  <2> QED
    BY <1>3, <2>1, <2>2, <2>3, <2>4, <2>5, <2>6, <2>7, <2>8, <2>9, <2>10, <2>11, <2>12 DEF Serve
<1>4. CASE UNCHANGED vars
  BY <1>4, LooksOn, StillCaches
<1>5. CASE \E b \in Breaks : MoveBreak(b)
  BY <1>5, MoveBreakCaches
<1> QED
  BY <1>1, <1>2, <1>3, <1>4, <1>5 DEF Next

LEMMA CachesHold == Spec => [](IInv /\ Looking /\ Caches)
<1>1. Init => IInv /\ Looking /\ Caches
  BY InitOK, InitLooks, InitCaches
<1>2. IInv /\ Looking /\ Caches /\ [Next]_vars => (IInv /\ Looking /\ Caches)'
  BY NextOK, NextLooks, NextCaches
<1> QED
  BY <1>1, <1>2, PTL DEF Spec

\* Every cached size that lets a search skip blocks is a bound on those it
\* skips, whatever was split, joined, grown, cut or given back; the rovers
\* point at what is there.
THEOREM CachesSound == Spec => []CachesBound
<1>1. IInv /\ Caches => CachesBound
  <2> SUFFICES ASSUME IInv, Caches PROVE CachesBound
    OBVIOUS
  <2>1. Mem /\ RoversOK
    BY Parts
  <2>2. \A h \in Minis : mh[h].rover \in {h} \cup FreeIn(h)
    BY <2>1, MiniIs DEF Mem
  <2>3. miniRover \in {0} \cup Minis
    BY <2>1 DEF RoversOK, RoversLive
  <2> QED
    BY <2>2, <2>3 DEF Caches, CachesBound, MiniBound, FreeUpTo, Before, Place
<1> QED
  BY <1>1, CachesHold, PTL

\* The mini-heap of the last free is there when the next _nfree looks at it:
\* always where the heap takes pages, and where it takes slices of memory as
\* long as no other code has moved the break.
THEOREM FreeRoverSound == Spec => []FreeRoverLive
<1>1. IInv /\ Caches => FreeRoverLive
  <2> SUFFICES ASSUME IInv, Caches, call.at = "nfree", ~moved PROVE freeRover \in {0} \cup Minis
    BY DEF FreeRoverLive
  <2>1. Mem /\ UserTypes /\ UsersOK
    BY Parts
  <2>2. Minis # {}
    <3>1. call.pcur \in used
      BY <2>1 DEF UsersOK, Owned, Freeing
    <3> QED
      BY <2>1, <3>1, BlockIn DEF Mem, MemTypes, MemOK, Covered
  <2>3. build = "slices" => Minis = {1}
    BY <2>1, <2>2 DEF Mem, AtBreak
  <2> QED
    BY <2>3 DEF Caches, FreeRoverOK
<1> QED
  BY <1>1, CachesHold, PTL

\* Where a _nmalloc ends without a block, all have been passed.
LEMMA FailsAtEnd ==
  ASSUME IInv, Looking, Next, call.job = "malloc", call' = NoCall, used' = used
  PROVE  call.at = "mini" /\ call.mini = 0
<1>1. Mem /\ UserTypes /\ CallOK /\ UsersOK /\ call # NoCall
  BY Parts, NoCallIs
<1>2. Serve
  BY <1>1 DEF Next, Malloc, Free, Resize, ResetSize, HeapMin, MoveBreak
<1>3. DOMAIN call = DOMAIN NoCall /\ call.at # "cut" /\ call.at # "expand"
  BY <1>1, CallFacts DEF CallOK
<1>4. CASE GiveUp \/ NoRoom
  BY <1>3, <1>4 DEF GiveUp, NoRoom, Growing
<1>5. CASE Carve
  <2> SUFFICES ASSUME NEW h, h = call.mini, NEW c, c = call.pcur PROVE FALSE
    OBVIOUS
  <2>1. CarveIs(h, c)
    BY <1>1, <1>5, CarveMem
  <2> QED
    BY <2>1 DEF CarveIs
<1>6. CASE NFree
  <2> SUFFICES ASSUME NEW f, f = call.pcur, NEW h, h = MiniOf(f) PROVE FALSE
    OBVIOUS
  <2>1. FreedIs(h, f)
    BY <1>1, <1>6, NFreeMem
  <2> QED
    BY <2>1 DEF FreedIs
<1>7. CASE HeapMinDone \/ ShrinkSlices \/ ExpandFits \/ ExpandFails \/ ExpandCut \/ ExpandTake
  BY <1>3, <1>7 DEF HeapMinDone, ShrinkSlices, ExpandFits, ExpandFails, ExpandCut, ExpandTake
<1>10. CASE LookNear \/ LookBehind \/ LookInList \/ LookAstray \/ Astray
  BY <1>1, <1>10, LooksOn DEF LookOn
<1>8. CASE TryMini \/ ScanOn \/ ShrinkPages \/ ShrinkFirst \/ CreateMini
  <2>1. call'.job = call.job
    <3>1. CASE TryMini \/ ScanOn
      BY <1>3, <3>1 DEF TryMini, ScanOn, PassOver, NoCall
    <3>2. CASE ShrinkPages \/ ShrinkFirst \/ CreateMini
      BY <1>3, <3>2 DEF ShrinkPages, ShrinkFirst, CreateMini, LinkUp, NoCall
    <3> QED
      BY <1>8, <3>1, <3>2
  <2> QED
    BY <2>1, NoCallIs
<1>9. CASE GrowSlices
  <2> SUFFICES ASSUME NEW a, a = call'.pcur PROVE FALSE
    OBVIOUS
  <2>1. Added(a)
    BY <1>1, <1>9, GrowMem
  <2> QED
    BY <2>1 DEF Added
<1> QED
  BY <1>2, <1>4, <1>5, <1>6, <1>7, <1>8, <1>9, <1>10 DEF Serve

\* _nmalloc fails only when no free block of any mini-heap would do.
THEOREM FailsSound == Spec => FailsOnlyWhenFull
<1>1. IInv /\ Looking /\ Caches /\ [Next]_vars
        => [call.job = "malloc" /\ call' = NoCall /\ used' = used
              => \A a \in Addr : IsFree(a) => size[a] < call.size]_vars
  <2> SUFFICES ASSUME IInv, Looking, Caches, Next, call.job = "malloc", call' = NoCall, used' = used,
                      NEW a \in Addr, IsFree(a)
               PROVE  size[a] < call.size
    OBVIOUS
  <2>1. call.at = "mini" /\ call.mini = 0
    BY FailsAtEnd
  <2>2. PICK h \in Minis : a \in FreeIn(h)
    <3>1. size[a] > 0 /\ a \notin used
      BY DEF IsFree
    <3>2. MiniOf(a) \in Minis /\ a \in Blocks(MiniOf(a))
      BY <3>1, Parts, BlockIn DEF Mem
    <3> QED
      BY <3>1, <3>2 DEF FreeIn
  <2> QED
    BY <2>1, <2>2 DEF Caches, Passed, TooSmall
<1> QED
  BY <1>1, CachesHold, PTL DEF Spec, FailsOnlyWhenFull
=============================================================================
