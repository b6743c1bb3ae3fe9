--------------------------- MODULE BlitterProofs ---------------------------
(***************************************************************************)
(* Proofs about module Blitter, for every size of the tile memory, every   *)
(* set of rectangles inside it, every pace of the CPU and any number of    *)
(* operations: the tile memory is what drawing one operation after the     *)
(* other gives, and no word is ever set back to an earlier operation.      *)
(*                                                                         *)
(* The invariant says how far the current operation is: which of its       *)
(* writes are done, which registers hold their values, and, while a fill   *)
(* runs, that exactly the words before its counters have been written but  *)
(* for the one in the output register.                                     *)
(***************************************************************************)
EXTENDS Blitter, TLAPS

BlitType ==
    [active : BOOLEAN, wr : BOOLEAN, addr : Nat, dout : Nat, value : Nat, span : Nat,
     skip : Nat, repeat : Nat, start : Nat, next : Nat, sc : Nat, rc : Nat]

\* v is the last of the first n operations that draws the word a, or 0.
Last(a, n, v) ==
    /\ v \in 0..n
    /\ v # 0 => a \in ops[v]
    /\ \A i \in (v + 1)..n : a \notin ops[i]

\* The tile memory is that of the first n operations.
Shows(n) == \A a \in Words : Last(a, n, vram[a])

\* Word dx of line dy of the rectangle r, and the words a fill writes before it.
Addr(r, dy, dx) == (r.y + dy) * TILE_MAX_W + r.x + dx

Filled(r, rc, sc, a) ==
    \E dy \in 0..(r.h - 1), dx \in 0..(r.w - 1) :
        a = Addr(r, dy, dx) /\ (dy < rc \/ (dy = rc /\ dx < sc))

\* The registers after the first n writes of gfx_rect(r, k).
Loaded(r, k, n) ==
    /\ n >= 1 => blit.start = r.y * TILE_MAX_W + r.x
    /\ n >= 2 => blit.value = k
    /\ n >= 3 => blit.span = r.w - 1
    /\ n >= 4 => blit.repeat = r.h - 1
    /\ n >= 5 => blit.skip = TILE_MAX_W - (r.w - 1)

\* The fill of operation k, the rectangle r, is running.
Filling(r, k) ==
    /\ k \in 1..Len(ops) /\ ops[k] = RectWords(r)
    /\ blit.active
    /\ Loaded(r, k, 5)
    /\ blit.rc \in 0..r.h /\ blit.sc \in 0..(r.w - 1)
    /\ blit.rc = r.h => blit.sc = 0
    /\ blit.rc < r.h => blit.next = Addr(r, blit.rc, blit.sc)
    /\ blit.wr => Filled(r, blit.rc, blit.sc, blit.addr) /\ blit.dout = k
    /\ \A a \in Words :
        \/ vram[a] = k /\ Filled(r, blit.rc, blit.sc, a)
        \/ Last(a, k - 1, vram[a])
           /\ (Filled(r, blit.rc, blit.sc, a) => blit.wr /\ a = blit.addr)

\* The fill of the operation before the current one is still running; the CPU
\* waits with the first write.
Before == cpu.st # "hold" /\ \E r \in Rects : Filling(r, Len(ops) - 1)

\* The writes of a rectangle to come, n of them done.
Coming(r, n) ==
    /\ Len(todo) = 6 - n
    /\ \A i \in 1..(6 - n) : todo[i] = gfx_rect(r, Len(ops))[n + i]

\* The registers get the values of the rectangle r; its fill has not begun.  The
\* submit is not held back, so that it is taken once.
Loading(r, n) ==
    /\ n < 6 /\ ~blit.active /\ Shows(Len(ops) - 1) /\ Loaded(r, Len(ops), n)
    /\ cpu.st = "hold" => n < 5 /\ Loaded(r, Len(ops), n + 1)
    /\ cpu.st = "wait" /\ n = 5 => phi2

\* The current operation is the rectangle r and n of its writes are done.
RectStage(r, n) ==
    /\ Len(ops) > 0 /\ ops[Len(ops)] = RectWords(r)
    /\ Coming(r, n)
    /\ \/ n = 0 /\ Before
       \/ Loading(r, n)
       \/ /\ n = 5 /\ Filling(r, Len(ops)) /\ cpu.st = "hold"
          /\ cpu.n = 1 => blit.rc = 0
       \/ n = 6 /\ Filling(r, Len(ops))
       \/ n = 6 /\ ~blit.active /\ Shows(Len(ops))

\* The current operation is the word w of a text.
PokeStage(w) ==
    /\ Len(ops) > 0 /\ ops[Len(ops)] = {w}
    /\ \/ todo = Poke(w, Len(ops)) /\ Before
       \/ /\ todo = Poke(w, Len(ops)) /\ ~blit.active
          /\ Shows(Len(ops) - 1) \/ Shows(Len(ops))
          /\ cpu.st = "hold" => Shows(Len(ops))
       \/ todo = <<>> /\ ~blit.active /\ Shows(Len(ops))

Writes ==
    [reg : {"start", "value", "span", "repeat", "skip", "submit", "vram"}, at : Words, data : Nat]

\* Types, and what the states of the CPU and the blitter say of each other.
TypeOK ==
    /\ blit \in BlitType /\ (blit.wr => blit.active)
    /\ vram \in [Words -> Nat]
    /\ phi2 \in BOOLEAN
    /\ cpu \in [st : {"idle", "wait", "hold"}, n : Nat]
    /\ cpu.st = "hold" => cpu.n \in {0, 1}
    /\ cpu.st # "idle" => todo # <<>>
    /\ todo \in Seq(Writes)
    /\ ops \in Seq(SUBSET Words)

\* The inductive invariant: before the first operation, or in a stage of one.
IInv ==
    /\ TypeOK
    /\ \/ ops = <<>> /\ todo = <<>> /\ ~blit.active /\ Shows(0)
       \/ \E r \in Rects, n \in 0..6 : RectStage(r, n)
       \/ \E w \in Pokes : PokeStage(w)

----------------------------------------------------------------------------
(* Words and rectangles. *)

LEMMA Monotone ==
    ASSUME NEW a \in Nat, NEW b \in Nat, NEW c \in Nat, a <= b
    PROVE  a * c <= b * c
  BY SMT

\* A rectangle is inside the tile memory, and so is every word of it.
LEMMA RectSizes ==
    ASSUME NEW r \in Rects
    PROVE  /\ r.x \in Nat /\ r.y \in Nat /\ r.w \in Nat \ {0} /\ r.h \in Nat \ {0}
           /\ r.x + r.w <= TILE_MAX_W /\ r.y + r.h <= TILE_MAX_H
  BY BlitterAssumption

LEMMA Sizes ==
    /\ TILE_MAX_W \in Nat \ {0} /\ TILE_MAX_H \in Nat \ {0} /\ MaxOps \in Nat /\ REG \in Nat
    /\ TILE_MAX_W * TILE_MAX_H \in Nat /\ TILE_MAX_W * TILE_MAX_H < REG
    /\ TILE_MAX_W < REG /\ TILE_MAX_H < REG
  <1>1. /\ TILE_MAX_W \in Nat \ {0} /\ TILE_MAX_H \in Nat \ {0} /\ MaxOps \in Nat /\ REG \in Nat
        /\ REG > TILE_MAX_W * TILE_MAX_H
    BY BlitterAssumption
  <1>2. 1 * TILE_MAX_W <= TILE_MAX_H * TILE_MAX_W
    BY <1>1, Monotone
  <1>3. 1 * TILE_MAX_H <= TILE_MAX_W * TILE_MAX_H
    BY <1>1, Monotone
  <1> QED
    BY <1>1, <1>2, <1>3

LEMMA AddrInside ==
    ASSUME NEW r \in Rects, NEW dy \in 0..(r.h - 1), NEW dx \in 0..(r.w - 1)
    PROVE  Addr(r, dy, dx) \in Words /\ Addr(r, dy, dx) < REG
  <1>1. (r.y + dy + 1) * TILE_MAX_W <= TILE_MAX_H * TILE_MAX_W
    <2>1. r.y + dy + 1 \in Nat /\ r.y + dy + 1 <= TILE_MAX_H
      BY RectSizes, Sizes
    <2> QED
      BY <2>1, Sizes, Monotone
  <1>2. (r.y + dy + 1) * TILE_MAX_W = (r.y + dy) * TILE_MAX_W + TILE_MAX_W
    BY RectSizes, Sizes
  <1>3. (r.y + dy) * TILE_MAX_W \in Nat
    BY RectSizes, Sizes
  <1> QED
    BY <1>1, <1>2, <1>3, RectSizes, Sizes DEF Addr, Words

\* The next word of a line, and the first one of the next line.
LEMMA NextAddr ==
    ASSUME NEW r \in Rects, NEW dy \in Nat, NEW dx \in Nat
    PROVE  /\ Addr(r, dy, dx) \in Nat
           /\ Addr(r, dy, dx) + 1 = Addr(r, dy, dx + 1)
           /\ dx = r.w - 1 => Addr(r, dy, dx) + (TILE_MAX_W - (r.w - 1)) = Addr(r, dy + 1, 0)
  <1>1. (r.y + (dy + 1)) * TILE_MAX_W = (r.y + dy) * TILE_MAX_W + TILE_MAX_W
    BY RectSizes, Sizes
  <1>2. (r.y + dy) * TILE_MAX_W \in Nat
    BY RectSizes, Sizes
  <1> QED
    BY <1>1, <1>2, RectSizes, Sizes DEF Addr

\* The words filled: none at first, one more with each step, the rectangle at the end.
LEMMA FilledNone ==
    ASSUME NEW r \in Rects, NEW a
    PROVE  ~Filled(r, 0, 0, a)
  BY RectSizes DEF Filled

LEMMA FilledStep ==
    ASSUME NEW r \in Rects, NEW rc \in 0..(r.h - 1), NEW sc \in 0..(r.w - 1), NEW a
    PROVE  /\ sc < r.w - 1 =>
                (Filled(r, rc, sc + 1, a) <=> Filled(r, rc, sc, a) \/ a = Addr(r, rc, sc))
           /\ sc = r.w - 1 =>
                (Filled(r, rc + 1, 0, a) <=> Filled(r, rc, sc, a) \/ a = Addr(r, rc, sc))
  BY RectSizes DEF Filled

LEMMA FilledAll ==
    ASSUME NEW r \in Rects, NEW a
    PROVE  Filled(r, r.h, 0, a) <=> a \in RectWords(r)
  BY RectSizes DEF Filled, RectWords, Addr

LEMMA FilledInRect ==
    ASSUME NEW r \in Rects, NEW rc \in Nat, NEW sc \in Nat, NEW a, Filled(r, rc, sc, a)
    PROVE  a \in RectWords(r) /\ a \in Words
  <1>1. PICK dy \in 0..(r.h - 1), dx \in 0..(r.w - 1) : a = Addr(r, dy, dx)
    BY DEF Filled
  <1> QED
    BY <1>1, AddrInside DEF RectWords, Addr

LEMMA RectInWords ==
    ASSUME NEW r \in Rects
    PROVE  RectWords(r) \subseteq Words
  BY AddrInside DEF RectWords, Addr

----------------------------------------------------------------------------
(* The edges of the clock in the blitter and the tile memory. *)

LEMMA SmallMod ==
    ASSUME NEW n \in Nat \ {0}, NEW a \in 0..(n - 1)
    PROVE  a % n = a
  BY SMT

LEMMA WordFields ==
    ASSUME blit \in BlitType, blit' = BlitWord(blit)
    PROVE  /\ blit'.active = blit.active /\ blit'.wr = TRUE
           /\ blit'.addr = blit.next /\ blit'.dout = blit.value
           /\ blit'.value = blit.value /\ blit'.span = blit.span /\ blit'.skip = blit.skip
           /\ blit'.repeat = blit.repeat /\ blit'.start = blit.start
           /\ blit'.sc = (IF blit.sc = blit.span THEN 0 ELSE (blit.sc + 1) % REG)
           /\ blit'.rc = (IF blit.sc = blit.span THEN (blit.rc + 1) % REG ELSE blit.rc)
           /\ blit'.next = (blit.next + IF blit.sc = blit.span THEN blit.skip ELSE 1) % REG
           /\ DOMAIN blit' = DOMAIN blit
  BY DEF BlitType, BlitWord

LEMMA WordType ==
    ASSUME blit \in BlitType, blit' = BlitWord(blit)
    PROVE  blit' \in BlitType
  <1>1. REG \in Nat \ {0}
    BY Sizes
  <1>2. /\ (blit.sc + 1) % REG \in Nat /\ (blit.rc + 1) % REG \in Nat
        /\ (blit.next + IF blit.sc = blit.span THEN blit.skip ELSE 1) % REG \in Nat
    BY <1>1 DEF BlitType
  <1> QED
    BY <1>2, Zenon DEF BlitType, BlitWord

LEMMA LastExtends ==
    ASSUME NEW a, NEW k \in 1..Len(ops), NEW v, ops \in Seq(SUBSET Words),
           \/ v = k /\ a \in ops[k]
           \/ Last(a, k - 1, v) /\ a \notin ops[k]
    PROVE  Last(a, k, v)
  BY DEF Last

\* The port: the word in the output register arrives in the tile memory.
LEMMA FillPort ==
    ASSUME NEW r \in Rects, NEW k, Filling(r, k), Edge,
           blit \in BlitType, vram \in [Words -> Nat], ops \in Seq(SUBSET Words)
    PROVE  /\ vram' \in [Words -> Nat]
           /\ \A a \in Words :
                \/ vram'[a] = k /\ Filled(r, blit.rc, blit.sc, a)
                \/ Last(a, k - 1, vram'[a]) /\ ~Filled(r, blit.rc, blit.sc, a)
           /\ \A a \in Words : vram'[a] # vram[a] =>
                vram'[a] = k /\ k > vram[a] /\ a \in ops[k]
  <1>1. blit.active /\ k \in Nat /\ blit.rc \in Nat /\ blit.sc \in Nat
    BY DEF Filling, BlitType
  <1>2. blit.wr => blit.addr \in Words /\ blit.addr \in ops[k] /\ WordAt(blit.addr) = blit.addr
    <2> SUFFICES ASSUME blit.wr
                 PROVE  blit.addr \in Words /\ blit.addr \in ops[k]
                        /\ WordAt(blit.addr) = blit.addr
      OBVIOUS
    <2>1. Filled(r, blit.rc, blit.sc, blit.addr) /\ ops[k] = RectWords(r)
      BY DEF Filling
    <2>2. blit.addr \in Words /\ blit.addr \in ops[k]
      BY <1>1, <2>1, FilledInRect
    <2>3. TILE_MAX_W * TILE_MAX_H \in Nat \ {0}
      BY <2>2, Sizes DEF Words
    <2> QED
      BY <2>2, <2>3, SmallMod DEF Words, WordAt
  <1>3. vram' = IF blit.wr THEN [vram EXCEPT ![blit.addr] = k] ELSE vram
    <2>1. blit.wr => blit.dout = k
      BY DEF Filling
    <2>2. vram' = Port(blit, Bus)
      BY DEF Edge
    <2>3. CASE blit.wr
      BY <1>1, <1>2, <2>1, <2>2, <2>3, Zenon DEF Port
    <2>4. CASE ~blit.wr
      BY <1>1, <2>2, <2>4 DEF Port
    <2> QED
      BY <2>3, <2>4
  <1>4. vram' \in [Words -> Nat]
    BY <1>1, <1>3, Zenon
  <1>5. ASSUME NEW a \in Words
        PROVE  /\ \/ vram'[a] = k /\ Filled(r, blit.rc, blit.sc, a)
                  \/ Last(a, k - 1, vram'[a]) /\ ~Filled(r, blit.rc, blit.sc, a)
               /\ vram'[a] # vram[a] => vram'[a] = k /\ k > vram[a] /\ a \in ops[k]
    <2>1. \/ vram[a] = k /\ Filled(r, blit.rc, blit.sc, a)
          \/ Last(a, k - 1, vram[a])
             /\ (Filled(r, blit.rc, blit.sc, a) => blit.wr /\ a = blit.addr)
      BY DEF Filling
    <2>2. blit.wr => Filled(r, blit.rc, blit.sc, blit.addr)
      BY DEF Filling
    <2>3. CASE blit.wr /\ a = blit.addr
      <3>1. vram'[a] = k
        BY <1>3, <2>3
      <3>2. vram[a] = k \/ vram[a] \in 0..(k - 1)
        BY <2>1 DEF Last
      <3> QED
        BY <1>1, <1>2, <2>2, <2>3, <3>1, <3>2
    <2>4. CASE ~(blit.wr /\ a = blit.addr)
      BY <1>3, <2>1, <2>4
    <2> QED
      BY <2>3, <2>4
  <1> QED
    BY <1>4, <1>5

\* The edge that ends a fill leaves the operation drawn.
LEMMA FillEnds ==
    ASSUME NEW r \in Rects, NEW k, Filling(r, k), Edge, Done(blit), ops' = ops,
           blit \in BlitType, vram \in [Words -> Nat], ops \in Seq(SUBSET Words)
    PROVE  blit' \in BlitType /\ ~blit'.active /\ ~blit'.wr /\ Shows(k)'
  <1>1. blit' = [blit EXCEPT !.wr = FALSE, !.active = FALSE]
    BY DEF Edge, BlitClk, Filling
  <1>2. blit.rc = r.h /\ blit.sc = 0 /\ k \in 1..Len(ops) /\ ops[k] = RectWords(r)
    BY RectSizes DEF Filling, Done, Loaded
  <1>3. ASSUME NEW a \in Words
        PROVE  Last(a, k, vram'[a])
    <2>1. \/ vram'[a] = k /\ Filled(r, r.h, 0, a)
          \/ Last(a, k - 1, vram'[a]) /\ ~Filled(r, r.h, 0, a)
      BY <1>2, FillPort
    <2>2. \/ vram'[a] = k /\ a \in ops[k]
          \/ Last(a, k - 1, vram'[a]) /\ a \notin ops[k]
      BY <1>2, <2>1, FilledAll
    <2> QED
      BY <1>2, <2>2, LastExtends
  <1>4. Shows(k)'
    BY <1>3 DEF Shows, Last
  <1> QED
    BY <1>1, <1>4, Zenon DEF BlitType

\* The counters one word on.
NextSc(r, sc) == IF sc = r.w - 1 THEN 0 ELSE (sc + 1) % REG
NextRc(r, rc, sc) == IF sc = r.w - 1 THEN (rc + 1) % REG ELSE rc
NextWord(r, rc, sc) ==
    (Addr(r, rc, sc) + IF sc = r.w - 1 THEN TILE_MAX_W - (r.w - 1) ELSE 1) % REG

\* They go through the rectangle word by word and line by line.
LEMMA CountersAdvance ==
    ASSUME NEW r \in Rects, NEW rc \in 0..(r.h - 1), NEW sc \in 0..(r.w - 1)
    PROVE  /\ NextRc(r, rc, sc) \in 0..r.h /\ NextSc(r, sc) \in 0..(r.w - 1)
           /\ NextRc(r, rc, sc) = r.h => NextSc(r, sc) = 0
           /\ NextRc(r, rc, sc) < r.h =>
                NextWord(r, rc, sc) = Addr(r, NextRc(r, rc, sc), NextSc(r, sc))
           /\ \A a : Filled(r, NextRc(r, rc, sc), NextSc(r, sc), a) <=>
                        Filled(r, rc, sc, a) \/ a = Addr(r, rc, sc)
  <1>1. /\ r.w \in Nat /\ r.w > 0 /\ r.h \in Nat /\ r.h > 0
        /\ r.w < REG /\ r.h < REG /\ REG \in Nat \ {0}
    BY RectSizes, Sizes
  <1>2. rc \in Nat /\ sc \in Nat
    BY <1>1
  <1>3. CASE sc < r.w - 1
    <2>1. (sc + 1) % REG = sc + 1
      BY <1>1, <1>3, SmallMod
    <2>2. NextRc(r, rc, sc) = rc /\ NextSc(r, sc) = sc + 1
      BY <1>1, <1>3, <2>1 DEF NextRc, NextSc
    <2>3. sc + 1 \in 0..(r.w - 1)
      BY <1>1, <1>3
    <2>4. NextWord(r, rc, sc) = Addr(r, rc, sc + 1)
      <3>1. Addr(r, rc, sc + 1) \in 0..(REG - 1)
        BY <1>1, <2>3, AddrInside DEF Words
      <3>2. sc # r.w - 1
        BY <1>1, <1>3
      <3>3. NextWord(r, rc, sc) = Addr(r, rc, sc + 1) % REG
        BY <1>2, <3>2, NextAddr DEF NextWord
      <3> QED
        BY <1>1, <3>1, <3>3, SmallMod
    <2>5. \A a : Filled(r, rc, sc + 1, a) <=> Filled(r, rc, sc, a) \/ a = Addr(r, rc, sc)
      BY <1>3, FilledStep
    <2> QED
      BY <1>1, <2>2, <2>3, <2>4, <2>5
  <1>4. CASE sc = r.w - 1
    <2>1. (rc + 1) % REG = rc + 1
      BY <1>1, SmallMod
    <2>2. NextRc(r, rc, sc) = rc + 1 /\ NextSc(r, sc) = 0
      BY <1>4, <2>1 DEF NextRc, NextSc
    <2>3. rc + 1 \in 0..r.h /\ 0 \in 0..(r.w - 1)
      BY <1>1
    <2>4. rc + 1 < r.h => NextWord(r, rc, sc) = Addr(r, rc + 1, 0)
      <3> SUFFICES ASSUME rc + 1 < r.h
                   PROVE  NextWord(r, rc, sc) = Addr(r, rc + 1, 0)
        OBVIOUS
      <3>1. rc + 1 \in 0..(r.h - 1)
        BY <1>1
      <3>2. Addr(r, rc + 1, 0) \in 0..(REG - 1)
        BY <1>1, <2>3, <3>1, AddrInside DEF Words
      <3>3. NextWord(r, rc, sc) = Addr(r, rc + 1, 0) % REG
        BY <1>2, <1>4, NextAddr, Zenon DEF NextWord
      <3> QED
        BY <1>1, <3>2, <3>3, SmallMod
    <2>5. \A a : Filled(r, rc + 1, 0, a) <=> Filled(r, rc, sc, a) \/ a = Addr(r, rc, sc)
      BY <1>4, FilledStep
    <2> QED
      BY <2>2, <2>3, <2>4, <2>5
  <1> QED
    BY <1>1, <1>3, <1>4

\* Any other edge of a fill writes its next word to the output register.
LEMMA FillGoesOn ==
    ASSUME NEW r \in Rects, NEW k, Filling(r, k), Edge, ~Done(blit), ops' = ops,
           blit \in BlitType, vram \in [Words -> Nat], ops \in Seq(SUBSET Words)
    PROVE  blit' \in BlitType /\ Filling(r, k)'
  <1>1. blit' = BlitWord(blit)
    BY DEF Edge, BlitClk, Filling
  <1>2. blit.rc \in 0..(r.h - 1) /\ blit.sc \in 0..(r.w - 1) /\ blit.span = r.w - 1
    BY RectSizes DEF Filling, Done, Loaded, BlitType
  <1>3. blit.next = Addr(r, blit.rc, blit.sc) /\ blit.skip = TILE_MAX_W - (r.w - 1)
    <2>1. blit.rc < r.h
      BY <1>2, RectSizes
    <2> QED
      BY <2>1 DEF Filling, Loaded
  <1>4. blit.value = k /\ k \in 1..Len(ops) /\ ops[k] = RectWords(r) /\ blit.active
    BY DEF Filling, Loaded
  <1>5. /\ blit'.rc = NextRc(r, blit.rc, blit.sc) /\ blit'.sc = NextSc(r, blit.sc)
        /\ blit'.next = NextWord(r, blit.rc, blit.sc)
    BY <1>1, <1>2, <1>3, WordFields DEF NextRc, NextSc, NextWord
  <1>6. /\ blit'.rc \in 0..r.h /\ blit'.sc \in 0..(r.w - 1)
        /\ blit'.rc = r.h => blit'.sc = 0
        /\ blit'.rc < r.h => blit'.next = Addr(r, blit'.rc, blit'.sc)
    BY <1>2, <1>5, CountersAdvance
  <1>7. ASSUME NEW a
        PROVE  Filled(r, blit'.rc, blit'.sc, a) <=>
                    Filled(r, blit.rc, blit.sc, a) \/ a = blit.next
    BY <1>2, <1>3, <1>5, CountersAdvance
  <1>8. /\ blit'.addr = blit.next /\ blit'.dout = k /\ blit'.wr = TRUE
        /\ blit'.active = TRUE
    BY <1>1, <1>4, WordFields, Zenon
  <1>9. Loaded(r, k, 5)'
    BY <1>1, WordFields DEF Loaded, Filling
  <1>10. ASSUME NEW a \in Words
         PROVE  \/ vram'[a] = k /\ Filled(r, blit'.rc, blit'.sc, a)
                \/ Last(a, k - 1, vram'[a])
                   /\ (Filled(r, blit'.rc, blit'.sc, a) => blit'.wr /\ a = blit'.addr)
    BY <1>7, <1>8, FillPort
  <1>11. Filled(r, blit'.rc, blit'.sc, blit'.addr)
    BY <1>7, <1>8
  <1>12. Filling(r, k)'
    BY <1>4, <1>6, <1>8, <1>9, <1>10, <1>11 DEF Filling, Last
  <1> QED
    BY <1>1, <1>12, WordType

\* An edge of the idle blitter takes the write on the bus.
LEMMA IdleEdge ==
    ASSUME blit \in BlitType, ~blit.active, Edge
    PROVE  /\ blit' = BlitRegister(blit, Bus)
           /\ Bus.reg # "vram" => vram' = vram
           /\ Bus.reg = "vram" => vram' = [vram EXCEPT ![Bus.at] = Bus.data]
  <1>1. blit' = BlitRegister(blit, Bus)
    BY DEF Edge, BlitClk
  <1>2. vram' = Port(blit, Bus)
    BY DEF Edge
  <1>3. CASE Bus.reg = "vram"
    BY <1>1, <1>2, <1>3 DEF Port
  <1>4. CASE Bus.reg # "vram"
    BY <1>1, <1>2, <1>4 DEF Port
  <1> QED
    BY <1>1, <1>3, <1>4

\* The registers after a write to one of them, or to none.
LEMMA RegisterFields ==
    ASSUME blit \in BlitType, NEW bus, blit' = BlitRegister(blit, bus),
           bus.reg # "submit", bus.data \in Nat
    PROVE  /\ blit' \in BlitType /\ blit'.active = blit.active /\ blit'.wr = FALSE
           /\ blit'.start = (IF bus.reg = "start" THEN bus.data ELSE blit.start)
           /\ blit'.value = (IF bus.reg = "value" THEN bus.data ELSE blit.value)
           /\ blit'.span = (IF bus.reg = "span" THEN bus.data ELSE blit.span)
           /\ blit'.repeat = (IF bus.reg = "repeat" THEN bus.data ELSE blit.repeat)
           /\ blit'.skip = (IF bus.reg = "skip" THEN bus.data ELSE blit.skip)
  <1>1. CASE bus.reg = "start"
    BY <1>1, Zenon DEF BlitType, BlitRegister
  <1>2. CASE bus.reg = "value"
    BY <1>2, Zenon DEF BlitType, BlitRegister
  <1>3. CASE bus.reg = "span"
    BY <1>3, Zenon DEF BlitType, BlitRegister
  <1>4. CASE bus.reg = "repeat"
    BY <1>4, Zenon DEF BlitType, BlitRegister
  <1>5. CASE bus.reg = "skip"
    BY <1>5, Zenon DEF BlitType, BlitRegister
  <1>6. CASE bus.reg \notin {"start", "value", "span", "repeat", "skip"}
    <2>1. blit' = [blit EXCEPT !.wr = FALSE]
      BY <1>6 DEF BlitRegister
    <2> QED
      BY <1>6, <2>1, Zenon DEF BlitType
  <1> QED
    BY <1>1, <1>2, <1>3, <1>4, <1>5, <1>6, Zenon

LEMMA SubmitFields ==
    ASSUME blit \in BlitType, NEW bus, blit' = BlitRegister(blit, bus), bus.reg = "submit"
    PROVE  /\ blit' \in BlitType /\ blit'.active = TRUE /\ blit'.wr = FALSE
           /\ blit'.next = blit.start /\ blit'.sc = 0 /\ blit'.rc = 0
           /\ blit'.start = blit.start /\ blit'.value = blit.value /\ blit'.span = blit.span
           /\ blit'.repeat = blit.repeat /\ blit'.skip = blit.skip
  BY Zenon DEF BlitType, BlitRegister

LEMMA RectWrites ==
    ASSUME NEW r \in Rects, NEW k \in Nat
    PROVE  /\ Len(gfx_rect(r, k)) = 6
           /\ gfx_rect(r, k)[1] = Write("start", r.y * TILE_MAX_W + r.x)
           /\ gfx_rect(r, k)[2] = Write("value", k)
           /\ gfx_rect(r, k)[3] = Write("span", r.w - 1)
           /\ gfx_rect(r, k)[4] = Write("repeat", r.h - 1)
           /\ gfx_rect(r, k)[5] = Write("skip", TILE_MAX_W - (r.w - 1))
           /\ gfx_rect(r, k)[6] = Write("submit", 1)
  BY DEF gfx_rect

LEMMA RectData ==
    ASSUME NEW r \in Rects
    PROVE  /\ r.y * TILE_MAX_W + r.x \in Nat /\ r.w - 1 \in Nat /\ r.h - 1 \in Nat
           /\ TILE_MAX_W - (r.w - 1) \in Nat
  BY RectSizes, Sizes

LEMMA WriteFields ==
    ASSUME NEW reg, NEW data
    PROVE  Write(reg, data).reg = reg /\ Write(reg, data).data = data /\ Write(reg, data).at = 0
  BY DEF Write

\* Nothing on the bus: registers and tile memory stay.
LEMMA NoneEdge ==
    ASSUME blit \in BlitType, ~blit.active, Edge, Bus = None
    PROVE  /\ blit' \in BlitType /\ ~blit'.active /\ ~blit'.wr /\ vram' = vram
           /\ \A r, k, n : Loaded(r, k, n) => Loaded(r, k, n)'
  <1>1. Bus.reg = "none" /\ Bus.data = 0
    BY DEF None, Write
  <1>2. blit' = BlitRegister(blit, Bus) /\ vram' = vram
    BY <1>1, IdleEdge
  <1>3. /\ blit' \in BlitType /\ blit'.active = blit.active /\ blit'.wr = FALSE
        /\ blit'.start = blit.start /\ blit'.value = blit.value /\ blit'.span = blit.span
        /\ blit'.repeat = blit.repeat /\ blit'.skip = blit.skip
    <2>1. Bus.data \in Nat /\ Bus.reg # "submit"
      BY <1>1
    <2>2. Bus.reg \notin {"start", "value", "span", "repeat", "skip"}
      BY <1>1
    <2> QED
      BY <1>2, <2>1, <2>2, RegisterFields, Zenon
  <1> QED
    BY <1>2, <1>3 DEF Loaded

\* Write n + 1 of a rectangle on the bus.
LEMMA LoadEdge ==
    ASSUME blit \in BlitType, ~blit.active, Edge,
           NEW r \in Rects, NEW k \in Nat, NEW n \in 0..4,
           Bus = gfx_rect(r, k)[n + 1], Loaded(r, k, n)
    PROVE  /\ blit' \in BlitType /\ ~blit'.active /\ ~blit'.wr /\ vram' = vram
           /\ Loaded(r, k, n)' /\ Loaded(r, k, n + 1)'
  <1>1. /\ n = 0 => Bus.reg = "start" /\ Bus.data = r.y * TILE_MAX_W + r.x
        /\ n = 1 => Bus.reg = "value" /\ Bus.data = k
        /\ n = 2 => Bus.reg = "span" /\ Bus.data = r.w - 1
        /\ n = 3 => Bus.reg = "repeat" /\ Bus.data = r.h - 1
        /\ n = 4 => Bus.reg = "skip" /\ Bus.data = TILE_MAX_W - (r.w - 1)
    <2>1. /\ n = 0 => Bus = Write("start", r.y * TILE_MAX_W + r.x)
          /\ n = 1 => Bus = Write("value", k)
          /\ n = 2 => Bus = Write("span", r.w - 1)
          /\ n = 3 => Bus = Write("repeat", r.h - 1)
          /\ n = 4 => Bus = Write("skip", TILE_MAX_W - (r.w - 1))
      BY RectWrites
    <2> QED
      BY <2>1, WriteFields
  <1>2. n = 0 \/ n = 1 \/ n = 2 \/ n = 3 \/ n = 4
    OBVIOUS
  <1>3. Bus.data \in Nat /\ Bus.reg # "submit" /\ Bus.reg # "vram"
    BY <1>1, <1>2, RectData
  <1>4. blit' = BlitRegister(blit, Bus) /\ vram' = vram
    BY <1>3, IdleEdge
  <1>5. /\ blit' \in BlitType /\ blit'.active = blit.active /\ blit'.wr = FALSE
        /\ blit'.start = (IF Bus.reg = "start" THEN Bus.data ELSE blit.start)
        /\ blit'.value = (IF Bus.reg = "value" THEN Bus.data ELSE blit.value)
        /\ blit'.span = (IF Bus.reg = "span" THEN Bus.data ELSE blit.span)
        /\ blit'.repeat = (IF Bus.reg = "repeat" THEN Bus.data ELSE blit.repeat)
        /\ blit'.skip = (IF Bus.reg = "skip" THEN Bus.data ELSE blit.skip)
    BY <1>3, <1>4, RegisterFields, Zenon
  <1>6. Loaded(r, k, n + 1)'
    <2>1. CASE n = 0
      BY <1>1, <1>5, <2>1 DEF Loaded
    <2>2. CASE n = 1
      BY <1>1, <1>5, <2>2 DEF Loaded
    <2>3. CASE n = 2
      BY <1>1, <1>5, <2>3 DEF Loaded
    <2>4. CASE n = 3
      BY <1>1, <1>5, <2>4 DEF Loaded
    <2>5. CASE n = 4
      BY <1>1, <1>5, <2>5 DEF Loaded
    <2> QED
      BY <1>2, <2>1, <2>2, <2>3, <2>4, <2>5
  <1>7. Loaded(r, k, n)'
    BY <1>6 DEF Loaded
  <1> QED
    BY <1>4, <1>5, <1>6, <1>7

\* The submit on the bus: the fill begins.
LEMMA SubmitEdge ==
    ASSUME blit \in BlitType, ~blit.active, Edge, ops' = ops, ops \in Seq(SUBSET Words),
           NEW r \in Rects, NEW k \in 1..Len(ops), ops[k] = RectWords(r),
           Bus = gfx_rect(r, k)[6], Loaded(r, k, 5), Shows(k - 1)
    PROVE  blit' \in BlitType /\ vram' = vram /\ Filling(r, k)' /\ blit'.rc = 0
  <1>0. k \in Nat
    OBVIOUS
  <1>1. Bus.reg = "submit"
    BY <1>0, RectWrites, WriteFields
  <1>2. blit' = BlitRegister(blit, Bus) /\ vram' = vram
    BY <1>1, IdleEdge
  <1>3. /\ blit' \in BlitType /\ blit'.active = TRUE /\ blit'.wr = FALSE
        /\ blit'.next = blit.start /\ blit'.sc = 0 /\ blit'.rc = 0
        /\ blit'.start = blit.start /\ blit'.value = blit.value /\ blit'.span = blit.span
        /\ blit'.repeat = blit.repeat /\ blit'.skip = blit.skip
    BY <1>1, <1>2, SubmitFields, Zenon
  <1>4. Loaded(r, k, 5)'
    BY <1>3 DEF Loaded
  <1>5. blit'.next = Addr(r, 0, 0)
    <2>1. blit.start = r.y * TILE_MAX_W + r.x
      BY DEF Loaded
    <2>2. Addr(r, 0, 0) = r.y * TILE_MAX_W + r.x
      BY RectSizes, Sizes DEF Addr
    <2> QED
      BY <1>3, <2>1, <2>2
  <1>6. 0 \in 0..r.h /\ 0 \in 0..(r.w - 1) /\ r.h # 0
    BY RectSizes
  <1>7. ASSUME NEW a \in Words
        PROVE  Last(a, k - 1, vram[a])' /\ ~Filled(r, 0, 0, a)
    BY <1>2, FilledNone DEF Shows, Last
  <1>8. Filling(r, k)'
    BY <1>3, <1>4, <1>5, <1>6, <1>7 DEF Filling
  <1> QED
    BY <1>2, <1>3, <1>8

\* A word of text on the bus.
LEMMA PokeEdge ==
    ASSUME blit \in BlitType, ~blit.active, Edge, ops' = ops, ops \in Seq(SUBSET Words),
           vram \in [Words -> Nat],
           NEW w \in Pokes, NEW k \in 1..Len(ops), ops[k] = {w},
           Bus = Poke(w, k)[1], Shows(k - 1) \/ Shows(k)
    PROVE  /\ blit' \in BlitType /\ ~blit'.active /\ ~blit'.wr /\ Shows(k)'
           /\ vram' \in [Words -> Nat]
           /\ \A a \in Words : vram'[a] # vram[a] => vram'[a] = k /\ k > vram[a] /\ a \in ops[k]
  <1>0. k \in Nat /\ w \in Words
    BY BlitterAssumption
  <1>1. Bus.reg = "vram" /\ Bus.at = w /\ Bus.data = k
    BY DEF Poke
  <1>2. blit' = BlitRegister(blit, Bus) /\ vram' = [vram EXCEPT ![w] = k]
    BY <1>1, IdleEdge
  <1>3. blit' \in BlitType /\ blit'.active = blit.active /\ blit'.wr = FALSE
    BY <1>0, <1>1, <1>2, RegisterFields, Zenon
  <1>4. ASSUME NEW a \in Words
        PROVE  /\ Last(a, k, vram'[a])
               /\ vram'[a] # vram[a] => vram'[a] = k /\ k > vram[a] /\ a \in ops[k]
    <2>1. CASE a = w
      <3>1. vram'[a] = k /\ a \in ops[k]
        BY <1>0, <1>2, <2>1
      <3>2. vram[a] \in 0..k
        BY <1>0 DEF Shows, Last
      <3> QED
        BY <1>0, <3>1, <3>2, LastExtends
    <2>2. CASE a # w
      <3>1. vram'[a] = vram[a] /\ a \notin ops[k]
        BY <1>2, <2>2
      <3> QED
        BY <3>1, LastExtends, Zenon DEF Shows
    <2> QED
      BY <2>1, <2>2
  <1>5. Shows(k)'
    BY <1>4 DEF Shows, Last
  <1> QED
    BY <1>0, <1>2, <1>3, <1>4, <1>5

----------------------------------------------------------------------------
(* The firmware chooses its next operation. *)

LEMMA WritesTyped ==
    ASSUME NEW k \in Nat
    PROVE  /\ \A r \in Rects : gfx_rect(r, k) \in Seq(Writes)
           /\ \A w \in Pokes : Poke(w, k) \in Seq(Writes)
  <1>0. 0 \in Words
    <2>1. TILE_MAX_W \in Nat \ {0} /\ TILE_MAX_H \in Nat \ {0}
      BY Sizes
    <2>2. 1 * TILE_MAX_H <= TILE_MAX_W * TILE_MAX_H
      BY <2>1, Monotone
    <2> QED
      BY <2>1, <2>2, Sizes DEF Words
  <1>1. ASSUME NEW r \in Rects
        PROVE  gfx_rect(r, k) \in Seq(Writes)
    <2>1. /\ Write("start", r.y * TILE_MAX_W + r.x) \in Writes
          /\ Write("value", k) \in Writes
          /\ Write("span", r.w - 1) \in Writes
          /\ Write("repeat", r.h - 1) \in Writes
          /\ Write("skip", TILE_MAX_W - (r.w - 1)) \in Writes
          /\ Write("submit", 1) \in Writes
      BY <1>0, RectData DEF Write, Writes
    <2> QED
      BY <2>1 DEF gfx_rect
  <1>2. ASSUME NEW w \in Pokes
        PROVE  Poke(w, k) \in Seq(Writes)
    <2>1. [reg |-> "vram", at |-> w, data |-> k] \in Writes
      BY BlitterAssumption DEF Writes
    <2> QED
      BY <2>1 DEF Poke
  <1> QED
    BY <1>1, <1>2

\* Another operation changes nothing of those before it.
LEMMA AppendKeeps ==
    ASSUME NEW words \in SUBSET Words, ops \in Seq(SUBSET Words), ops' = Append(ops, words),
           UNCHANGED <<blit, vram>>
    PROVE  /\ Len(ops') = Len(ops) + 1 /\ ops'[Len(ops')] = words
           /\ \A r \in Rects : Filling(r, Len(ops)) => Filling(r, Len(ops) - 1)'
           /\ Shows(Len(ops)) => Shows(Len(ops) - 1)'
  <1>1. Len(ops') = Len(ops) + 1 /\ ops'[Len(ops')] = words /\ Len(ops) \in Nat
    OBVIOUS
  <1>2. \A i \in 1..Len(ops) : ops'[i] = ops[i]
    OBVIOUS
  <1>3. Len(ops') - 1 = Len(ops)
    BY <1>1
  <1>4. ASSUME NEW r \in Rects, Filling(r, Len(ops))
        PROVE  Filling(r, Len(ops) - 1)'
    <2>1. Len(ops) \in 1..Len(ops') /\ ops'[Len(ops)] = RectWords(r)
      BY <1>1, <1>2, <1>4 DEF Filling
    <2>2. Loaded(r, Len(ops), 5) => Loaded(r, Len(ops) - 1, 5)'
      BY <1>3 DEF Loaded
    <2>3. ASSUME NEW a \in Words, Last(a, Len(ops) - 1, vram[a])
          PROVE  Last(a, Len(ops) - 1 - 1, vram[a])'
      <3>1. Len(ops) - 1 \in 0..Len(ops)
        BY <1>1, <2>1
      <3>2. Last(a, Len(ops) - 1, vram[a])
        BY <2>3
      <3> QED
        BY <1>1, <1>2, <1>3, <3>1, <3>2 DEF Last
    <2> QED
      BY <1>3, <1>4, <2>1, <2>2, <2>3 DEF Filling
  <1>5. ASSUME Shows(Len(ops))
        PROVE  Shows(Len(ops) - 1)'
    BY <1>1, <1>2, <1>3, <1>5 DEF Shows, Last
  <1> QED
    BY <1>1, <1>4, <1>5

\* An operation whose writes are done has been drawn, or its fill is running.
LEMMA Submitted ==
    ASSUME IInv, todo = <<>>
    PROVE  \/ \E r \in Rects : Filling(r, Len(ops))
           \/ ~blit.active /\ Shows(Len(ops))
  <1>1. CASE ops = <<>> /\ todo = <<>> /\ ~blit.active /\ Shows(0)
    BY <1>1
  <1>2. ASSUME NEW r \in Rects, NEW n \in 0..6, RectStage(r, n)
        PROVE  Filling(r, Len(ops)) \/ (~blit.active /\ Shows(Len(ops)))
    <2>1. n = 6
      BY <1>2 DEF RectStage, Coming
    <2> QED
      BY <1>2, <2>1 DEF RectStage, Loading
  <1>3. ASSUME NEW w \in Pokes, PokeStage(w)
        PROVE  ~blit.active /\ Shows(Len(ops))
    BY <1>3 DEF PokeStage, Poke
  <1> QED
    BY <1>1, <1>2, <1>3 DEF IInv

LEMMA ChooseTypes ==
    ASSUME TypeOK, NEW words \in SUBSET Words, NEW writes \in Seq(Writes), writes # <<>>,
           Choose(words, writes)
    PROVE  TypeOK'
  BY DEF TypeOK, Choose

\* What Choose leaves of the operation before.
LEMMA ChooseStarts ==
    ASSUME IInv, NEW words \in SUBSET Words, NEW writes, Choose(words, writes)
    PROVE  /\ Len(ops') = Len(ops) + 1 /\ Len(ops) \in Nat /\ ops'[Len(ops')] = words
           /\ todo' = writes /\ cpu'.st = "idle"
           /\ Before' \/ (~blit'.active /\ Shows(Len(ops) - 1)')
  <1>1. /\ ops \in Seq(SUBSET Words) /\ ops' = Append(ops, words) /\ UNCHANGED <<blit, vram>>
        /\ todo = <<>> /\ todo' = writes /\ cpu.st = "idle" /\ cpu' = cpu
    BY DEF Choose, IInv, TypeOK
  <1>2. Len(ops') = Len(ops) + 1 /\ Len(ops) \in Nat /\ ops'[Len(ops')] = words
    BY <1>1
  <1>3. CASE \E r \in Rects : Filling(r, Len(ops))
    <2>1. \E r \in Rects : Filling(r, Len(ops) - 1)'
      BY <1>1, <1>3, AppendKeeps
    <2> QED
      BY <1>1, <1>2, <2>1 DEF Before
  <1>4. CASE ~blit.active /\ Shows(Len(ops))
    BY <1>1, <1>2, <1>4, AppendKeeps
  <1> QED
    BY <1>1, <1>3, <1>4, Submitted

LEMMA ChooseRect ==
    ASSUME IInv, NEW r \in Rects, Choose(RectWords(r), gfx_rect(r, Len(ops) + 1))
    PROVE  IInv'
  <1>1. Len(ops) \in Nat
    BY DEF IInv, TypeOK
  <1>2. /\ RectWords(r) \in SUBSET Words
        /\ gfx_rect(r, Len(ops) + 1) \in Seq(Writes) /\ gfx_rect(r, Len(ops) + 1) # <<>>
        /\ Len(gfx_rect(r, Len(ops) + 1)) = 6
    BY <1>1, RectInWords, WritesTyped DEF gfx_rect
  <1>3. TypeOK'
    BY <1>2, ChooseTypes DEF IInv
  <1>4. /\ Len(ops') = Len(ops) + 1 /\ Len(ops) \in Nat /\ ops'[Len(ops')] = RectWords(r)
        /\ todo' = gfx_rect(r, Len(ops) + 1) /\ cpu'.st = "idle"
        /\ Before' \/ (~blit'.active /\ Shows(Len(ops) - 1)')
    BY <1>2, ChooseStarts
  <1>5. RectStage(r, 0)'
    <2>1. Len(ops') > 0 /\ ops'[Len(ops')] = RectWords(r)
      BY <1>4
    <2>2. Len(todo') = 6 - 0 /\ \A i \in 1..(6 - 0) : todo'[i] = gfx_rect(r, Len(ops'))[0 + i]
      BY <1>2, <1>4
    <2>3. Loaded(r, Len(ops), 0)'
      BY DEF Loaded
    <2> QED
      BY <1>4, <2>1, <2>2, <2>3 DEF RectStage, Coming, Loading
  <1> QED
    BY <1>3, <1>5 DEF IInv

LEMMA ChoosePoke ==
    ASSUME IInv, NEW w \in Pokes, Choose({w}, Poke(w, Len(ops) + 1))
    PROVE  IInv'
  <1>1. Len(ops) \in Nat
    BY DEF IInv, TypeOK
  <1>2. /\ {w} \in SUBSET Words
        /\ Poke(w, Len(ops) + 1) \in Seq(Writes) /\ Poke(w, Len(ops) + 1) # <<>>
    BY <1>1, WritesTyped, BlitterAssumption DEF Poke
  <1>3. TypeOK'
    BY <1>2, ChooseTypes DEF IInv
  <1>4. /\ Len(ops') = Len(ops) + 1 /\ Len(ops) \in Nat /\ ops'[Len(ops')] = {w}
        /\ todo' = Poke(w, Len(ops) + 1) /\ cpu'.st = "idle"
        /\ Before' \/ (~blit'.active /\ Shows(Len(ops) - 1)')
    BY <1>2, ChooseStarts
  <1>5. PokeStage(w)'
    <2>1. Len(ops') > 0 /\ ops'[Len(ops')] = {w} /\ todo' = Poke(w, Len(ops'))
      BY <1>4
    <2> QED
      BY <1>4, <2>1 DEF PokeStage
  <1> QED
    BY <1>3, <1>5 DEF IInv

----------------------------------------------------------------------------
(* A clock, by what the CPU does and how far the operation is. *)

CpuStep == Idle \/ Rest \/ Strobe \/ Wait \/ Sample \/ Hold \/ Release

\* No word goes back to an earlier operation, or to one that does not draw it.
Forward ==
    \A a \in Words : vram'[a] # vram[a] => vram'[a] > vram[a] /\ a \in ops[vram'[a]]

EdgeOK ==
    /\ blit' \in BlitType /\ (blit'.wr => blit'.active)
    /\ vram' \in [Words -> Nat]
    /\ Forward

LEMMA CpuTypes ==
    ASSUME TypeOK, CpuStep
    PROVE  /\ Edge /\ ops' = ops /\ phi2' = ~phi2 /\ phi2' \in BOOLEAN
           /\ cpu' \in [st : {"idle", "wait", "hold"}, n : Nat]
           /\ cpu'.st = "hold" => cpu'.n \in {0, 1}
           /\ cpu'.st # "idle" => todo' # <<>>
           /\ todo' \in Seq(Writes)
  <1>1. Edge /\ ops' = ops /\ phi2' = ~phi2 /\ phi2' \in BOOLEAN
    BY Zenon DEF CpuStep, Idle, Rest, Strobe, Wait, Sample, Hold, Release, Edge
  <1>2. CASE Idle
    BY <1>1, <1>2 DEF TypeOK, Idle
  <1>3. CASE Rest
    BY <1>1, <1>3 DEF TypeOK, Rest
  <1>4. CASE Strobe
    BY <1>1, <1>4 DEF TypeOK, Strobe
  <1>5. CASE Wait
    BY <1>1, <1>5 DEF TypeOK, Wait
  <1>6. CASE Sample
    BY <1>1, <1>6 DEF TypeOK, Sample
  <1>7. CASE Hold
    BY <1>1, <1>7 DEF TypeOK, Hold
  <1>8. CASE Release
    BY <1>1, <1>8, BlitterAssumption DEF TypeOK, Release
  <1> QED
    BY <1>2, <1>3, <1>4, <1>5, <1>6, <1>7, <1>8 DEF CpuStep

LEMMA FillStep ==
    ASSUME TypeOK, NEW r \in Rects, NEW k, Filling(r, k), Edge, ops' = ops
    PROVE  /\ EdgeOK
           /\ Filling(r, k)' \/ (~blit'.active /\ Shows(k)')
           /\ blit.rc = 0 => Filling(r, k)'
  <1>1. blit \in BlitType /\ vram \in [Words -> Nat] /\ ops \in Seq(SUBSET Words)
    BY DEF TypeOK
  <1>2. vram' \in [Words -> Nat] /\ Forward
    BY <1>1, FillPort DEF Forward
  <1>3. CASE Done(blit)
    <2>1. blit' \in BlitType /\ ~blit'.active /\ ~blit'.wr /\ Shows(k)'
      BY <1>1, <1>3, FillEnds
    <2>2. blit.rc # 0
      BY <1>1, <1>3 DEF Done, BlitType
    <2> QED
      BY <1>2, <2>1, <2>2 DEF EdgeOK
  <1>4. CASE ~Done(blit)
    <2>1. blit' \in BlitType /\ Filling(r, k)'
      BY <1>1, <1>4, FillGoesOn
    <2>2. blit'.active
      BY <2>1 DEF Filling
    <2> QED
      BY <1>2, <2>1, <2>2 DEF EdgeOK
  <1> QED
    BY <1>3, <1>4

\* The tile memory as it is.
LEMMA SameMemory ==
    ASSUME TypeOK, vram' = vram, ops' = ops, blit' \in BlitType, ~blit'.wr
    PROVE  /\ EdgeOK
           /\ \A n : Shows(n) => Shows(n)'
  <1>1. EdgeOK
    BY DEF EdgeOK, Forward, TypeOK
  <1>2. \A n : Shows(n) => Shows(n)'
    BY DEF Shows, Last
  <1> QED
    BY <1>1, <1>2

\* The CPU waits for the fill of the operation before.
LEMMA BeforeStep ==
    ASSUME TypeOK, Before, todo # <<>>, CpuStep
    PROVE  /\ EdgeOK /\ todo' = todo /\ cpu'.st # "hold"
           /\ Before' \/ (~blit'.active /\ Shows(Len(ops) - 1)')
  <1>1. PICK r \in Rects : Filling(r, Len(ops) - 1)
    BY DEF Before
  <1>2. Edge /\ ops' = ops
    BY CpuTypes
  <1>3. EdgeOK /\ (Filling(r, Len(ops) - 1)' \/ (~blit'.active /\ Shows(Len(ops) - 1)'))
    <2>1. EdgeOK /\ (Filling(r, Len(ops) - 1)' \/ (~blit'.active /\ Shows(Len(ops) - 1)'))
      BY <1>1, <1>2, FillStep
    <2> QED
      BY <2>1
  <1>4. blit.active /\ cpu.st # "hold"
    BY <1>1 DEF Filling, Before
  <1>5. todo' = todo /\ cpu'.st # "hold"
    <2>1. CASE Idle
      BY <2>1 DEF Idle, TypeOK
    <2>2. CASE Rest
      BY <2>2 DEF Rest
    <2>3. CASE Strobe
      BY <2>3 DEF Strobe
    <2>4. CASE Wait
      BY <2>4, <1>4 DEF Wait
    <2>5. CASE Sample \/ Hold \/ Release
      BY <2>5, <1>4 DEF Sample, Hold, Release, DTACKn
    <2> QED
      BY <2>1, <2>2, <2>3, <2>4, <2>5 DEF CpuStep
  <1> QED
    BY <1>3, <1>5 DEF Before

\* The bus carries the first of the writes to come while the strobes are asserted.
LEMMA BusIs ==
    ASSUME TypeOK, CpuStep
    PROVE  /\ cpu.st = "idle" => Bus = None
           /\ cpu.st # "idle" => todo # <<>> /\ Bus = todo[1]
  <1>1. cpu.st \in {"idle", "wait", "hold"} /\ todo \in Seq(Writes)
    BY DEF TypeOK
  <1>2. cpu.st # "idle" => todo # <<>> /\ cpu.st \in {"wait", "hold"}
    BY <1>1 DEF TypeOK
  <1> QED
    BY <1>1, <1>2 DEF Bus

LEMMA ComingTail ==
    ASSUME todo \in Seq(Writes), NEW r, NEW n \in 0..5, Coming(r, n), ops' = ops,
           todo' = Tail(todo)
    PROVE  Coming(r, n + 1)'
  <1>1. Len(todo') = 6 - (n + 1)
    BY DEF Coming
  <1>2. ASSUME NEW i \in 1..(6 - (n + 1))
        PROVE  todo'[i] = gfx_rect(r, Len(ops))[n + 1 + i]
    <2>1. todo'[i] = todo[i + 1]
      BY DEF Coming
    <2>2. i + 1 \in 1..(6 - n) /\ n + (i + 1) = n + 1 + i
      OBVIOUS
    <2> QED
      BY <2>1, <2>2 DEF Coming
  <1> QED
    BY <1>1, <1>2 DEF Coming

\* One of the five register writes is on the bus.
LEMMA LoadStep ==
    ASSUME TypeOK, NEW r \in Rects, NEW n \in 0..4, Loading(r, n), Coming(r, n), CpuStep,
           cpu.st # "idle", Len(ops) > 0
    PROVE  /\ EdgeOK
           /\ ~blit'.active /\ Shows(Len(ops) - 1)'
           /\ Loaded(r, Len(ops), n)' /\ Loaded(r, Len(ops), n + 1)'
  <1>1. Edge /\ ops' = ops /\ ops \in Seq(SUBSET Words) /\ blit \in BlitType
    BY CpuTypes DEF TypeOK
  <1>2. Len(ops) \in Nat
    BY <1>1
  <1>3. Bus = gfx_rect(r, Len(ops))[n + 1]
    BY BusIs DEF Coming
  <1>4. ~blit.active /\ Loaded(r, Len(ops), n) /\ Shows(Len(ops) - 1)
    BY DEF Loading
  <1>5. /\ blit' \in BlitType /\ ~blit'.active /\ ~blit'.wr /\ vram' = vram
        /\ Loaded(r, Len(ops), n)' /\ Loaded(r, Len(ops), n + 1)'
    <2>1. \A k \in Nat : Bus = gfx_rect(r, k)[n + 1] /\ Loaded(r, k, n) =>
            /\ blit' \in BlitType /\ ~blit'.active /\ ~blit'.wr /\ vram' = vram
            /\ Loaded(r, k, n)' /\ Loaded(r, k, n + 1)'
      BY <1>1, <1>4, LoadEdge
    <2> QED
      BY <1>1, <1>2, <1>3, <1>4, <2>1 DEF Loaded
  <1>6. EdgeOK /\ Shows(Len(ops) - 1)'
    BY <1>1, <1>4, <1>5, SameMemory DEF Shows, Last
  <1> QED
    BY <1>5, <1>6

\* Nothing is on the bus.
LEMMA QuietStep ==
    ASSUME TypeOK, CpuStep, cpu.st = "idle", ~blit.active
    PROVE  /\ EdgeOK /\ ~blit'.active
           /\ \A n : Shows(n) => Shows(n)'
           /\ \A r, k, n : Loaded(r, k, n) => Loaded(r, k, n)'
  <1>1. Edge /\ ops' = ops /\ blit \in BlitType /\ Bus = None
    BY CpuTypes, BusIs DEF TypeOK
  <1>2. /\ blit' \in BlitType /\ ~blit'.active /\ ~blit'.wr /\ vram' = vram
        /\ \A r, k, n : Loaded(r, k, n) => Loaded(r, k, n)'
    BY <1>1, NoneEdge
  <1> QED
    BY <1>1, <1>2, SameMemory

\* The stages of a rectangle.
LEMMA RectStep ==
    ASSUME TypeOK, NEW r \in Rects, NEW n \in 0..6, RectStage(r, n), CpuStep
    PROVE  EdgeOK /\ \E m \in 0..6 : RectStage(r, m)'
  <1>1. /\ Edge /\ ops' = ops /\ phi2' = ~phi2 /\ todo \in Seq(Writes) /\ phi2 \in BOOLEAN
        /\ ops \in Seq(SUBSET Words) /\ blit \in BlitType /\ Len(ops) \in Nat
    BY CpuTypes DEF TypeOK
  <1>2. /\ Len(ops) > 0 /\ ops[Len(ops)] = RectWords(r) /\ Coming(r, n)
        /\ n # 6 <=> todo # <<>>
    BY <1>1 DEF RectStage, Coming
  <1>3. Len(ops') > 0 /\ ops'[Len(ops')] = RectWords(r)
    BY <1>1, <1>2
  <1>4. todo' = todo => Coming(r, n)'
    BY <1>1, <1>2 DEF Coming
  <1>5. CASE n = 0 /\ Before
    <2>1. /\ EdgeOK /\ todo' = todo /\ cpu'.st # "hold"
          /\ Before' \/ (~blit'.active /\ Shows(Len(ops) - 1)')
      BY <1>2, <1>5, BeforeStep
    <2>2. CASE Before'
      BY <1>3, <1>4, <1>5, <2>1, <2>2 DEF RectStage
    <2>3. CASE ~blit'.active /\ Shows(Len(ops) - 1)'
      <3>1. Loading(r, n)'
        BY <1>5, <2>1, <2>3 DEF Loading, Loaded
      <3> QED
        BY <1>3, <1>4, <2>1, <3>1 DEF RectStage
    <2> QED
      BY <2>1, <2>2, <2>3
  <1>6. CASE Loading(r, n)
    <2>1. n \in 0..5 /\ ~blit.active /\ Shows(Len(ops) - 1) /\ Loaded(r, Len(ops), n)
      BY <1>6 DEF Loading
    <2>2. CASE cpu.st = "idle"
      <3>1. /\ EdgeOK /\ ~blit'.active /\ Shows(Len(ops) - 1)' /\ Loaded(r, Len(ops), n)'
        <4>1. /\ EdgeOK /\ ~blit'.active
              /\ \A m : Shows(m) => Shows(m)'
              /\ \A k : Loaded(r, k, n) => Loaded(r, k, n)'
          BY <2>1, <2>2, QuietStep
        <4> QED
          BY <1>1, <2>1, <4>1
      <3>2. todo' = todo /\ cpu'.st # "hold" /\ (cpu'.st = "wait" => phi2')
        <4>1. CASE Idle \/ Rest
          BY <2>2, <4>1 DEF Idle, Rest, TypeOK
        <4>2. CASE Strobe
          BY <1>1, <4>2, Zenon DEF Strobe
        <4>3. CASE Wait \/ Sample \/ Hold \/ Release
          BY <2>2, <4>3 DEF Wait, Sample, Hold, Release
        <4> QED
          BY <4>1, <4>2, <4>3 DEF CpuStep
      <3>3. Loading(r, n)'
        BY <2>1, <3>1, <3>2 DEF Loading
      <3> QED
        BY <1>3, <1>4, <3>1, <3>2, <3>3 DEF RectStage
    <2>3. CASE cpu.st # "idle" /\ n < 5
      <3>1. /\ EdgeOK
            /\ ~blit'.active /\ Shows(Len(ops) - 1)'
            /\ Loaded(r, Len(ops), n)' /\ Loaded(r, Len(ops), n + 1)'
        BY <1>2, <1>6, <2>1, <2>3, LoadStep
      <3>2. CASE Release
        <4>1. todo' = Tail(todo) /\ cpu'.st = "idle"
          BY <3>2 DEF Release
        <4>2. n + 1 \in 0..6 /\ n + 1 < 6
          BY <2>1, <2>3
        <4>3. Loading(r, n + 1)'
          BY <3>1, <4>1, <4>2 DEF Loading
        <4>4. Coming(r, n + 1)'
          <5>1. n \in 0..5 /\ todo \in Seq(Writes) /\ ops' = ops /\ Coming(r, n)
            BY <1>1, <1>2, <2>1
          <5> QED
            BY <4>1, <5>1, ComingTail
        <4> QED
          BY <1>3, <3>1, <4>2, <4>3, <4>4 DEF RectStage
      <3>3. CASE ~Release
        <4>1. todo' = todo
          BY <3>3 DEF CpuStep, Idle, Rest, Strobe, Wait, Sample, Hold
        <4>2. Loading(r, n)'
          BY <2>1, <2>3, <3>1 DEF Loading
        <4> QED
          BY <1>3, <1>4, <3>1, <4>1, <4>2 DEF RectStage
      <3> QED
        BY <3>2, <3>3
    <2>4. CASE cpu.st # "idle" /\ n = 5
      <3>1. cpu.st = "wait" /\ phi2
        BY <1>6, <2>4 DEF Loading, TypeOK
      <3>2. Sample
        BY <2>1, <3>1 DEF CpuStep, Idle, Rest, Strobe, Wait, Hold, Release, DTACKn
      <3>3. todo' = todo /\ cpu'.st = "hold"
        BY <3>2 DEF Sample
      <3>4. Bus = gfx_rect(r, Len(ops))[6]
        BY <1>2, <2>4, BusIs DEF Coming
      <3>5. blit' \in BlitType /\ vram' = vram /\ Filling(r, Len(ops))' /\ blit'.rc = 0
        <4>1. Len(ops) \in 1..Len(ops)
          BY <1>1, <1>2
        <4>2. /\ blit' \in BlitType /\ vram' = vram /\ blit'.rc = 0
              /\ \A k : k = Len(ops) => Filling(r, k)'
          BY <1>1, <1>2, <2>1, <2>4, <3>4, <4>1, SubmitEdge
        <4> QED
          BY <1>1, <4>2
      <3>6. EdgeOK
        BY <3>5 DEF EdgeOK, Forward, TypeOK, Filling
      <3> QED
        BY <1>3, <1>4, <2>4, <3>3, <3>5, <3>6 DEF RectStage
    <2> QED
      BY <2>1, <2>2, <2>3, <2>4
  <1>7. CASE n = 5 /\ Filling(r, Len(ops)) /\ cpu.st = "hold" /\ (cpu.n = 1 => blit.rc = 0)
    <2>1. /\ EdgeOK
          /\ Filling(r, Len(ops))' \/ (~blit'.active /\ Shows(Len(ops))')
          /\ blit.rc = 0 => Filling(r, Len(ops))'
      BY <1>1, <1>7, FillStep
    <2>2. CASE Hold
      <3>1. cpu.n = 1 /\ todo' = todo /\ cpu'.st = "hold" /\ cpu'.n = 0
        BY <1>7, <2>2 DEF Hold, TypeOK
      <3>2. Filling(r, Len(ops))' /\ cpu'.n # 1
        BY <1>7, <2>1, <3>1
      <3>3. RectStage(r, 5)'
        BY <1>3, <1>4, <1>7, <3>1, <3>2, Zenon DEF RectStage
      <3> QED
        BY <2>1, <3>3
    <2>3. CASE Release
      <3>1. todo' = Tail(todo) /\ 6 \in 0..6 /\ n + 1 = 6
        BY <1>7, <2>3 DEF Release
      <3>2. Coming(r, 6)'
        <4>1. n \in 0..5 /\ todo \in Seq(Writes) /\ ops' = ops /\ Coming(r, n)
          BY <1>1, <1>2, <1>7
        <4>2. Coming(r, n + 1)'
          BY <3>1, <4>1, ComingTail, Zenon
        <4> QED
          BY <3>1, <4>2
      <3> QED
        BY <1>3, <2>1, <3>1, <3>2, Zenon DEF RectStage
    <2> QED
      BY <1>7, <2>2, <2>3, Zenon DEF CpuStep, Idle, Rest, Strobe, Wait, Sample
  <1>8. CASE n = 6
    <2>1. cpu.st = "idle" /\ todo' = todo
      <3>1. todo = <<>> /\ cpu.st = "idle"
        BY <1>2, <1>8 DEF TypeOK
      <3> QED
        BY <3>1 DEF CpuStep, Idle, Rest, Strobe, Wait, Sample, Hold, Release
    <2>2. CASE Filling(r, Len(ops))
      <3>1. EdgeOK /\ (Filling(r, Len(ops))' \/ (~blit'.active /\ Shows(Len(ops))'))
        BY <1>1, <2>2, FillStep
      <3> QED
        BY <1>3, <1>4, <1>8, <2>1, <3>1, Zenon DEF RectStage
    <2>3. CASE ~blit.active /\ Shows(Len(ops))
      <3>1. EdgeOK /\ ~blit'.active /\ Shows(Len(ops))'
        <4>1. EdgeOK /\ ~blit'.active /\ \A m : Shows(m) => Shows(m)'
          BY <2>1, <2>3, QuietStep, Zenon
        <4> QED
          BY <1>1, <2>3, <4>1
      <3> QED
        BY <1>3, <1>4, <1>8, <2>1, <3>1, Zenon DEF RectStage
    <2> QED
      BY <1>8, <2>2, <2>3 DEF RectStage, Loading
  <1> QED
    BY <1>5, <1>6, <1>7, <1>8 DEF RectStage

\* The stages of a word of text.
LEMMA PokeStep ==
    ASSUME TypeOK, NEW w \in Pokes, PokeStage(w), CpuStep
    PROVE  EdgeOK /\ PokeStage(w)'
  <1>1. /\ Edge /\ ops' = ops /\ todo \in Seq(Writes) /\ vram \in [Words -> Nat]
        /\ ops \in Seq(SUBSET Words) /\ blit \in BlitType /\ Len(ops) \in Nat
    BY CpuTypes DEF TypeOK
  <1>2. Len(ops) > 0 /\ ops[Len(ops)] = {w} /\ Len(ops') > 0 /\ ops'[Len(ops')] = {w}
    BY <1>1 DEF PokeStage
  <1>3. Poke(w, Len(ops)) # <<>> /\ Tail(Poke(w, Len(ops))) = <<>>
    BY DEF Poke
  <1>4. CASE todo = Poke(w, Len(ops)) /\ Before
    <2>1. /\ EdgeOK /\ todo' = todo /\ cpu'.st # "hold"
          /\ Before' \/ (~blit'.active /\ Shows(Len(ops) - 1)')
      BY <1>3, <1>4, BeforeStep
    <2>2. todo' = Poke(w, Len(ops'))
      BY <1>1, <1>4, <2>1
    <2> QED
      BY <1>2, <2>1, <2>2 DEF PokeStage
  <1>5. CASE /\ todo = Poke(w, Len(ops)) /\ ~blit.active
             /\ Shows(Len(ops) - 1) \/ Shows(Len(ops))
    <2>1. CASE cpu.st = "idle"
      <3>1. /\ EdgeOK /\ ~blit'.active
            /\ \A m : Shows(m) => Shows(m)'
        BY <1>5, <2>1, QuietStep
      <3>2. Shows(Len(ops) - 1)' \/ Shows(Len(ops))'
        BY <1>1, <1>5, <3>1
      <3>3. todo' = todo /\ cpu'.st # "hold"
        BY <2>1 DEF CpuStep, Idle, Rest, Strobe, Wait, Sample, Hold, Release, TypeOK
      <3>4. todo' = Poke(w, Len(ops'))
        BY <1>1, <1>5, <3>3
      <3> QED
        BY <1>2, <3>1, <3>2, <3>3, <3>4 DEF PokeStage
    <2>2. CASE cpu.st # "idle"
      <3>1. Bus = Poke(w, Len(ops))[1] /\ Len(ops) \in 1..Len(ops)
        BY <1>1, <1>2, <1>5, <2>2, BusIs
      <3>2. /\ blit' \in BlitType /\ ~blit'.active /\ ~blit'.wr /\ vram' \in [Words -> Nat]
            /\ \A k : k = Len(ops) => Shows(k)'
            /\ \A a \in Words : vram'[a] # vram[a] =>
                    vram'[a] = Len(ops) /\ Len(ops) > vram[a] /\ a \in ops[Len(ops)]
        BY <1>1, <1>2, <1>5, <3>1, PokeEdge
      <3>3. Shows(Len(ops))'
        BY <1>1, <3>2
      <3>4. EdgeOK
        BY <3>2 DEF EdgeOK, Forward
      <3>5. CASE Release
        <4>1. todo' = <<>>
          BY <1>3, <1>5, <3>5 DEF Release
        <4> QED
          BY <1>2, <3>2, <3>3, <3>4, <4>1 DEF PokeStage
      <3>6. CASE ~Release
        <4>1. todo' = todo
          BY <3>6 DEF CpuStep, Idle, Rest, Strobe, Wait, Sample, Hold
        <4>2. todo' = Poke(w, Len(ops'))
          BY <1>1, <1>5, <4>1
        <4> QED
          BY <1>2, <3>2, <3>3, <3>4, <4>2 DEF PokeStage
      <3> QED
        BY <3>5, <3>6
    <2> QED
      BY <2>1, <2>2
  <1>6. CASE todo = <<>> /\ ~blit.active /\ Shows(Len(ops))
    <2>1. cpu.st = "idle" /\ todo' = todo
      BY <1>6 DEF TypeOK, CpuStep, Idle, Rest, Strobe, Wait, Sample, Hold, Release
    <2>2. /\ EdgeOK /\ ~blit'.active
          /\ \A m : Shows(m) => Shows(m)'
      BY <1>6, <2>1, QuietStep
    <2>3. Shows(Len(ops))'
      BY <1>1, <1>6, <2>2
    <2> QED
      BY <1>2, <1>6, <2>1, <2>2, <2>3 DEF PokeStage
  <1> QED
    BY <1>4, <1>5, <1>6 DEF PokeStage

\* Before the first operation the CPU does nothing.
LEMMA ClockStep ==
    ASSUME IInv, CpuStep
    PROVE  EdgeOK /\ IInv'
  <1>1. TypeOK
    BY DEF IInv
  <1>2. EdgeOK => TypeOK'
    BY <1>1, CpuTypes DEF TypeOK, EdgeOK
  <1>3. CASE ops = <<>> /\ todo = <<>>
    <2>1. Len(ops) # MaxOps /\ cpu.st = "idle"
      BY <1>1, <1>3, BlitterAssumption DEF TypeOK
    <2> QED
      BY <1>3, <2>1 DEF CpuStep, Idle, Rest, Strobe, Wait, Sample, Hold, Release
  <1>4. ASSUME NEW r \in Rects, NEW n \in 0..6, RectStage(r, n)
        PROVE  EdgeOK /\ IInv'
    <2>1. EdgeOK /\ \E m \in 0..6 : RectStage(r, m)'
      BY <1>1, <1>4, RectStep
    <2> QED
      BY <1>2, <2>1 DEF IInv
  <1>5. ASSUME NEW w \in Pokes, PokeStage(w)
        PROVE  EdgeOK /\ IInv'
    <2>1. EdgeOK /\ PokeStage(w)'
      BY <1>1, <1>5, PokeStep
    <2> QED
      BY <1>2, <2>1 DEF IInv
  <1> QED
    BY <1>3, <1>4, <1>5 DEF IInv

----------------------------------------------------------------------------
(* The theorems. *)

LEMMA InitInv == Init => IInv
  <1> SUFFICES ASSUME Init
               PROVE  IInv
    OBVIOUS
  <1>1. TypeOK
    <2>1. blit \in BlitType /\ ~blit.wr
      BY DEF Init, BlitType
    <2>2. vram \in [Words -> Nat] /\ phi2 \in BOOLEAN
      BY Zenon DEF Init
    <2>3. cpu \in [st : {"idle", "wait", "hold"}, n : Nat] /\ cpu.st = "idle"
      BY DEF Init
    <2>4. todo \in Seq(Writes) /\ ops \in Seq(SUBSET Words)
      BY DEF Init
    <2> QED
      BY <2>1, <2>2, <2>3, <2>4 DEF TypeOK
  <1>2. Shows(0)
    BY DEF Init, Shows, Last
  <1> QED
    BY <1>1, <1>2 DEF Init, IInv

LEMMA NextInv == IInv /\ [Next]_vars => IInv'
  <1> SUFFICES ASSUME IInv, [Next]_vars
               PROVE  IInv'
    OBVIOUS
  <1>1. ASSUME NEW r \in Rects, Choose(RectWords(r), gfx_rect(r, Len(ops) + 1))
        PROVE  IInv'
    BY <1>1, ChooseRect
  <1>2. ASSUME NEW w \in Pokes, Choose({w}, Poke(w, Len(ops) + 1))
        PROVE  IInv'
    BY <1>2, ChoosePoke
  <1>3. CASE CpuStep
    BY <1>3, ClockStep
  <1>4. CASE UNCHANGED vars
    <2>1. UNCHANGED <<blit, vram, phi2, cpu, todo, ops>>
      BY <1>4 DEF vars
    <2>2. TypeOK'
      BY <2>1 DEF IInv, TypeOK
    <2>3. \A n : Shows(n) => Shows(n)'
      BY <2>1 DEF Shows, Last
    <2>4. ASSUME NEW r \in Rects, NEW k, Filling(r, k)
          PROVE  Filling(r, k)'
      <3>1. Loaded(r, k, 5) => Loaded(r, k, 5)'
        BY <2>1 DEF Loaded
      <3>2. \A a \in Words : Last(a, k - 1, vram[a]) => Last(a, k - 1, vram[a])'
        BY <2>1 DEF Last
      <3> QED
        BY <2>1, <2>4, <3>1, <3>2, Zenon DEF Filling
    <2>5. Before => Before'
      BY <2>1, <2>4 DEF Before
    <2>6. ASSUME NEW r \in Rects, NEW n \in 0..6, RectStage(r, n)
          PROVE  RectStage(r, n)'
      <3>1. \A k, m : Loaded(r, k, m) => Loaded(r, k, m)'
        BY <2>1 DEF Loaded
      <3>2. Coming(r, n) => Coming(r, n)'
        BY <2>1 DEF Coming
      <3>3. Shows(Len(ops) - 1) => Shows(Len(ops) - 1)'
        BY <2>1, <2>3
      <3>4. Loading(r, n) => Loading(r, n)'
        BY <2>1, <3>1, <3>3 DEF Loading
      <3>5. /\ Filling(r, Len(ops)) => Filling(r, Len(ops))'
            /\ Shows(Len(ops)) => Shows(Len(ops))'
        BY <2>1, <2>3, <2>4
      <3> QED
        BY <2>1, <2>5, <2>6, <3>2, <3>4, <3>5, Zenon DEF RectStage
    <2>7. \A w \in Pokes : PokeStage(w) => PokeStage(w)'
      BY <2>1, <2>3, <2>5 DEF PokeStage
    <2> QED
      BY <2>1, <2>2, <2>3, <2>6, <2>7 DEF IInv
  <1> QED
    BY <1>1, <1>2, <1>3, <1>4, Zenon DEF Next, CpuStep

\* The stages describe every reachable state (blitter.sv:32-85, gfx.c:137-148).
THEOREM Invariance == Spec => []IInv
  BY InitInv, NextInv, PTL DEF Spec

LEMMA LastIsDrawn ==
    ASSUME ops \in Seq(SUBSET Words), NEW a \in Words, NEW v, Last(a, Len(ops), v)
    PROVE  v = Drawn(a)
  <1> DEFINE over == {k \in 1..Len(ops) : a \in ops[k]}
  <1>1. CASE v = 0
    <2>1. over = {}
      BY <1>1 DEF Last
    <2> QED
      BY <1>1, <2>1 DEF Drawn
  <1>2. CASE v # 0
    <2>1. v \in over /\ \A j \in over : j <= v
      BY <1>2 DEF Last
    <2>2. \A k \in over : (\A j \in over : j <= k) => k = v
      BY <2>1
    <2>3. (CHOOSE k \in over : \A j \in over : j <= k) = v
      BY <2>1, <2>2
    <2> QED
      BY <2>1, <2>3 DEF Drawn
  <1> QED
    BY <1>1, <1>2

\* Whatever the rectangles, the text and the pace of the CPU, an idle blitter has
\* drawn all the operations one after the other (blitter.sv:32-85, system.sv:248).
THEOREM AlwaysInOrder == Spec => []DrawsInOrder
  <1>1. IInv => DrawsInOrder
    <2> SUFFICES ASSUME IInv, todo = <<>>, ~blit.active, NEW a \in Words
                 PROVE  vram[a] = Drawn(a)
      BY DEF DrawsInOrder
    <2>1. ops \in Seq(SUBSET Words)
      BY DEF IInv, TypeOK
    <2>2. Shows(Len(ops))
      BY Submitted DEF Filling
    <2> QED
      BY <2>1, <2>2, LastIsDrawn DEF Shows
  <1> QED
    BY <1>1, Invariance, PTL

\* No step of the blitter or the CPU sets a word back to an earlier operation, or to
\* one that does not draw it (blitter.sv:36-52, system.sv:370-384).
THEOREM AlwaysForward == Spec => NeverBackwards
  <1> DEFINE A == \A a \in Words : vram'[a] # vram[a] => vram'[a] > vram[a] /\ a \in ops[vram'[a]]
  <1>1. IInv /\ [Next]_vars => [A]_vars
    <2> SUFFICES ASSUME IInv, Next
                 PROVE  A
      BY Zenon
    <2>1. CASE CpuStep
      BY <2>1, ClockStep DEF EdgeOK, Forward
    <2>2. CASE vram' = vram
      BY <2>2
    <2> QED
      BY <2>1, <2>2 DEF Next, CpuStep, Choose
  <1> QED
    BY <1>1, Invariance, PTL DEF Spec, NeverBackwards
=============================================================================
