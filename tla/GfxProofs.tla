----------------------------- MODULE GfxProofs ------------------------------
(***************************************************************************)
(* The drawing layer, for every length of contexts[] above two and every   *)
(* size of the bars and of the status that GfxAssumption allows: the stack *)
(* stays in bounds, every iteration starts with the whole screen and a     *)
(* clear page, and what it draws is on the screen, in its window and on    *)
(* top of nothing.                                                         *)
(*                                                                         *)
(* Draft says what drawing has changed so far, and each operation of gfx.c *)
(* has a lemma that adds to it; so each screen's picture is an explicit    *)
(* set of rectangles, and the invariant Sound is about the state between   *)
(* two iterations.                                                         *)
(***************************************************************************)
EXTENDS Gfx, TLAPS

Regions == [x : Int, y : Int, w : Int, h : Int]
Contexts == [r : Regions, y : Int, menu : BOOLEAN]
Kinds == {"text", "frame", "mark", "bar", "image"}
Things == [what : Kinds, at : Regions, in : Regions]
Pages == [cleared : Regions, things : SUBSET Things, fresh : BOOLEAN]
States ==
    [contexts : [0..NUM_CTX -> Contexts], context_idx : Nat, ctx : 0..NUM_CTX, deepest : Nat,
     page_front : {0, 1}, vram : {0, 1}, page : [{0, 1} -> Pages]]

\* The page that is drawn on, and what is on it.
Page(d) == d.page[d.vram]
Picture(d) == Page(d).things

Ctx(r, y, menu) == [r |-> r, y |-> y, menu |-> menu]

\* From d to e only the current context and the picture have changed, and no more than
\* two windows have been open.
Keeps(d, e) ==
    /\ e \in States
    /\ e.context_idx = d.context_idx /\ e.ctx = d.ctx
    /\ d.deepest <= 2 => e.deepest <= 2
    /\ e.page_front = d.page_front /\ e.vram = d.vram
    /\ \A i \in 0..NUM_CTX : i < d.ctx => e.contexts[i] = d.contexts[i]
    /\ Page(e).cleared = Page(d).cleared /\ Page(e).fresh = Page(d).fresh
    /\ \A p \in {0, 1} : p # d.vram => e.page[p] = d.page[p]

\* And the picture has the things ts more.
Draws(d, e, c, ts) == Keeps(d, e) /\ Cur(e) = c /\ Picture(e) = Picture(d) \union ts

\* Drawing that began in the state o has come to d, with the current context and the
\* things drawn so far.
Draft(o, d, r, y, menu, ts) ==
    /\ d \in States /\ r \in Regions /\ y \in Int /\ menu \in BOOLEAN
    /\ Draws(o, d, Ctx(r, y, menu), ts)

LEMMA ContextTypes ==
    /\ \A x, y, w, h \in Int : Region(x, y, w, h) \in Regions
    /\ \A r \in Regions, y \in Int, menu \in BOOLEAN : Ctx(r, y, menu) \in Contexts
    /\ \A c \in Contexts : c = Ctx(c.r, c.y, c.menu) /\ c.r \in Regions /\ c.y \in Int /\ c.menu \in BOOLEAN
    /\ \A r \in Regions : /\ r.x \in Int /\ r.y \in Int /\ r.w \in Int /\ r.h \in Int
                          /\ r = Region(r.x, r.y, r.w, r.h)
  BY DEF Regions, Contexts, Region, Ctx

LEMMA ThingTypes ==
    ASSUME NEW what \in Kinds, NEW r \in Regions, NEW x \in Int, NEW y \in Int,
           NEW w \in Int, NEW h \in Int
    PROVE  Thing(what, r, x, y, w, h) \in Things
  BY DEF Regions, Region, Thing, Things

LEMMA StateTypes ==
    ASSUME NEW d \in States
    PROVE  /\ d.contexts \in [0..NUM_CTX -> Contexts] /\ d.ctx \in 0..NUM_CTX
           /\ d.context_idx \in Nat /\ d.deepest \in Nat
           /\ d.page_front \in {0, 1} /\ d.vram \in {0, 1} /\ d.page \in [{0, 1} -> Pages]
           /\ Cur(d) \in Contexts /\ Page(d) \in Pages /\ Picture(d) \subseteq Things
  BY Zenon DEF States, Cur, Page, Picture, Pages

LEMMA DrawsThen ==
    ASSUME NEW d, NEW e, NEW f, NEW c, NEW b, NEW ts, NEW us,
           Draws(d, e, c, ts), Draws(e, f, b, us)
    PROVE  Draws(d, f, b, ts \union us)
  <1>1. Keeps(d, f)
    BY DEF Draws, Keeps
  <1> QED
    BY <1>1 DEF Draws

LEMMA AddIs ==
    ASSUME NEW d \in States, NEW t \in Things
    PROVE  Draws(d, Add(d, t), Cur(d), {t})
  <1>1. PICK p, q, pg, e :
            /\ p = d.page[d.vram] /\ q = [p EXCEPT !.things = @ \union {t}]
            /\ pg = [d.page EXCEPT ![d.vram] = q] /\ e = [d EXCEPT !.page = pg]
    BY Zenon
  <1>2. Add(d, t) = e
    BY <1>1, Zenon DEF Add
  <1>3. p \in Pages /\ d.page \in [{0, 1} -> Pages] /\ d.vram \in {0, 1}
    BY <1>1, Zenon DEF States
  <1>4. q.things = p.things \union {t} /\ q.cleared = p.cleared /\ q.fresh = p.fresh /\ q \in Pages
    BY <1>1, <1>3, SMT DEF Pages
  <1>5. /\ pg \in [{0, 1} -> Pages]
        /\ pg[d.vram] = q /\ \A i \in {0, 1} : i # d.vram => pg[i] = d.page[i]
    BY <1>1, <1>3, <1>4, Zenon
  <1>6. e \in States
    BY <1>1, <1>5, Zenon DEF States
  <1>7. /\ e.contexts = d.contexts /\ e.context_idx = d.context_idx /\ e.ctx = d.ctx
        /\ e.deepest = d.deepest /\ e.page_front = d.page_front /\ e.vram = d.vram /\ e.page = pg
    BY <1>1, Zenon DEF States
  <1>8. Page(d) = p /\ Page(e) = q
    BY <1>1, <1>5, <1>7, Zenon DEF Page
  <1>9. Keeps(d, e)
    BY <1>4, <1>5, <1>6, <1>7, <1>8, Zenon DEF Keeps
  <1>10. Cur(e) = Cur(d) /\ Picture(e) = Picture(d) \union {t}
    BY <1>4, <1>7, <1>8, Zenon DEF Cur, Picture
  <1> QED
    BY <1>2, <1>9, <1>10, Zenon DEF Draws

LEMMA DrawIs ==
    ASSUME NEW d \in States, NEW what \in Kinds, NEW x \in Int, NEW y \in Int,
           NEW w \in Int, NEW h \in Int
    PROVE  Draws(d, Draw(d, what, x, y, w, h), Cur(d), {Thing(what, Cur(d).r, x, y, w, h)})
  <1>1. Thing(what, Cur(d).r, x, y, w, h) \in Things
    BY StateTypes, ContextTypes, ThingTypes, Zenon
  <1> QED
    BY <1>1, AddIs, Zenon DEF Draw

LEMMA WithIs ==
    ASSUME NEW d \in States, NEW c \in Contexts
    PROVE  Draws(d, With(d, c), c, {})
  <1>1. PICK e : e = [d EXCEPT !.contexts[d.ctx] = c]
    BY Zenon
  <1>2. e \in States
    BY <1>1, Zenon DEF States
  <1>3. \A i \in 0..NUM_CTX : i < d.ctx => i # d.ctx
    BY DEF States
  <1>4. Keeps(d, e) /\ Cur(e) = c /\ Picture(e) = Picture(d)
    BY <1>1, <1>2, <1>3, Zenon DEF States, Keeps, Cur, Picture, Page
  <1> QED
    BY <1>1, <1>4, Zenon DEF With, Draws

----------------------------------------------------------------------------
(* One operation more. *)

LEMMA CtxFields ==
    ASSUME NEW r, NEW y, NEW menu
    PROVE  Ctx(r, y, menu).r = r /\ Ctx(r, y, menu).y = y /\ Ctx(r, y, menu).menu = menu
  BY Zenon DEF Ctx

LEMMA DraftBegins ==
    ASSUME NEW d \in States
    PROVE  Draft(d, d, Cur(d).r, Cur(d).y, Cur(d).menu, {})
  <1>1. Keeps(d, d)
    BY Zenon DEF Keeps
  <1>2. Cur(d) = Ctx(Cur(d).r, Cur(d).y, Cur(d).menu)
    BY StateTypes, ContextTypes, Zenon
  <1>3. Cur(d).r \in Regions /\ Cur(d).y \in Int /\ Cur(d).menu \in BOOLEAN
    BY StateTypes, ContextTypes, Zenon
  <1> QED
    BY <1>1, <1>2, <1>3, Zenon DEF Draft, Draws

LEMMA DraftIs ==
    ASSUME NEW o, NEW d, NEW r, NEW y, NEW menu, NEW ts, Draft(o, d, r, y, menu, ts)
    PROVE  d \in States /\ r \in Regions /\ y \in Int /\ menu \in BOOLEAN
  BY Zenon DEF Draft

LEMMA DraftCtx ==
    ASSUME NEW o, NEW d, NEW r, NEW y, NEW menu, NEW ts, Draft(o, d, r, y, menu, ts)
    PROVE  Cur(d) = Ctx(r, y, menu)
  BY Zenon DEF Draft, Draws

LEMMA DraftFields ==
    ASSUME NEW o, NEW d, NEW r, NEW y, NEW menu, NEW ts, Draft(o, d, r, y, menu, ts)
    PROVE  Cur(d).r = r /\ Cur(d).y = y /\ Cur(d).menu = menu
  <1>1. Cur(d) = Ctx(r, y, menu)
    BY DraftCtx
  <1> QED
    BY <1>1, CtxFields

LEMMA DraftThen ==
    ASSUME NEW o, NEW d, NEW r, NEW y, NEW menu, NEW ts, Draft(o, d, r, y, menu, ts),
           NEW e, NEW r2, NEW y2, NEW menu2, NEW us, Draft(d, e, r2, y2, menu2, us)
    PROVE  Draft(o, e, r2, y2, menu2, ts \union us)
  <1>1. Draws(o, e, Ctx(r2, y2, menu2), ts \union us)
    BY DrawsThen, Zenon DEF Draft
  <1> QED
    BY <1>1, Zenon DEF Draft

LEMMA DrawOne ==
    ASSUME NEW o, NEW d, NEW r, NEW y, NEW menu, NEW ts, Draft(o, d, r, y, menu, ts),
           NEW what \in Kinds, NEW x2 \in Int, NEW y2 \in Int, NEW w2 \in Int, NEW h2 \in Int
    PROVE  Draft(o, Draw(d, what, x2, y2, w2, h2), r, y, menu,
                 ts \union {Thing(what, r, x2, y2, w2, h2)})
  <1>1. Cur(d) = Ctx(r, y, menu) /\ Cur(d).r = r
    BY DraftCtx, DraftFields
  <1>2. d \in States /\ r \in Regions /\ y \in Int /\ menu \in BOOLEAN
    BY DraftIs, Zenon
  <1>3. Draws(d, Draw(d, what, x2, y2, w2, h2), Ctx(r, y, menu), {Thing(what, r, x2, y2, w2, h2)})
    <2>1. Draws(d, Draw(d, what, x2, y2, w2, h2), Cur(d), {Thing(what, Cur(d).r, x2, y2, w2, h2)})
      BY <1>2, DrawIs, Zenon
    <2> QED
      BY <1>1, <2>1, Zenon
  <1>4. Draft(d, Draw(d, what, x2, y2, w2, h2), r, y, menu, {Thing(what, r, x2, y2, w2, h2)})
    BY <1>2, <1>3, Zenon DEF Draft, Draws, Keeps
  <1> QED
    BY <1>4, DraftThen, Zenon

LEMMA Newline ==
    ASSUME NEW o, NEW d, NEW r, NEW y, NEW menu, NEW ts, Draft(o, d, r, y, menu, ts),
           NEW n \in Int
    PROVE  Draft(o, gfx_newline(d, n), r, y + n, menu, ts)
  <1>1. Cur(d) = Ctx(r, y, menu)
    BY DraftCtx
  <1>2. d \in States /\ r \in Regions /\ y \in Int /\ menu \in BOOLEAN
    BY DraftIs, Zenon
  <1>3. y + n \in Int
    BY <1>2
  <1>4. [Cur(d) EXCEPT !.y = @ + n] = Ctx(r, y + n, menu)
    BY <1>1, <1>2 DEF Ctx
  <1>5. Draws(d, gfx_newline(d, n), Ctx(r, y + n, menu), {})
    BY <1>1, <1>2, <1>3, <1>4, WithIs, ContextTypes, Zenon DEF gfx_newline
  <1>6. Draft(d, gfx_newline(d, n), r, y + n, menu, {})
    BY <1>2, <1>3, <1>5, Zenon DEF Draft, Draws, Keeps
  <1>7. Draft(o, gfx_newline(d, n), r, y + n, menu, ts \union {})
    BY <1>6, DraftThen, Zenon
  <1>8. ts \union {} = ts
    BY Zenon
  <1> QED
    BY <1>7, <1>8, Zenon

Aligns == {"BEGIN", "MID", "END"}

LEMMA AlignInt ==
    ASSUME NEW align \in Aligns, NEW n \in Int, NEW size \in Int, NEW room \in Int
    PROVE  Align(align, n, size, room) \in Int
  <1>1. CASE align = "BEGIN"
    BY <1>1 DEF Align
  <1>2. CASE align = "MID"
    BY <1>2 DEF Align
  <1>3. CASE align = "END"
    BY <1>3 DEF Align
  <1> QED
    BY <1>1, <1>2, <1>3, Zenon DEF Aligns

LEMMA DraftSize ==
    ASSUME NEW o, NEW d, NEW r, NEW y, NEW menu, NEW ts, Draft(o, d, r, y, menu, ts)
    PROVE  r.x \in Int /\ r.y \in Int /\ r.w \in Int /\ r.h \in Int
  BY DraftIs, ContextTypes, Zenon

LEMMA Text ==
    ASSUME NEW o, NEW d, NEW r, NEW y, NEW menu, NEW ts, Draft(o, d, r, y, menu, ts),
           NEW align \in Aligns, NEW len \in Int
    PROVE  Draft(o, gfx_text(d, align, len), r, y + 1, menu,
                 ts \union {Thing("text", r, Align(align, 0, len, r.w), y, len, 1)})
  <1>1. 0 \in Int /\ 1 \in Int
    OBVIOUS
  <1>2. r.w \in Int /\ y \in Int
    BY DraftSize, DraftIs, Zenon
  <1>3. PICK x \in Int : x = Align(align, 0, len, r.w)
    BY <1>1, <1>2, AlignInt, Zenon
  <1>4. gfx_text(d, align, len) = gfx_newline(Draw(d, "text", x, y, len, 1), 1)
    BY <1>3, DraftFields DEF gfx_text
  <1>5. Draft(o, Draw(d, "text", x, y, len, 1), r, y, menu, ts \union {Thing("text", r, x, y, len, 1)})
    <2>1. "text" \in Kinds
      BY Zenon DEF Kinds
    <2> QED
      BY <1>1, <1>2, <2>1, DrawOne, Zenon
  <1>6. Draft(o, gfx_text(d, align, len), r, y + 1, menu, ts \union {Thing("text", r, x, y, len, 1)})
    <2>1. PICK e, us : e = Draw(d, "text", x, y, len, 1) /\ us = ts \union {Thing("text", r, x, y, len, 1)}
      BY Zenon
    <2>2. Draft(o, e, r, y, menu, us)
      BY <1>5, <2>1, Zenon
    <2>3. Draft(o, gfx_newline(e, 1), r, y + 1, menu, us)
      BY <1>1, <2>2, Newline, Zenon
    <2> QED
      BY <1>4, <2>1, <2>3, Zenon
  <1> QED
    BY <1>3, <1>6, Zenon

LEMMA LinesOfText ==
    ASSUME NEW o, NEW d, NEW r, NEW y, NEW menu, NEW ts, Draft(o, d, r, y, menu, ts),
           NEW n \in Int, NEW len \in Int
    PROVE  Draft(o, Lines(d, n, len), r, y + n, menu, ts \union {Thing("text", r, 0, y, len, n)})
  <1>1. 0 \in Int
    OBVIOUS
  <1>2. y \in Int
    BY DraftIs, Zenon
  <1>3. Lines(d, n, len) = gfx_newline(Draw(d, "text", 0, y, len, n), n)
    BY DraftFields DEF Lines
  <1>4. Draft(o, Draw(d, "text", 0, y, len, n), r, y, menu, ts \union {Thing("text", r, 0, y, len, n)})
    <2>1. "text" \in Kinds
      BY Zenon DEF Kinds
    <2> QED
      BY <1>1, <1>2, <2>1, DrawOne, Zenon
  <1>5. PICK e, us : e = Draw(d, "text", 0, y, len, n) /\ us = ts \union {Thing("text", r, 0, y, len, n)}
    BY Zenon
  <1>6. Draft(o, e, r, y, menu, us)
    BY <1>4, <1>5, Zenon
  <1>7. Draft(o, gfx_newline(e, n), r, y + n, menu, us)
    BY <1>6, Newline, Zenon
  <1> QED
    BY <1>3, <1>5, <1>7, Zenon

LEMMA BoxDrawn ==
    ASSUME NEW o, NEW d, NEW r, NEW y, NEW menu, NEW ts, Draft(o, d, r, y, menu, ts),
           NEW what \in Kinds, NEW h \in Aligns, NEW v \in Aligns,
           NEW xadj \in Int, NEW yadj \in Int, NEW w \in Int, NEW hgt \in Int
    PROVE  Draft(o, Box(d, what, h, v, xadj, yadj, w, hgt), r, y, menu,
                 ts \union {Thing(what, r, Align(h, xadj, w, r.w), Align(v, yadj, hgt, r.h), w, hgt)})
  <1>1. PICK x2 \in Int : x2 = Align(h, xadj, w, r.w)
    BY AlignInt, DraftSize, Zenon
  <1>2. PICK y2 \in Int : y2 = Align(v, yadj, hgt, r.h)
    BY AlignInt, DraftSize, Zenon
  <1>3. Box(d, what, h, v, xadj, yadj, w, hgt) = Draw(d, what, x2, y2, w, hgt)
    <2>1. Cur(d).r = r
      BY DraftFields
    <2> QED
      BY <1>1, <1>2, <2>1 DEF Box, gfx_align_box, Region
  <1>4. Draft(o, Draw(d, what, x2, y2, w, hgt), r, y, menu, ts \union {Thing(what, r, x2, y2, w, hgt)})
    BY DrawOne, Zenon
  <1> QED
    BY <1>1, <1>2, <1>3, <1>4, Zenon

Open(menu) == menu = TRUE

LEMMA SelectItem ==
    ASSUME NEW o, NEW d, NEW r, NEW y, NEW menu, NEW ts, Draft(o, d, r, y, menu, ts), Open(menu)
    PROVE  Draft(o, Select(d), r, y + 2, menu, ts \union {Thing("text", r, 0, y + 1, r.w, 1)})
  <1> DEFINE e == gfx_newline(d, 1)
  <1>1. Select(d) = gfx_text(e, "BEGIN", r.w)
    <2>1. Cur(d).menu = menu /\ Cur(d).r = r
      BY DraftFields
    <2> QED
      BY <2>1, Zenon DEF Select, Open
  <1>2. Draft(o, e, r, y + 1, menu, ts)
    BY Newline
  <1>3. r.w \in Int /\ "BEGIN" \in Aligns
    BY DraftSize, Zenon DEF Aligns
  <1>4. Draft(o, Select(d), r, y + 1 + 1, menu,
              ts \union {Thing("text", r, Align("BEGIN", 0, r.w, r.w), y + 1, r.w, 1)})
    <2> HIDE DEF e
    <2>1. Draft(o, gfx_text(e, "BEGIN", r.w), r, y + 1 + 1, menu,
                ts \union {Thing("text", r, Align("BEGIN", 0, r.w, r.w), y + 1, r.w, 1)})
      BY <1>2, <1>3, Text, Zenon
    <2> QED
      BY <1>1, <2>1, Zenon
  <1>5. y + 1 + 1 = y + 2
    BY DraftIs
  <1>6. Align("BEGIN", 0, r.w, r.w) = 0
    BY DEF Align
  <1> QED
    BY <1>4, <1>5, <1>6, Zenon

LEMMA ButtonItem ==
    ASSUME NEW o, NEW d, NEW r, NEW y, NEW menu, NEW ts, Draft(o, d, r, y, menu, ts), Open(menu)
    PROVE  Draft(o, Button(d), r, y + 2, menu,
                 ts \union {Thing("text", r, Align("MID", 0, 19, r.w), y + 1, 19, 1)})
  <1> DEFINE e == gfx_newline(d, 1)
  <1>1. Button(d) = gfx_text(e, "MID", 19)
    <2>1. Cur(d).menu = menu
      BY DraftFields
    <2> QED
      BY <2>1, Zenon DEF Button, Open
  <1>2. Draft(o, e, r, y + 1, menu, ts)
    BY Newline
  <1>3. 19 \in Int /\ "MID" \in Aligns
    BY DEF Aligns
  <1>4. Draft(o, Button(d), r, y + 1 + 1, menu,
              ts \union {Thing("text", r, Align("MID", 0, 19, r.w), y + 1, 19, 1)})
    <2> HIDE DEF e
    <2>1. Draft(o, gfx_text(e, "MID", 19), r, y + 1 + 1, menu,
                ts \union {Thing("text", r, Align("MID", 0, 19, r.w), y + 1, 19, 1)})
      BY <1>2, <1>3, Text, Zenon
    <2> QED
      BY <1>1, <2>1, Zenon
  <1>5. y + 1 + 1 = y + 2
    BY DraftIs
  <1> QED
    BY <1>4, <1>5, Zenon

\* The edges of a frame, and the marks at the border.
Frame(r, w, h) ==
    {Thing("frame", r, 0, 0, w, 1), Thing("frame", r, 0, h - 1, w, 1),
     Thing("frame", r, 0, 1, 1, h - 2), Thing("frame", r, w - 1, 1, 1, h - 2)}

LEMMA FrameDrawn ==
    ASSUME NEW o, NEW d, NEW r, NEW y, NEW menu, NEW ts, Draft(o, d, r, y, menu, ts),
           NEW w \in Int, NEW h \in Int
    PROVE  Draft(o, gfx_frame(d, w, h), r, y, menu, ts \union Frame(r, w, h))
  <1>1. 0 \in Int /\ 1 \in Int /\ h - 1 \in Int /\ h - 2 \in Int /\ w - 1 \in Int
    OBVIOUS
  <1>2. "frame" \in Kinds
    BY Zenon DEF Kinds
  <1>3. PICK d1 : d1 = Draw(d, "frame", 0, 0, w, 1)
    BY Zenon
  <1>4. PICK d2 : d2 = Draw(d1, "frame", 0, h - 1, w, 1)
    BY Zenon
  <1>5. PICK d3 : d3 = Draw(d2, "frame", 0, 1, 1, h - 2)
    BY Zenon
  <1>6. PICK d4 : d4 = Draw(d3, "frame", w - 1, 1, 1, h - 2)
    BY Zenon
  <1>7. gfx_frame(d, w, h) = d4
    BY <1>3, <1>4, <1>5, <1>6, Zenon DEF gfx_frame
  <1>8. PICK t1 : t1 = ts \union {Thing("frame", r, 0, 0, w, 1)}
    BY Zenon
  <1>9. PICK t2 : t2 = t1 \union {Thing("frame", r, 0, h - 1, w, 1)}
    BY Zenon
  <1>10. PICK t3 : t3 = t2 \union {Thing("frame", r, 0, 1, 1, h - 2)}
    BY Zenon
  <1>11. PICK t4 : t4 = t3 \union {Thing("frame", r, w - 1, 1, 1, h - 2)}
    BY Zenon
  <1>12. Draft(o, d1, r, y, menu, t1)
    BY <1>1, <1>2, <1>3, <1>8, DrawOne, Zenon
  <1>13. Draft(o, d2, r, y, menu, t2)
    BY <1>1, <1>2, <1>4, <1>9, <1>12, DrawOne, Zenon
  <1>14. Draft(o, d3, r, y, menu, t3)
    BY <1>1, <1>2, <1>5, <1>10, <1>13, DrawOne, Zenon
  <1>15. Draft(o, d4, r, y, menu, t4)
    BY <1>1, <1>2, <1>6, <1>11, <1>14, DrawOne, Zenon
  <1>16. t4 = ts \union Frame(r, w, h)
    BY <1>8, <1>9, <1>10, <1>11, Zenon DEF Frame
  <1> QED
    BY <1>7, <1>15, <1>16, Zenon

----------------------------------------------------------------------------
(* Windows. *)

\* The current context is the top of the stack, and there is room for a window.
Level(d) == d.ctx = d.context_idx /\ d.ctx \in {0, 1}

LEMMA PushIs ==
    ASSUME NEW d \in States, d.context_idx \in {0, 1}
    PROVE  /\ gfx_push(d) \in States /\ Cur(gfx_push(d)) = Cur(d)
           /\ gfx_push(d).context_idx = d.context_idx + 1
           /\ gfx_push(d).ctx = d.context_idx + 1
           /\ \A i \in 0..NUM_CTX : i <= d.context_idx => gfx_push(d).contexts[i] = d.contexts[i]
           /\ d.deepest <= 2 => gfx_push(d).deepest <= 2
           /\ gfx_push(d).page_front = d.page_front /\ gfx_push(d).vram = d.vram
           /\ gfx_push(d).page = d.page
  <1>1. PICK i \in 1..2 : i = d.context_idx + 1
    OBVIOUS
  <1>2. PICK c \in Contexts : c = Cur(d)
    BY StateTypes, Zenon
  <1>3. PICK n \in Nat : n = IF i > d.deepest THEN i ELSE d.deepest
    BY <1>1, StateTypes
  <1>4. d.deepest <= 2 => n <= 2
    BY <1>1, <1>3, StateTypes
  <1>5. i \in 0..NUM_CTX /\ i \in Nat /\ d.context_idx < NUM_CTX
    BY <1>1, GfxAssumption
  <1>6. gfx_push(d) = [d EXCEPT !.context_idx = i, !.ctx = i, !.contexts[i] = c, !.deepest = n]
    BY <1>1, <1>2, <1>3, <1>5, Zenon DEF gfx_push
  <1>7. PICK e : e = [d EXCEPT !.context_idx = i, !.ctx = i, !.contexts[i] = c, !.deepest = n]
    BY Zenon
  <1>8. e \in States
    BY <1>5, <1>7, Zenon DEF States
  <1>9. /\ e.context_idx = i /\ e.ctx = i /\ e.contexts = [d.contexts EXCEPT ![i] = c]
        /\ e.deepest = n /\ e.page_front = d.page_front /\ e.vram = d.vram /\ e.page = d.page
    BY <1>7, Zenon DEF States
  <1>10. Cur(e) = c
    BY <1>5, <1>9, StateTypes, Zenon DEF Cur
  <1>11. \A j \in 0..NUM_CTX : j <= d.context_idx => j # i
    BY <1>1
  <1>12. \A j \in 0..NUM_CTX : j <= d.context_idx => e.contexts[j] = d.contexts[j]
    BY <1>9, <1>11, StateTypes, Zenon
  <1> QED
    BY <1>1, <1>2, <1>4, <1>6, <1>7, <1>8, <1>9, <1>10, <1>12, Zenon

LEMMA PopIs ==
    ASSUME NEW e \in States, e.context_idx \in {1, 2}
    PROVE  /\ gfx_pop(e) \in States
           /\ gfx_pop(e).context_idx = e.context_idx - 1 /\ gfx_pop(e).ctx = e.context_idx - 1
           /\ \A i \in 0..NUM_CTX : i < e.context_idx => gfx_pop(e).contexts[i] = e.contexts[i]
           /\ gfx_pop(e).deepest = e.deepest
           /\ gfx_pop(e).page_front = e.page_front /\ gfx_pop(e).vram = e.vram
           /\ gfx_pop(e).page = e.page
  <1>1. PICK i \in 0..1 : i = e.context_idx - 1
    OBVIOUS
  <1>2. i \in 0..NUM_CTX /\ i \in Nat /\ i < NUM_CTX
    BY <1>1, GfxAssumption
  <1>3. i = IF e.context_idx > 0 THEN e.context_idx - 1 ELSE 0
    BY <1>1
  <1>4. PICK cs : cs = [j \in DOMAIN e.contexts |-> IF j > i THEN Unused ELSE e.contexts[j]]
    BY Zenon
  <1>5. cs \in [0..NUM_CTX -> Contexts]
    <2>1. Unused \in Contexts
      BY DEF Unused, Context, Region, Contexts, Regions
    <2> QED
      BY <1>4, <2>1, StateTypes, Zenon
  <1>6. gfx_pop(e) = [e EXCEPT !.context_idx = i, !.ctx = i, !.contexts = cs]
    BY <1>2, <1>3, <1>4, Zenon DEF gfx_pop
  <1>7. PICK f : f = [e EXCEPT !.context_idx = i, !.ctx = i, !.contexts = cs]
    BY Zenon
  <1>8. f \in States
    BY <1>2, <1>5, <1>7, Zenon DEF States
  <1>9. /\ f.context_idx = i /\ f.ctx = i /\ f.contexts = cs
        /\ f.deepest = e.deepest /\ f.page_front = e.page_front /\ f.vram = e.vram /\ f.page = e.page
    BY <1>7, Zenon DEF States
  <1>10. \A j \in 0..NUM_CTX : j < e.context_idx => ~(j > i)
    BY <1>1
  <1>11. \A j \in 0..NUM_CTX : j < e.context_idx => f.contexts[j] = e.contexts[j]
    BY <1>4, <1>9, <1>10, StateTypes, Zenon
  <1> QED
    BY <1>1, <1>6, <1>7, <1>8, <1>9, <1>11, Zenon

LEMMA DraftLevel ==
    ASSUME NEW o, NEW d, NEW r, NEW y, NEW menu, NEW ts, Draft(o, d, r, y, menu, ts), Level(o)
    PROVE  Level(d) /\ d.context_idx \in {0, 1}
  BY Zenon DEF Draft, Draws, Keeps, Level

\* What was drawn in a window stays when the window is closed.
LEMMA WindowDone ==
    ASSUME NEW o, NEW d, NEW r, NEW y, NEW menu, NEW ts, Draft(o, d, r, y, menu, ts), Level(o),
           NEW e, NEW r2, NEW y2, NEW menu2, NEW us, Draft(gfx_push(d), e, r2, y2, menu2, us)
    PROVE  Draft(o, gfx_pop(e), r, y, menu, ts \union us)
  <1>1. PICK p, f : p = gfx_push(d) /\ f = gfx_pop(e)
    BY Zenon
  <1>2. d \in States /\ r \in Regions /\ y \in Int /\ menu \in BOOLEAN /\ e \in States
    BY DraftIs, Zenon
  <1>3. d.ctx = d.context_idx /\ d.context_idx \in {0, 1}
    BY DraftLevel DEF Level
  <1>4. /\ p.context_idx = d.ctx + 1 /\ p.ctx = d.ctx + 1
        /\ \A i \in 0..NUM_CTX : i <= d.ctx => p.contexts[i] = d.contexts[i]
        /\ d.deepest <= 2 => p.deepest <= 2
        /\ p.page_front = d.page_front /\ p.vram = d.vram /\ p.page = d.page
    BY <1>1, <1>2, <1>3, PushIs, ZenonT(30)
  <1>5. Keeps(p, e) /\ Picture(e) = Picture(p) \union us
    BY <1>1, Zenon DEF Draft, Draws
  <1>6. e.context_idx = d.ctx + 1 /\ e.context_idx \in {1, 2}
    BY <1>3, <1>4, <1>5 DEF Keeps
  <1>7. /\ f \in States /\ f.context_idx = d.ctx /\ f.ctx = d.ctx
        /\ \A i \in 0..NUM_CTX : i < d.ctx + 1 => f.contexts[i] = e.contexts[i]
        /\ f.deepest = e.deepest /\ f.page_front = e.page_front /\ f.vram = e.vram
        /\ f.page = e.page
    <2>1. /\ f \in States /\ f.context_idx = e.context_idx - 1 /\ f.ctx = e.context_idx - 1
          /\ \A i \in 0..NUM_CTX : i < e.context_idx => f.contexts[i] = e.contexts[i]
          /\ f.deepest = e.deepest /\ f.page_front = e.page_front /\ f.vram = e.vram
          /\ f.page = e.page
      BY <1>1, <1>2, <1>6, PopIs, Zenon
    <2>2. e.context_idx - 1 = d.ctx
      BY <1>3, <1>6
    <2> QED
      BY <1>6, <2>1, <2>2, Zenon
  <1>8. \A i \in 0..NUM_CTX : i <= d.ctx => i < d.ctx + 1 /\ i < p.ctx
    BY <1>3, <1>4
  <1>9. \A i \in 0..NUM_CTX : i <= d.ctx => f.contexts[i] = d.contexts[i]
    BY <1>4, <1>5, <1>7, <1>8, Zenon DEF Keeps
  <1>10. Cur(f) = Cur(d)
    <2>1. d.ctx <= d.ctx /\ d.ctx \in 0..NUM_CTX
      BY <1>3, GfxAssumption
    <2> QED
      BY <1>7, <1>9, <2>1 DEF Cur
  <1>11. Page(f) = Page(e) /\ Page(p) = Page(d)
    BY <1>4, <1>7, Zenon DEF Page
  <1>12. \A i \in 0..NUM_CTX : i < d.ctx => i <= d.ctx
    BY <1>3
  <1>13. Keeps(d, f)
    <2>1. d.deepest <= 2 => f.deepest <= 2
      BY <1>4, <1>5, <1>7, Zenon DEF Keeps
    <2>2. f.context_idx = d.context_idx /\ f.ctx = d.ctx
      BY <1>3, <1>7, Zenon
    <2>3. f.page_front = d.page_front /\ f.vram = d.vram
      BY <1>4, <1>5, <1>7, Zenon DEF Keeps
    <2>4. Page(f).cleared = Page(d).cleared /\ Page(f).fresh = Page(d).fresh
      BY <1>5, <1>11, Zenon DEF Keeps
    <2>5. \A q \in {0, 1} : q # d.vram => f.page[q] = d.page[q]
      BY <1>4, <1>5, <1>7, Zenon DEF Keeps
    <2> QED
      BY <1>7, <1>9, <1>12, <2>1, <2>2, <2>3, <2>4, <2>5, Zenon DEF Keeps
  <1>14. Picture(f) = Picture(d) \union us
    BY <1>5, <1>11, Zenon DEF Picture
  <1>15. Cur(f) = Ctx(r, y, menu)
    BY <1>10, DraftCtx
  <1>16. Draft(d, f, r, y, menu, us)
    BY <1>2, <1>7, <1>13, <1>14, <1>15, Zenon DEF Draft, Draws
  <1> QED
    BY <1>1, <1>16, DraftThen, Zenon

\* A window, in its parent's coordinates.
Window(r, h, v, xadj, yadj, w, hgt) ==
    Region(Align(h, xadj, w, r.w), Align(v, yadj, hgt, r.h), w, hgt)

LEMMA WindowPlaced ==
    ASSUME NEW o, NEW d, NEW r, NEW y, NEW menu, NEW ts, Draft(o, d, r, y, menu, ts), Level(o),
           NEW h \in Aligns, NEW v \in Aligns, NEW xadj \in Int, NEW yadj \in Int,
           NEW w \in Int, NEW hgt \in Int
    PROVE  LET p == gfx_push(d)
               q == With(p, [Cur(p) EXCEPT !.r = gfx_align_box(p, h, v, xadj, yadj, w, hgt)])
           IN  Draft(p, q, Window(r, h, v, xadj, yadj, w, hgt), y, menu, {})
  <1>1. PICK p : p = gfx_push(d)
    BY Zenon
  <1>2. d \in States /\ r \in Regions /\ y \in Int /\ menu \in BOOLEAN
    BY DraftIs, Zenon
  <1>3. d.context_idx \in {0, 1}
    BY DraftLevel
  <1>4. p \in States /\ Cur(p) = Cur(d)
    BY <1>1, <1>2, <1>3, PushIs, Zenon
  <1>5. Cur(p) = Ctx(r, y, menu) /\ Cur(p).r = r
    BY <1>4, DraftCtx, DraftFields
  <1>6. PICK win \in Regions : win = Window(r, h, v, xadj, yadj, w, hgt)
    <2>1. Align(h, xadj, w, r.w) \in Int
      BY AlignInt, DraftSize, Zenon
    <2>2. Align(v, yadj, hgt, r.h) \in Int
      BY AlignInt, DraftSize, Zenon
    <2> QED
      BY <2>1, <2>2, ContextTypes, Zenon DEF Window
  <1>7. gfx_align_box(p, h, v, xadj, yadj, w, hgt) = win
    BY <1>5, <1>6, Zenon DEF gfx_align_box, Window
  <1>8. [Cur(p) EXCEPT !.r = win] = Ctx(win, y, menu) /\ Ctx(win, y, menu) \in Contexts
    <2>1. [Ctx(r, y, menu) EXCEPT !.r = win] = Ctx(win, y, menu)
      BY DEF Ctx
    <2> QED
      BY <1>2, <1>5, <2>1, ContextTypes, Zenon
  <1>9. PICK q : q = With(p, Ctx(win, y, menu))
    BY Zenon
  <1>10. Draws(p, q, Ctx(win, y, menu), {})
    BY <1>4, <1>8, <1>9, WithIs, Zenon
  <1>11. Draft(p, q, win, y, menu, {})
    BY <1>2, <1>10, Zenon DEF Draft, Draws, Keeps
  <1> QED
    BY <1>1, <1>6, <1>7, <1>8, <1>9, <1>11, Zenon

LEMMA PlainWindow ==
    ASSUME NEW o, NEW d, NEW r, NEW y, NEW menu, NEW ts, Draft(o, d, r, y, menu, ts), Level(o),
           NEW h \in Aligns, NEW v \in Aligns, NEW xadj \in Int, NEW yadj \in Int,
           NEW w \in Int, NEW hgt \in Int
    PROVE  Draft(gfx_push(d), gfx_begin_window(d, h, v, xadj, yadj, w, hgt, 0),
                 Window(r, h, v, xadj, yadj, w, hgt), y, menu, {})
  <1> DEFINE p == gfx_push(d)
             box == gfx_align_box(p, h, v, xadj, yadj, w, hgt)
             q == With(p, [Cur(p) EXCEPT !.r = box])
  <1>1. Draft(p, q, Window(r, h, v, xadj, yadj, w, hgt), y, menu, {})
    BY WindowPlaced, Zenon
  <1>2. ~(0 > 0)
    OBVIOUS
  <1>3. gfx_begin_window(d, h, v, xadj, yadj, w, hgt, 0) = q
    BY <1>2, Zenon DEF gfx_begin_window
  <1> QED
    BY <1>1, <1>3, Zenon

\* The inside of a frame.
Inner(win) == Region(win.x + 1, win.y + 1, win.w - 2, win.h - 2)

LEMMA FramedWindow ==
    ASSUME NEW o, NEW d, NEW r, NEW y, NEW menu, NEW ts, Draft(o, d, r, y, menu, ts), Level(o),
           NEW h \in Aligns, NEW v \in Aligns, NEW xadj \in Int, NEW yadj \in Int,
           NEW w \in Int, NEW hgt \in Int
    PROVE  Draft(gfx_push(d), gfx_begin_window(d, h, v, xadj, yadj, w, hgt, 1),
                 Inner(Window(r, h, v, xadj, yadj, w, hgt)), y, menu,
                 Frame(Window(r, h, v, xadj, yadj, w, hgt), w, hgt))
  <1> DEFINE p == gfx_push(d)
             box == gfx_align_box(p, h, v, xadj, yadj, w, hgt)
             q == With(p, [Cur(p) EXCEPT !.r = box])
             win == Window(r, h, v, xadj, yadj, w, hgt)
             f == gfx_frame(q, w, hgt)
             e == With(f, [Cur(q) EXCEPT !.r = Region(box.x + 1, box.y + 1, box.w - 2 * 1, box.h - 2 * 1)])
  <1>1. Draft(p, q, win, y, menu, {}) /\ box = win
    <2>1. Draft(p, q, win, y, menu, {})
      BY WindowPlaced, Zenon
    <2>2. d \in States /\ d.context_idx \in {0, 1}
      BY DraftIs, DraftLevel, Zenon
    <2>3. Cur(p) = Cur(d)
      BY <2>2, PushIs, Zenon
    <2>4. Cur(d).r = r
      BY DraftFields
    <2>5. box = win
      BY <2>3, <2>4, Zenon DEF gfx_align_box, Window
    <2> QED
      BY <2>1, <2>5, Zenon
  <1>2. 1 > 0
    OBVIOUS
  <1>3. gfx_begin_window(d, h, v, xadj, yadj, w, hgt, 1) = e
    BY <1>2, Zenon DEF gfx_begin_window
  <1> HIDE DEF p, box, q, win, f
  <1>4. win \in Regions /\ y \in Int /\ menu \in BOOLEAN
    BY <1>1, DraftIs, Zenon
  <1>5. Draft(p, f, win, y, menu, {} \union Frame(win, w, hgt))
    BY <1>1, FrameDrawn, Zenon DEF f
  <1>6. Draft(p, f, win, y, menu, Frame(win, w, hgt))
    <2>1. {} \union Frame(win, w, hgt) = Frame(win, w, hgt)
      BY Zenon
    <2> QED
      BY <1>5, <2>1, Zenon
  <1>7. Cur(q) = Ctx(win, y, menu)
    BY <1>1, DraftCtx
  <1>8. Inner(win) \in Regions
    <2>1. win.x + 1 \in Int /\ win.y + 1 \in Int /\ win.w - 2 \in Int /\ win.h - 2 \in Int
      BY <1>4 DEF Regions
    <2> QED
      BY <2>1, ContextTypes, Zenon DEF Inner
  <1>9. [Cur(q) EXCEPT !.r = Region(box.x + 1, box.y + 1, box.w - 2 * 1, box.h - 2 * 1)] =
            Ctx(Inner(win), y, menu)
    <2>1. win.w - 2 * 1 = win.w - 2 /\ win.h - 2 * 1 = win.h - 2
      BY <1>4 DEF Regions
    <2>2. [Ctx(win, y, menu) EXCEPT !.r = Inner(win)] = Ctx(Inner(win), y, menu)
      BY DEF Ctx
    <2> QED
      BY <1>1, <1>7, <2>1, <2>2, Zenon DEF Inner
  <1>10. f \in States /\ Ctx(Inner(win), y, menu) \in Contexts
    BY <1>4, <1>6, <1>8, DraftIs, ContextTypes, Zenon
  <1>11. Draws(f, e, Ctx(Inner(win), y, menu), {})
    BY <1>9, <1>10, WithIs, Zenon
  <1>12. Draft(f, e, Inner(win), y, menu, {})
    BY <1>4, <1>8, <1>11, Zenon DEF Draft, Draws, Keeps
  <1>13. Draft(p, e, Inner(win), y, menu, Frame(win, w, hgt) \union {})
    BY <1>6, <1>12, DraftThen, Zenon
  <1>14. Frame(win, w, hgt) \union {} = Frame(win, w, hgt)
    BY Zenon
  <1> QED
    BY <1>3, <1>13, <1>14, Zenon DEF p, win

----------------------------------------------------------------------------
(* Pages. *)

\* The other page is drawn on, with the context that was current.
Flipped(d, f) ==
    /\ f \in States /\ f.context_idx = 1 /\ f.ctx = 1
    /\ Cur(f) = Cur(d) /\ f.contexts[0] = d.contexts[0]
    /\ d.deepest <= 2 => f.deepest <= 2
    /\ f.page_front = 1 - d.page_front /\ f.vram = d.page_front
    /\ \A p \in {0, 1} : /\ f.page[p].things = d.page[p].things
                         /\ p # d.page_front => f.page[p] = d.page[p]

LEMMA FlipIs ==
    ASSUME NEW d \in States
    PROVE  Flipped(d, gfx_pageflip(d))
  <1>1. PICK pg : pg = [d.page EXCEPT ![d.page_front].fresh = FALSE]
    BY Zenon
  <1>2. 1 - d.page_front \in {0, 1} /\ d.page_front \in {0, 1} /\ 0 \in Nat
    BY StateTypes
  <1>3. pg \in [{0, 1} -> Pages]
    <2>1. PICK p, q : p = d.page[d.page_front] /\ q = [p EXCEPT !.fresh = FALSE]
      BY Zenon
    <2>2. p \in Pages
      BY <1>2, <2>1, StateTypes, Zenon
    <2>3. q \in Pages
      BY <2>1, <2>2, Zenon DEF Pages
    <2>4. pg = [d.page EXCEPT ![d.page_front] = q]
      BY <1>1, <2>1, Zenon
    <2> QED
      BY <1>2, <2>3, <2>4, StateTypes, Zenon
  <1>4. PICK e : e = [d EXCEPT !.page_front = 1 - @, !.vram = d.page_front, !.context_idx = 0,
                               !.page = pg]
    BY Zenon
  <1>5. /\ e \in States
        /\ e.page_front = 1 - d.page_front /\ e.vram = d.page_front /\ e.context_idx = 0
        /\ e.contexts = d.contexts /\ e.ctx = d.ctx /\ e.deepest = d.deepest /\ e.page = pg
    <2>1. e \in States
      BY <1>2, <1>3, <1>4, Zenon DEF States
    <2> QED
      BY <1>4, <2>1, Zenon DEF States
  <1>6. \A p \in {0, 1} : /\ pg[p].things = d.page[p].things
                          /\ p # d.page_front => pg[p] = d.page[p]
    BY <1>1, <1>2, StateTypes, Zenon DEF Pages
  <1>7. PICK f : f = gfx_push(e)
    BY Zenon
  <1>8. gfx_pageflip(d) = f
    BY <1>1, <1>4, <1>7, Zenon DEF gfx_pageflip
  <1>9. e.context_idx \in {0, 1}
    BY <1>5, Zenon
  <1>10. /\ f \in States /\ Cur(f) = Cur(e)
         /\ f.context_idx = e.context_idx + 1 /\ f.ctx = e.context_idx + 1
         /\ \A i \in 0..NUM_CTX : i <= e.context_idx => f.contexts[i] = e.contexts[i]
         /\ e.deepest <= 2 => f.deepest <= 2
         /\ f.page_front = e.page_front /\ f.vram = e.vram /\ f.page = e.page
    BY <1>5, <1>7, <1>9, PushIs, Zenon
  <1>11. 0 \in 0..NUM_CTX /\ 0 <= e.context_idx /\ e.context_idx + 1 = 1
    BY <1>5, GfxAssumption
  <1>12. Cur(f) = Cur(d)
    BY <1>5, <1>10, Zenon DEF Cur
  <1>13. f.vram = d.page_front /\ f.page = pg /\ f.page_front = 1 - d.page_front
    BY <1>5, <1>10, Zenon
  <1>15. f.contexts[0] = d.contexts[0] /\ f.context_idx = 1 /\ f.ctx = 1
    BY <1>5, <1>10, <1>11, Zenon
  <1>16. d.deepest <= 2 => f.deepest <= 2
    BY <1>5, <1>10, Zenon
  <1>17. \A p \in {0, 1} : /\ f.page[p].things = d.page[p].things
                           /\ p # d.page_front => f.page[p] = d.page[p]
    BY <1>6, <1>13, Zenon
  <1> QED
    BY <1>8, <1>10, <1>12, <1>13, <1>15, <1>16, <1>17, Zenon DEF Flipped

\* There is a new screen: it is the region of context 0.
Resized(d, f, wide) ==
    /\ f \in States /\ f.context_idx = 1 /\ f.ctx = 1
    /\ Cur(f) = IF d.ctx = 0 THEN Context(ScreenOf(wide)) ELSE Cur(d)
    /\ f.contexts[0] = Context(ScreenOf(wide))
    /\ d.deepest <= 2 => f.deepest <= 2
    /\ f.page_front = 1 - d.page_front /\ f.vram = d.page_front
    /\ \A p \in {0, 1} : f.page[p].things = d.page[p].things

LEMMA ScreenType == ASSUME NEW wide \in BOOLEAN PROVE ScreenOf(wide) \in Regions
  <1>1. CASE wide = TRUE
    BY <1>1 DEF ScreenOf, Region, Regions
  <1>2. CASE wide = FALSE
    BY <1>2 DEF ScreenOf, Region, Regions
  <1> QED
    BY <1>1, <1>2, Zenon

LEMMA ContextIs == ASSUME NEW r PROVE Context(r) = Ctx(r, 0, FALSE)
  BY Zenon DEF Context, Ctx

LEMMA SetIs ==
    ASSUME NEW d \in States, NEW wide \in BOOLEAN, NEW s, d.contexts[0] = Context(s)
    PROVE  Resized(d, gfx_set_240p(d, wide), wide)
  <1>1. PICK c : c = Context(ScreenOf(wide))
    BY Zenon
  <1>2. c \in Contexts
    <2>1. 0 \in Int
      OBVIOUS
    <2> QED
      BY <1>1, <2>1, ScreenType, ContextIs, ContextTypes, Zenon
  <1>3. 0 \in 0..NUM_CTX
    BY GfxAssumption
  <1>4. d.contexts[0] \in Contexts
    BY <1>3, StateTypes, Zenon
  <1>5. [d.contexts[0] EXCEPT !.r = ScreenOf(wide)] = c
    <2>1. PICK o : o = ScreenOf(wide)
      BY Zenon
    <2>2. PICK b : b = d.contexts[0]
      BY Zenon
    <2>3. b = Ctx(s, 0, FALSE) /\ c = Ctx(o, 0, FALSE)
      BY <1>1, <2>1, <2>2, ContextIs, Zenon
    <2>4. [b EXCEPT !.r = o] = c
      <3>1. ASSUME NEW m, b = Ctx(s, 0, m), c = Ctx(o, 0, m) PROVE [b EXCEPT !.r = o] = c
        BY <3>1 DEF Ctx
      <3> QED
        BY <2>3, <3>1, Zenon
    <2> QED
      BY <2>1, <2>2, <2>4
  <1>6. PICK e : e = [d EXCEPT !.contexts[0] = c]
    BY Zenon
  <1>7. gfx_set_240p(d, wide) = gfx_pageflip(e)
    BY <1>5, <1>6, Zenon DEF gfx_set_240p
  <1>8. /\ e \in States /\ e.contexts = [d.contexts EXCEPT ![0] = c] /\ e.ctx = d.ctx
        /\ e.deepest = d.deepest /\ e.page_front = d.page_front /\ e.page = d.page
    <2>1. e \in States
      BY <1>2, <1>6, Zenon DEF States
    <2> QED
      BY <1>6, <2>1, Zenon DEF States
  <1>9. e.contexts[0] = c /\ Cur(e) = IF d.ctx = 0 THEN c ELSE Cur(d)
    BY <1>3, <1>8, StateTypes, Zenon DEF Cur
  <1>10. PICK f : f = gfx_pageflip(e)
    BY Zenon
  <1>11. Flipped(e, f)
    BY <1>8, <1>10, FlipIs, Zenon
  <1>12. Resized(d, f, wide)
    <2>1. Cur(f) = IF d.ctx = 0 THEN Context(ScreenOf(wide)) ELSE Cur(d)
      BY <1>1, <1>9, <1>11, Zenon DEF Flipped
    <2>2. f.contexts[0] = Context(ScreenOf(wide))
      BY <1>1, <1>9, <1>11, Zenon DEF Flipped
    <2>3. d.deepest <= 2 => f.deepest <= 2
      BY <1>8, <1>11, Zenon DEF Flipped
    <2>4. f.page_front = 1 - d.page_front /\ f.vram = d.page_front
      BY <1>8, <1>11, Zenon DEF Flipped
    <2>5. \A p \in {0, 1} : f.page[p].things = d.page[p].things
      <3>1. \A p \in {0, 1} : f.page[p].things = e.page[p].things
        BY <1>11, Zenon DEF Flipped
      <3>2. e.page = d.page
        BY <1>8, Zenon
      <3> QED
        BY <3>1, <3>2
    <2> QED
      BY <1>11, <2>1, <2>2, <2>3, <2>4, <2>5, Zenon DEF Flipped, Resized
  <1> QED
    BY <1>7, <1>10, <1>12, Zenon

\* The page that is drawn on is clear.
Cleared(d, e) ==
    /\ e \in States /\ e.context_idx = d.context_idx /\ e.ctx = d.ctx
    /\ e.contexts = d.contexts /\ Cur(e) = Cur(d) /\ e.deepest = d.deepest
    /\ e.page_front = d.page_front /\ e.vram = d.vram
    /\ Page(e) = [cleared |-> Cur(d).r, things |-> {}, fresh |-> TRUE]
    /\ \A p \in {0, 1} : p # d.vram => e.page[p] = d.page[p]

LEMMA ClearIs ==
    ASSUME NEW d \in States
    PROVE  Cleared(d, gfx_clear(d))
  <1>1. PICK b : b = [cleared |-> Cur(d).r, things |-> {}, fresh |-> TRUE]
    BY Zenon
  <1>2. b \in Pages
    <2>1. Cur(d).r \in Regions
      BY StateTypes, ContextTypes, Zenon
    <2> QED
      BY <1>1, <2>1, Zenon DEF Pages
  <1>3. PICK e : e = [d EXCEPT !.page[d.vram] = b]
    BY Zenon
  <1>4. gfx_clear(d) = e
    BY <1>1, <1>3, Zenon DEF gfx_clear
  <1>5. e \in States
    BY <1>2, <1>3, Zenon DEF States
  <1>6. /\ e.context_idx = d.context_idx /\ e.ctx = d.ctx
        /\ e.contexts = d.contexts /\ Cur(e) = Cur(d) /\ e.deepest = d.deepest
        /\ e.page_front = d.page_front /\ e.vram = d.vram
    BY <1>3, Zenon DEF States, Cur
  <1>7. Page(e) = b /\ \A p \in {0, 1} : p # d.vram => e.page[p] = d.page[p]
    BY <1>3, Zenon DEF States, Page
  <1> QED
    BY <1>1, <1>4, <1>5, <1>6, <1>7, Zenon DEF Cleared

----------------------------------------------------------------------------
(* What the main loop draws. *)

LEMMA Positions ==
    ASSUME NEW pos \in {0, 1}
    PROVE  align_info(pos) \in Aligns
  BY DEF align_info, Aligns

LEMMA VersionDrawn ==
    ASSUME NEW o, NEW d, NEW r, NEW y, NEW menu, NEW ts, Draft(o, d, r, y, menu, ts), Level(o),
           NEW pos \in {0, 1}
    PROVE  Draft(o, draw_version(d, pos), r, y, menu,
                 ts \union {Thing("text", Window(r, align_info(pos), "END", 2, 2, 24, 1), 0, y, 23, 1)})
  <1> DEFINE e == gfx_begin_window(d, align_info(pos), "END", 2, 2, 24, 1, 0)
             win == Window(r, align_info(pos), "END", 2, 2, 24, 1)
  <1>1. /\ "END" \in Aligns /\ "BEGIN" \in Aligns /\ align_info(pos) \in Aligns
    BY Positions, Zenon DEF Aligns
  <1>2. 1 \in Int /\ 2 \in Int /\ 23 \in Int /\ 24 \in Int
    OBVIOUS
  <1>3. Draft(gfx_push(d), e, win, y, menu, {})
    BY <1>1, <1>2, PlainWindow, Zenon
  <1>4. Align("BEGIN", 0, 23, win.w) = 0
    BY DEF Align
  <1>5. draw_version(d, pos) = gfx_pop(gfx_text(e, "BEGIN", 23))
    BY Zenon DEF draw_version
  <1> HIDE DEF e, win
  <1>6. Draft(gfx_push(d), gfx_text(e, "BEGIN", 23), win, y + 1, menu,
              {} \union {Thing("text", win, Align("BEGIN", 0, 23, win.w), y, 23, 1)})
    BY <1>1, <1>2, <1>3, Text, Zenon
  <1>7. PICK t : t = Thing("text", win, 0, y, 23, 1)
    BY Zenon
  <1>8. Draft(gfx_push(d), gfx_text(e, "BEGIN", 23), win, y + 1, menu, {} \union {t})
    BY <1>4, <1>6, <1>7, Zenon
  <1>9. {} \union {t} = {t}
    BY Zenon
  <1>10. PICK f : f = gfx_text(e, "BEGIN", 23)
    BY Zenon
  <1>11. Draft(gfx_push(d), f, win, y + 1, menu, {t})
    BY <1>8, <1>9, <1>10, Zenon
  <1>12. Draft(o, gfx_pop(f), r, y, menu, ts \union {t})
    BY <1>11, WindowDone, Zenon
  <1> QED
    BY <1>5, <1>7, <1>10, <1>12, Zenon DEF win

\* A window with n lines of text and nothing else.
LEMMA LinesWindow ==
    ASSUME NEW o, NEW d, NEW r, NEW y, NEW menu, NEW ts, Draft(o, d, r, y, menu, ts), Level(o),
           NEW h \in Aligns, NEW v \in Aligns, NEW xadj \in Int, NEW yadj \in Int,
           NEW w \in Int, NEW n \in Int, NEW len \in Int
    PROVE  Draft(o, gfx_pop(Lines(gfx_begin_window(d, h, v, xadj, yadj, w, n, 0), n, len)), r, y, menu,
                 ts \union {Thing("text", Window(r, h, v, xadj, yadj, w, n), 0, y, len, n)})
  <1> DEFINE e == gfx_begin_window(d, h, v, xadj, yadj, w, n, 0)
             win == Window(r, h, v, xadj, yadj, w, n)
  <1>1. Draft(gfx_push(d), e, win, y, menu, {})
    BY PlainWindow, Zenon
  <1> HIDE DEF e, win
  <1>2. PICK t : t = Thing("text", win, 0, y, len, n)
    BY Zenon
  <1>3. PICK f : f = Lines(e, n, len)
    BY Zenon
  <1>4. Draft(gfx_push(d), f, win, y + n, menu, {} \union {t})
    BY <1>1, <1>2, <1>3, LinesOfText, Zenon
  <1>5. {} \union {t} = {t}
    BY Zenon
  <1>6. Draft(gfx_push(d), f, win, y + n, menu, {t})
    BY <1>4, <1>5, Zenon
  <1>7. Draft(o, gfx_pop(f), r, y, menu, ts \union {t})
    BY <1>6, WindowDone, Zenon
  <1> QED
    BY <1>2, <1>3, <1>7, Zenon DEF e, win

Marks(r) ==
    LET y3 == r.h \div 3
    IN  {Thing("mark", r, r.w \div 2, 0, 2, 1), Thing("mark", r, r.w \div 2, r.h - 1, 2, 1),
         Thing("mark", r, 0, y3 - 1, 1, 1), Thing("mark", r, r.w - 1, y3 - 1, 1, 1),
         Thing("mark", r, 0, 2 * y3, 1, 1), Thing("mark", r, r.w - 1, 2 * y3, 1, 1)}

LEMMA BorderDrawn ==
    ASSUME NEW o, NEW d, NEW r, NEW y, NEW menu, NEW ts, Draft(o, d, r, y, menu, ts)
    PROVE  Draft(o, gfx_display_border(d), r, y, menu, ts \union Marks(r))
  <1>1. r.w \in Int /\ r.h \in Int
    BY DraftSize, Zenon
  <1>2. Cur(d).r = r
    BY DraftFields
  <1>3. PICK x2, x1, yb, y1, y2 : /\ x2 = r.w \div 2 /\ x1 = r.w - 1 /\ yb = r.h - 1
                                  /\ y1 = (r.h \div 3) - 1 /\ y2 = 2 * (r.h \div 3)
    BY Zenon
  <1>4. /\ x2 \in Int /\ x1 \in Int /\ yb \in Int /\ y1 \in Int /\ y2 \in Int
        /\ 0 \in Int /\ 1 \in Int /\ 2 \in Int
    BY <1>1, <1>3
  <1>5. "mark" \in Kinds
    BY Zenon DEF Kinds
  <1>6. PICK d1, t1 : /\ d1 = Draw(d, "mark", x2, 0, 2, 1)
                      /\ t1 = ts \union {Thing("mark", r, x2, 0, 2, 1)}
    BY Zenon
  <1>7. PICK d2, t2 : /\ d2 = Draw(d1, "mark", x2, yb, 2, 1)
                      /\ t2 = t1 \union {Thing("mark", r, x2, yb, 2, 1)}
    BY Zenon
  <1>8. PICK d3, t3 : /\ d3 = Draw(d2, "mark", 0, y1, 1, 1)
                      /\ t3 = t2 \union {Thing("mark", r, 0, y1, 1, 1)}
    BY Zenon
  <1>9. PICK d4, t4 : /\ d4 = Draw(d3, "mark", x1, y1, 1, 1)
                      /\ t4 = t3 \union {Thing("mark", r, x1, y1, 1, 1)}
    BY Zenon
  <1>10. PICK d5, t5 : /\ d5 = Draw(d4, "mark", 0, y2, 1, 1)
                       /\ t5 = t4 \union {Thing("mark", r, 0, y2, 1, 1)}
    BY Zenon
  <1>11. PICK d6, t6 : /\ d6 = Draw(d5, "mark", x1, y2, 1, 1)
                       /\ t6 = t5 \union {Thing("mark", r, x1, y2, 1, 1)}
    BY Zenon
  <1>12. gfx_display_border(d) = d6
    BY <1>2, <1>3, <1>6, <1>7, <1>8, <1>9, <1>10, <1>11, Zenon DEF gfx_display_border
  <1>13. Draft(o, d1, r, y, menu, t1)
    BY <1>4, <1>5, <1>6, DrawOne, Zenon
  <1>14. Draft(o, d2, r, y, menu, t2)
    BY <1>4, <1>5, <1>7, <1>13, DrawOne, Zenon
  <1>15. Draft(o, d3, r, y, menu, t3)
    BY <1>4, <1>5, <1>8, <1>14, DrawOne, Zenon
  <1>16. Draft(o, d4, r, y, menu, t4)
    BY <1>4, <1>5, <1>9, <1>15, DrawOne, Zenon
  <1>17. Draft(o, d5, r, y, menu, t5)
    BY <1>4, <1>5, <1>10, <1>16, DrawOne, Zenon
  <1>18. Draft(o, d6, r, y, menu, t6)
    BY <1>4, <1>5, <1>11, <1>17, DrawOne, Zenon
  <1>19. t6 = ts \union Marks(r)
    BY <1>3, <1>6, <1>7, <1>8, <1>9, <1>10, <1>11, Zenon DEF Marks
  <1> QED
    BY <1>12, <1>18, <1>19, Zenon

\* The bars, on the side a or the other.
BarsAt(r, a) ==
    {Thing("bar", r, Align(a, 0, BAR_W, r.w), Align(v, 0, BAR_H, r.h), BAR_W, BAR_H) : v \in Aligns}

LEMMA BarsDrawn ==
    ASSUME NEW o, NEW d, NEW r, NEW y, NEW menu, NEW ts, Draft(o, d, r, y, menu, ts),
           test_position \in {0, 1}
    PROVE  Draft(o, Bars(d), r, y, menu, ts \union BarsAt(r, align_test))
  <1>1. align_test \in Aligns /\ "BEGIN" \in Aligns /\ "MID" \in Aligns /\ "END" \in Aligns
    BY Zenon DEF align_test, Aligns
  <1>2. "bar" \in Kinds
    BY Zenon DEF Kinds
  <1>3. 0 \in Int /\ BAR_W \in Int /\ BAR_H \in Int
    BY GfxAssumption
  <1>4. PICK a \in Aligns : a = align_test
    BY <1>1, Zenon
  <1>5. PICK d1, t1 :
            /\ d1 = Box(d, "bar", a, "BEGIN", 0, 0, BAR_W, BAR_H)
            /\ t1 = ts \union {Thing("bar", r, Align(a, 0, BAR_W, r.w), Align("BEGIN", 0, BAR_H, r.h), BAR_W, BAR_H)}
    BY Zenon
  <1>6. PICK d2, t2 :
            /\ d2 = Box(d1, "bar", a, "MID", 0, 0, BAR_W, BAR_H)
            /\ t2 = t1 \union {Thing("bar", r, Align(a, 0, BAR_W, r.w), Align("MID", 0, BAR_H, r.h), BAR_W, BAR_H)}
    BY Zenon
  <1>7. PICK d3, t3 :
            /\ d3 = Box(d2, "bar", a, "END", 0, 0, BAR_W, BAR_H)
            /\ t3 = t2 \union {Thing("bar", r, Align(a, 0, BAR_W, r.w), Align("END", 0, BAR_H, r.h), BAR_W, BAR_H)}
    BY Zenon
  <1>8. Bars(d) = d3
    BY <1>4, <1>5, <1>6, <1>7, Zenon DEF Bars
  <1>9. Draft(o, d1, r, y, menu, t1)
    BY <1>1, <1>2, <1>3, <1>5, BoxDrawn, Zenon
  <1>10. Draft(o, d2, r, y, menu, t2)
    BY <1>1, <1>2, <1>3, <1>6, <1>9, BoxDrawn, Zenon
  <1>11. Draft(o, d3, r, y, menu, t3)
    BY <1>1, <1>2, <1>3, <1>7, <1>10, BoxDrawn, Zenon
  <1>12. t3 = ts \union BarsAt(r, a)
    BY <1>5, <1>6, <1>7, Zenon DEF BarsAt, Aligns
  <1> QED
    BY <1>4, <1>8, <1>11, <1>12, Zenon

\* The version at the bottom.
Version(r, y, a) == Thing("text", Window(r, a, "END", 2, 2, 24, 1), 0, y, 23, 1)

\* The image, the mode and the status, and the version, beside the bars.
Info(r, y, a) ==
    {Thing("image", r, Align(a, 2, 4, r.w), Align("BEGIN", 2, 4, r.h), 4, 4),
     Thing("text", Window(r, a, "END", 2, 5, 24, 2), 0, y, 22, 2),
     Thing("text", Window(r, a, "MID", 2, -2, 24, STATUS_H), 0, y, 15, STATUS_H),
     Version(r, y, a)}

Sampled(r, y) == Marks(r) \union BarsAt(r, align_test) \union Info(r, y, info)

LEMMA SamplingDrawn ==
    ASSUME NEW d, NEW r, NEW y, NEW menu,
           Draft(gfx_clear(d), gfx_clear(d), r, y, menu, {}), Level(gfx_clear(d)),
           test_position \in {0, 1}
    PROVE  Draft(gfx_clear(d), draw_version(do_sampling(d), test_position), r, y, menu, Sampled(r, y))
  <1>1. PICK o : o = gfx_clear(d)
    BY Zenon
  <1>2. Draft(o, o, r, y, menu, {}) /\ Level(o)
    BY <1>1, Zenon
  <1>3. PICK a \in Aligns : a = info
    BY Positions, Zenon DEF info
  <1>4. "BEGIN" \in Aligns /\ "MID" \in Aligns /\ "END" \in Aligns /\ "image" \in Kinds
    BY Zenon DEF Aligns, Kinds
  <1>5. /\ -2 \in Int /\ 2 \in Int /\ 4 \in Int /\ 5 \in Int /\ 15 \in Int /\ 22 \in Int
        /\ 24 \in Int /\ STATUS_H \in Int
    BY GfxAssumption
  <1>6. PICK d1, t1 : d1 = gfx_display_border(o) /\ t1 = {} \union Marks(r)
    BY Zenon
  <1>7. PICK d2, t2 : d2 = Bars(d1) /\ t2 = t1 \union BarsAt(r, align_test)
    BY Zenon
  <1>8. PICK d3, t3 :
            /\ d3 = Box(d2, "image", a, "BEGIN", 2, 2, 4, 4)
            /\ t3 = t2 \union {Thing("image", r, Align(a, 2, 4, r.w), Align("BEGIN", 2, 4, r.h), 4, 4)}
    BY Zenon
  <1>9. PICK d4, t4 :
            /\ d4 = gfx_pop(Lines(gfx_begin_window(d3, a, "END", 2, 5, 24, 2, 0), 2, 22))
            /\ t4 = t3 \union {Thing("text", Window(r, a, "END", 2, 5, 24, 2), 0, y, 22, 2)}
    BY Zenon
  <1>10. PICK d5, t5 :
            /\ d5 = gfx_pop(Lines(gfx_begin_window(d4, a, "MID", 2, -2, 24, STATUS_H, 0), STATUS_H, 15))
            /\ t5 = t4 \union {Thing("text", Window(r, a, "MID", 2, -2, 24, STATUS_H), 0, y, 15, STATUS_H)}
    BY Zenon
  <1>11. PICK d6, t6 : d6 = draw_version(d5, test_position) /\ t6 = t5 \union {Version(r, y, a)}
    BY Zenon
  <1>12. do_sampling(d) = d5
    BY <1>1, <1>3, <1>6, <1>7, <1>8, <1>9, <1>10, Zenon DEF do_sampling, draw_status
  <1>13. Draft(o, d1, r, y, menu, t1)
    BY <1>2, <1>6, BorderDrawn, Zenon
  <1>14. Draft(o, d2, r, y, menu, t2)
    BY <1>7, <1>13, BarsDrawn, Zenon
  <1>15. Draft(o, d3, r, y, menu, t3)
    BY <1>4, <1>5, <1>8, <1>14, BoxDrawn, ZenonT(30)
  <1>16. Draft(o, d4, r, y, menu, t4)
    BY <1>2, <1>4, <1>5, <1>9, <1>15, LinesWindow, ZenonT(30)
  <1>17. Draft(o, d5, r, y, menu, t5)
    BY <1>2, <1>4, <1>5, <1>10, <1>16, LinesWindow, ZenonT(30)
  <1>18. Draft(o, d6, r, y, menu, t6)
    BY <1>2, <1>3, <1>11, <1>17, VersionDrawn, Zenon DEF Version, info
  <1>19. t6 = Sampled(r, y)
    BY <1>3, <1>6, <1>7, <1>8, <1>9, <1>10, <1>11, Zenon DEF Sampled, Info
  <1> QED
    BY <1>1, <1>11, <1>12, <1>18, <1>19, Zenon

\* The message that there is no sensor.
Missing(win, y) ==
    Frame(win, 34, 6) \union
    {Thing("text", Inner(win), Align("MID", 0, 19, Inner(win).w), y, 19, 1),
     Thing("text", Inner(win), 0, y + 1 + 1, 32, 2)}

LEMMA NoSensorDrawn ==
    ASSUME NEW d, NEW r, NEW y, NEW menu,
           Draft(gfx_clear(d), gfx_clear(d), r, y, menu, {}), Level(gfx_clear(d)),
           test_position \in {0, 1}
    PROVE  Draft(gfx_clear(d), draw_version(draw_no_sensor(d), test_position), r, y, menu,
                 Missing(Window(r, "MID", "MID", 0, 0, 34, 6), y) \union {Version(r, y, info)})
  <1>1. PICK o : o = gfx_clear(d)
    BY Zenon
  <1>2. Draft(o, o, r, y, menu, {}) /\ Level(o)
    BY <1>1, Zenon
  <1>3. "MID" \in Aligns
    BY Zenon DEF Aligns
  <1>4. /\ 0 \in Int /\ 1 \in Int /\ 2 \in Int /\ 6 \in Int /\ 19 \in Int /\ 32 \in Int
        /\ 34 \in Int
    OBVIOUS
  <1>5. PICK win : win = Window(r, "MID", "MID", 0, 0, 34, 6)
    BY Zenon
  <1>6. PICK d1, t1 : d1 = gfx_begin_window(o, "MID", "MID", 0, 0, 34, 6, 1) /\ t1 = Frame(win, 34, 6)
    BY Zenon
  <1>7. PICK in : in = Inner(win)
    BY Zenon
  <1>8. PICK d2, t2 :
            /\ d2 = gfx_text(d1, "MID", 19)
            /\ t2 = t1 \union {Thing("text", in, Align("MID", 0, 19, in.w), y, 19, 1)}
    BY Zenon
  <1>9. PICK d3, y3 : d3 = gfx_newline(d2, 1) /\ y3 = y + 1 + 1
    BY Zenon
  <1>10. PICK d4, t4 : d4 = Lines(d3, 2, 32) /\ t4 = t2 \union {Thing("text", in, 0, y3, 32, 2)}
    BY Zenon
  <1>11. draw_no_sensor(d) = gfx_pop(d4)
    BY <1>1, <1>6, <1>8, <1>9, <1>10, Zenon DEF draw_no_sensor
  <1>12. Draft(gfx_push(o), d1, in, y, menu, t1)
    BY <1>2, <1>3, <1>4, <1>5, <1>6, <1>7, FramedWindow, Zenon
  <1>13. Draft(gfx_push(o), d2, in, y + 1, menu, t2)
    BY <1>3, <1>4, <1>8, <1>12, Text, Zenon
  <1>14. Draft(gfx_push(o), d3, in, y3, menu, t2)
    BY <1>4, <1>9, <1>13, Newline, Zenon
  <1>15. Draft(gfx_push(o), d4, in, y3 + 2, menu, t4)
    BY <1>4, <1>10, <1>14, LinesOfText, Zenon
  <1>16. Draft(o, gfx_pop(d4), r, y, menu, {} \union t4)
    BY <1>2, <1>15, WindowDone, Zenon
  <1>17. PICK f, us : f = gfx_pop(d4) /\ us = {} \union t4
    BY Zenon
  <1>18. Draft(o, draw_version(f, test_position), r, y, menu, us \union {Version(r, y, info)})
    BY <1>2, <1>16, <1>17, VersionDrawn, Zenon DEF Version, info
  <1>19. us = Missing(win, y)
    BY <1>6, <1>7, <1>8, <1>9, <1>10, <1>17, Zenon DEF Missing
  <1> QED
    BY <1>1, <1>5, <1>11, <1>17, <1>18, <1>19, Zenon

\* A window becomes a menu.
LEMMA MenuOpens ==
    ASSUME NEW o, NEW d, NEW r, NEW y, NEW menu, NEW ts, Draft(o, d, r, y, menu, ts),
           NEW open \in BOOLEAN
    PROVE  Draft(o, With(d, [Cur(d) EXCEPT !.menu = open]), r, y, open, ts)
  <1>1. Cur(d) = Ctx(r, y, menu)
    BY DraftCtx
  <1>2. d \in States /\ r \in Regions /\ y \in Int
    BY DraftIs, Zenon
  <1>3. [Cur(d) EXCEPT !.menu = open] = Ctx(r, y, open)
    BY <1>1 DEF Ctx
  <1>4. PICK c \in Contexts : c = Ctx(r, y, open)
    BY <1>2, ContextTypes, Zenon
  <1>5. Draws(d, With(d, c), c, {})
    BY <1>2, WithIs, Zenon
  <1>6. Draft(d, With(d, c), r, y, open, {})
    BY <1>2, <1>4, <1>5, Zenon DEF Draft, Draws, Keeps
  <1>7. Draft(o, With(d, c), r, y, open, ts \union {})
    BY <1>6, DraftThen, Zenon
  <1>8. ts \union {} = ts
    BY Zenon
  <1> QED
    BY <1>3, <1>4, <1>7, <1>8, Zenon

\* The window of the menu, and what is in it above the button.
MenuWindow(r) == Window(r, "MID", "MID", 0, 0, 28, 18)

Item(in, y) == Thing("text", in, 0, y, in.w, 1)

Top(win, y, aspect) ==
    Frame(win, 28, 18) \union
    {Thing("text", Inner(win), Align("MID", 0, 6, Inner(win).w), y, 6, 1),
     Item(Inner(win), y + 2), Item(Inner(win), y + 4)} \union
    (IF aspect THEN {Item(Inner(win), y + 6)} ELSE {})

LEMMA MenuTopDrawn ==
    ASSUME NEW d, NEW r, NEW y, NEW menu,
           Draft(gfx_clear(d), gfx_clear(d), r, y, menu, {}), Level(gfx_clear(d)),
           NEW aspect \in BOOLEAN, NEW open, Open(open)
    PROVE  Draft(gfx_push(gfx_clear(d)), MenuTop(d, aspect), Inner(MenuWindow(r)), y + 8, open,
                 Top(MenuWindow(r), y, aspect))
  <1>1. PICK o : o = gfx_clear(d)
    BY Zenon
  <1>2. Draft(o, o, r, y, menu, {}) /\ Level(o)
    BY <1>1, Zenon
  <1>3. "MID" \in Aligns /\ open \in BOOLEAN
    BY Zenon DEF Aligns, Open
  <1>4. 0 \in Int /\ 1 \in Int /\ 2 \in Int /\ 6 \in Int /\ 18 \in Int /\ 28 \in Int
    OBVIOUS
  <1>5. PICK win, in : win = MenuWindow(r) /\ in = Inner(win)
    BY Zenon
  <1>6. y \in Int
    BY DraftIs, Zenon
  <1>7. /\ y + 1 + 2 = y + 3 /\ y + 3 + 2 = y + 5 /\ y + 5 + 2 = y + 7 /\ y + 7 + 1 = y + 8
        /\ y + 1 + 1 = y + 2 /\ y + 3 + 1 = y + 4 /\ y + 5 + 1 = y + 6
    BY <1>6
  <1>8. PICK d1, t1 : d1 = gfx_begin_window(o, "MID", "MID", 0, 0, 28, 18, 1) /\ t1 = Frame(win, 28, 18)
    BY Zenon
  <1>9. PICK d2 : d2 = With(d1, [Cur(d1) EXCEPT !.menu = open])
    BY Zenon
  <1>10. PICK d3, t3 :
            /\ d3 = gfx_text(d2, "MID", 6)
            /\ t3 = t1 \union {Thing("text", in, Align("MID", 0, 6, in.w), y, 6, 1)}
    BY Zenon
  <1>11. PICK d4, t4 : d4 = Select(d3) /\ t4 = t3 \union {Item(in, y + 2)}
    BY Zenon
  <1>12. PICK d5, t5 : d5 = Select(d4) /\ t5 = t4 \union {Item(in, y + 4)}
    BY Zenon
  <1>13. PICK d6, t6 : /\ d6 = IF aspect THEN Select(d5) ELSE gfx_newline(d5, 2)
                       /\ t6 = IF aspect THEN t5 \union {Item(in, y + 6)} ELSE t5
    BY Zenon
  <1>14. MenuTop(d, aspect) = gfx_newline(d6, 1)
    BY <1>1, <1>8, <1>9, <1>10, <1>11, <1>12, <1>13, Zenon DEF MenuTop, Open
  <1>15. Draft(gfx_push(o), d1, in, y, menu, t1)
    BY <1>2, <1>3, <1>4, <1>5, <1>8, FramedWindow, Zenon DEF MenuWindow
  <1>16. Draft(gfx_push(o), d2, in, y, open, t1)
    BY <1>3, <1>9, <1>15, MenuOpens, Zenon
  <1>17. Draft(gfx_push(o), d3, in, y + 1, open, t3)
    BY <1>3, <1>4, <1>10, <1>16, Text, Zenon
  <1>18. Draft(gfx_push(o), d4, in, y + 3, open, t4)
    BY <1>7, <1>11, <1>17, SelectItem, Zenon DEF Item
  <1>19. Draft(gfx_push(o), d5, in, y + 5, open, t5)
    BY <1>7, <1>12, <1>18, SelectItem, Zenon DEF Item
  <1>20. Draft(gfx_push(o), d6, in, y + 7, open, t6)
    <2>1. CASE aspect
      BY <1>7, <1>13, <1>19, <2>1, SelectItem, Zenon DEF Item
    <2>2. CASE ~aspect
      <3>1. Draft(gfx_push(o), gfx_newline(d5, 2), in, y + 5 + 2, open, t5)
        BY <1>4, <1>19, Newline, Zenon
      <3> QED
        BY <1>7, <1>13, <2>2, <3>1, Zenon
    <2> QED
      BY <2>1, <2>2, Zenon
  <1>21. Draft(gfx_push(o), gfx_newline(d6, 1), in, y + 7 + 1, open, t6)
    BY <1>4, <1>20, Newline, Zenon
  <1>22. t6 = Top(win, y, aspect)
    <2>1. t5 = Frame(win, 28, 18) \union {Thing("text", in, Align("MID", 0, 6, in.w), y, 6, 1), Item(in, y + 2), Item(in, y + 4)}
      BY <1>8, <1>10, <1>11, <1>12, Zenon
    <2> QED
      BY <1>5, <1>13, <2>1, Zenon DEF Top
  <1> QED
    BY <1>1, <1>5, <1>7, <1>14, <1>21, <1>22, Zenon

\* The menu ends with one more item, the position of the test pattern.
LEMMA LastItem ==
    ASSUME NEW o, NEW d, NEW r, NEW y, NEW open, NEW ts, Draft(o, d, r, y, open, ts), Open(open)
    PROVE  Draft(o, Select(gfx_newline(d, 2)), r, y + 4, open, ts \union {Item(r, y + 3)})
  <1>1. 2 \in Int
    OBVIOUS
  <1>2. y + 2 + 1 = y + 3 /\ y + 2 + 2 = y + 4
    BY DraftIs
  <1>3. PICK e : e = gfx_newline(d, 2)
    BY Zenon
  <1>4. Draft(o, e, r, y + 2, open, ts)
    BY <1>1, <1>3, Newline, Zenon
  <1> QED
    BY <1>2, <1>3, <1>4, SelectItem, Zenon DEF Item

\* The text of the Apply button.
ApplyText(in, y) == Thing("text", in, Align("MID", 0, 19, in.w), y + 9, 19, 1)

LEMMA ApplyDrawn ==
    ASSUME NEW o, NEW d, NEW r, NEW y, NEW open, NEW ts, Draft(o, d, r, y + 8, open, ts), Open(open),
           y \in Int
    PROVE  Draft(o, Button(d), r, y + 10, open, ts \union {ApplyText(r, y)})
  <1>1. y + 8 + 2 = y + 10 /\ y + 8 + 1 = y + 9
    OBVIOUS
  <1> QED
    BY <1>1, ButtonItem, Zenon DEF ApplyText

\* The whole menu.
MenuItems(win, y, aspect, offered) ==
    Top(win, y, aspect) \union
    (IF offered THEN {ApplyText(Inner(win), y), Item(Inner(win), y + 13)}
                ELSE {Item(Inner(win), y + 11)})

LEMMA MenuDrawn ==
    ASSUME NEW d, NEW r, NEW y, NEW menu,
           Draft(gfx_clear(d), gfx_clear(d), r, y, menu, {}), Level(gfx_clear(d)),
           NEW aspect \in BOOLEAN, NEW offered \in BOOLEAN, NEW pos \in {0, 1}
    PROVE  LET top == MenuTop(d, aspect)
           IN  Draft(gfx_clear(d), draw_version(MenuBottom(IF offered THEN Button(top) ELSE top), pos),
                     r, y, menu,
                     MenuItems(MenuWindow(r), y, aspect, offered) \union {Version(r, y, align_info(pos))})
  <1>1. PICK o, open : o = gfx_clear(d) /\ Open(open)
    BY Zenon DEF Open
  <1>2. Draft(o, o, r, y, menu, {}) /\ Level(o)
    BY <1>1, Zenon
  <1>3. PICK win, in : win = MenuWindow(r) /\ in = Inner(win)
    BY Zenon
  <1>4. y \in Int
    BY DraftIs, Zenon
  <1>5. PICK top, t1 : top = MenuTop(d, aspect) /\ t1 = Top(win, y, aspect)
    BY Zenon
  <1>6. Draft(gfx_push(o), top, in, y + 8, open, t1)
    BY <1>1, <1>3, <1>5, MenuTopDrawn, Zenon
  <1>7. PICK e : e = IF offered THEN Button(top) ELSE top
    BY Zenon
  <1>8. PICK f : f = Select(gfx_newline(e, 2))
    BY Zenon
  <1>9. PICK y3, ts : Draft(gfx_push(o), f, in, y3, open, ts) /\ ts = MenuItems(win, y, aspect, offered)
    <2>1. CASE offered
      <3>1. PICK t2 : t2 = t1 \union {ApplyText(in, y)}
        BY Zenon
      <3>2. Draft(gfx_push(o), e, in, y + 10, open, t2)
        BY <1>1, <1>4, <1>6, <1>7, <2>1, <3>1, ApplyDrawn, Zenon
      <3>3. y + 10 + 3 = y + 13
        BY <1>4
      <3>4. Draft(gfx_push(o), f, in, y + 10 + 4, open, t2 \union {Item(in, y + 13)})
        BY <1>1, <1>8, <3>2, <3>3, LastItem, Zenon
      <3>5. t2 \union {Item(in, y + 13)} = MenuItems(win, y, aspect, offered)
        BY <1>3, <1>5, <2>1, <3>1, Zenon DEF MenuItems
      <3> QED
        BY <3>4, <3>5, Zenon
    <2>2. CASE ~offered
      <3>1. Draft(gfx_push(o), e, in, y + 8, open, t1)
        BY <1>6, <1>7, <2>2, Zenon
      <3>2. y + 8 + 3 = y + 11
        BY <1>4
      <3>3. Draft(gfx_push(o), f, in, y + 8 + 4, open, t1 \union {Item(in, y + 11)})
        BY <1>1, <1>8, <3>1, <3>2, LastItem, Zenon
      <3>4. t1 \union {Item(in, y + 11)} = MenuItems(win, y, aspect, offered)
        BY <1>3, <1>5, <2>2, Zenon DEF MenuItems
      <3> QED
        BY <3>3, <3>4, Zenon
    <2> QED
      BY <2>1, <2>2, Zenon
  <1>10. Draft(o, gfx_pop(f), r, y, menu, {} \union ts)
    BY <1>2, <1>9, WindowDone, Zenon
  <1>11. PICK h : h = gfx_pop(f)
    BY Zenon
  <1>12. {} \union ts = ts
    BY Zenon
  <1>13. Draft(o, h, r, y, menu, ts)
    BY <1>10, <1>11, <1>12, Zenon
  <1>14. Draft(o, draw_version(h, pos), r, y, menu, ts \union {Version(r, y, align_info(pos))})
    BY <1>2, <1>13, VersionDrawn, Zenon DEF Version
  <1>15. h = MenuBottom(e)
    BY <1>8, <1>11, Zenon DEF MenuBottom
  <1> QED
    BY <1>1, <1>3, <1>5, <1>7, <1>9, <1>14, <1>15, Zenon

LEMMA DraftPages ==
    ASSUME NEW o, NEW d, NEW r, NEW y, NEW menu, NEW ts, Draft(o, d, r, y, menu, ts)
    PROVE  \A p \in {0, 1} : d.page[p].things \subseteq o.page[p].things \union ts
  <1>1. Keeps(o, d) /\ Picture(d) = Picture(o) \union ts
    BY Zenon DEF Draft, Draws
  <1> QED
    BY <1>1, Zenon DEF Keeps, Picture, Page

\* The Apply button: the screen is new, and the last item, which comes after, is on
\* the page that the version is on.
Applied(o, k, wide, ts) ==
    /\ k \in States /\ k.ctx = 0 /\ k.context_idx = 0 /\ k.contexts[0] = Context(ScreenOf(wide))
    /\ o.deepest <= 2 => k.deepest <= 2
    /\ k.page_front = 1 - o.page_front /\ k.vram = o.page_front
    /\ \A p \in {0, 1} : k.page[p].things \subseteq o.page[p].things \union ts

\* A page flip leaves one context above context 0, the screen's.
Ready(c, s) == c \in States /\ c.ctx = 1 /\ c.context_idx = 1 /\ c.contexts[0] = Context(s)

Applying(d, r, y, menu, s, open, aspect, wide, pos) ==
    /\ Draft(gfx_clear(d), gfx_clear(d), r, y, menu, {}) /\ Ready(gfx_clear(d), s)
    /\ Open(open) /\ aspect \in BOOLEAN /\ wide \in BOOLEAN /\ pos \in {0, 1}

LEMMA ApplyIs ==
    ASSUME NEW d, NEW r, NEW y, NEW menu, NEW s, NEW open, NEW aspect, NEW wide, NEW pos,
           Applying(d, r, y, menu, s, open, aspect, wide, pos)
    PROVE  Applied(gfx_clear(d),
                   draw_version(MenuBottom(gfx_set_240p(Button(MenuTop(d, aspect)), wide)), pos),
                   wide,
                   MenuItems(MenuWindow(r), y, aspect, open) \union
                   {Version(ScreenOf(wide), 0, align_info(pos))})
  <1> USE DEF Applying
  <1>1. PICK o : o = gfx_clear(d)
    BY Zenon
  <1>2. /\ o \in States /\ o.ctx = 1 /\ o.context_idx = 1 /\ o.contexts[0] = Context(s)
        /\ Draft(o, o, r, y, menu, {}) /\ Level(o)
    BY <1>1, Zenon DEF Level, Ready
  <1>3. PICK win, in : win = MenuWindow(r) /\ in = Inner(win)
    BY Zenon
  <1>4. y \in Int
    BY DraftIs, Zenon
  <1>5. PICK top, t1 : top = MenuTop(d, aspect) /\ t1 = Top(win, y, aspect)
    BY Zenon
  <1>6. PICK p : p = gfx_push(o)
    BY Zenon
  <1>7. Draft(p, top, in, y + 8, open, t1)
    BY <1>1, <1>2, <1>3, <1>5, <1>6, MenuTopDrawn, Zenon
  <1>8. PICK e, t2 : e = Button(top) /\ t2 = t1 \union {ApplyText(in, y)}
    BY Zenon
  <1>9. Draft(p, e, in, y + 10, open, t2)
    BY <1>1, <1>4, <1>7, <1>8, ApplyDrawn, Zenon
  <1>10. /\ p.ctx = 2 /\ p.contexts[0] = Context(s)
         /\ o.deepest <= 2 => p.deepest <= 2
         /\ p.page_front = o.page_front /\ p.page = o.page
    <2>1. o.context_idx \in {0, 1}
      BY <1>2, Zenon
    <2>2. /\ p.ctx = o.context_idx + 1
          /\ \A i \in 0..NUM_CTX : i <= o.context_idx => p.contexts[i] = o.contexts[i]
          /\ o.deepest <= 2 => p.deepest <= 2
          /\ p.page_front = o.page_front /\ p.page = o.page
      BY <1>2, <1>6, <2>1, PushIs, Zenon
    <2>3. o.context_idx + 1 = 2 /\ 0 \in 0..NUM_CTX /\ 0 <= o.context_idx
      BY <1>2, GfxAssumption
    <2> QED
      BY <1>2, <2>2, <2>3, Zenon
  <1>11. /\ e \in States /\ e.ctx = 2 /\ e.contexts[0] = Context(s) /\ Cur(e) = Ctx(in, y + 10, open)
         /\ e.page_front = o.page_front
         /\ o.deepest <= 2 => e.deepest <= 2
    <2>1. Keeps(p, e) /\ Cur(e) = Ctx(in, y + 10, open)
      BY <1>9, Zenon DEF Draft, Draws
    <2>2. 0 \in 0..NUM_CTX /\ 0 < p.ctx
      BY <1>10, GfxAssumption
    <2> QED
      BY <1>10, <2>1, <2>2, Zenon DEF Keeps
  <1>12. PICK f : f = gfx_set_240p(e, wide)
    BY Zenon
  <1>13. Resized(e, f, wide)
    BY <1>11, <1>12, SetIs, Zenon
  <1>14. f \in States /\ Cur(f) = Ctx(in, y + 10, open) /\ f.context_idx = 1
    <2>1. e.ctx # 0
      BY <1>11
    <2> QED
      BY <1>11, <1>13, <2>1, Zenon DEF Resized
  <1>15. Draft(f, f, in, y + 10, open, {})
    <2>1. Draft(f, f, Cur(f).r, Cur(f).y, Cur(f).menu, {})
      BY <1>14, DraftBegins, Zenon
    <2>2. Cur(f).r = in /\ Cur(f).y = y + 10 /\ Cur(f).menu = open
      BY <1>14, CtxFields
    <2> QED
      BY <2>1, <2>2, Zenon
  <1>16. PICK h : h = Select(gfx_newline(f, 2))
    BY Zenon
  <1>17. PICK y4, t3 : y4 = y + 10 + 4 /\ t3 = {} \union {Item(in, y + 10 + 3)}
    BY Zenon
  <1>18. Draft(f, h, in, y4, open, t3)
    BY <1>1, <1>15, <1>16, <1>17, LastItem, Zenon
  <1>19. /\ h \in States /\ h.context_idx = 1 /\ h.contexts[0] = Context(ScreenOf(wide))
         /\ o.deepest <= 2 => h.deepest <= 2
         /\ h.page_front = 1 - o.page_front /\ h.vram = o.page_front
    <2>1. Keeps(f, h)
      BY <1>18, Zenon DEF Draft, Draws
    <2>2. 0 \in 0..NUM_CTX /\ 0 < f.ctx
      BY <1>13, GfxAssumption DEF Resized
    <2>3. h.contexts[0] = f.contexts[0]
      BY <2>1, <2>2, Zenon DEF Keeps
    <2>4. o.deepest <= 2 => h.deepest <= 2
      BY <1>11, <1>13, <2>1, Zenon DEF Keeps, Resized
    <2>5. h \in States /\ h.context_idx = 1 /\ h.page_front = f.page_front /\ h.vram = f.vram
      BY <1>14, <2>1, Zenon DEF Keeps
    <2> QED
      BY <1>11, <1>13, <2>3, <2>4, <2>5, Zenon DEF Resized
  <1>20. PICK j : j = gfx_pop(h)
    BY Zenon
  <1>21. /\ j \in States /\ j.ctx = 0 /\ j.context_idx = 0 /\ j.contexts[0] = Context(ScreenOf(wide))
         /\ o.deepest <= 2 => j.deepest <= 2
         /\ j.page_front = 1 - o.page_front /\ j.vram = o.page_front /\ j.page = h.page
    <2>1. h.context_idx \in {1, 2}
      BY <1>19, Zenon
    <2>2. /\ j \in States /\ j.context_idx = h.context_idx - 1 /\ j.ctx = h.context_idx - 1
          /\ \A i \in 0..NUM_CTX : i < h.context_idx => j.contexts[i] = h.contexts[i]
          /\ j.deepest = h.deepest /\ j.page_front = h.page_front /\ j.vram = h.vram
          /\ j.page = h.page
      BY <1>19, <1>20, <2>1, PopIs, Zenon
    <2>3. h.context_idx - 1 = 0 /\ 0 \in 0..NUM_CTX /\ 0 < h.context_idx
      BY <1>19, GfxAssumption
    <2> QED
      BY <1>19, <2>2, <2>3, Zenon
  <1>22. PICK c : c = ScreenOf(wide)
    BY Zenon
  <1>23. Cur(j) = Context(c) /\ Level(j)
    BY <1>21, <1>22, Zenon DEF Cur, Level
  <1>24. Draft(j, j, c, Cur(j).y, Cur(j).menu, {}) /\ Cur(j).y = 0
    <2>1. Draft(j, j, Cur(j).r, Cur(j).y, Cur(j).menu, {})
      BY <1>21, DraftBegins, Zenon
    <2>2. Context(c).r = c /\ Context(c).y = 0
      BY Zenon DEF Context
    <2> QED
      BY <1>23, <2>1, <2>2, Zenon
  <1>25. PICK y0, m0 : y0 = Cur(j).y /\ m0 = Cur(j).menu
    BY Zenon
  <1>26. PICK k : k = draw_version(j, pos)
    BY Zenon
  <1>27. PICK t4 : t4 = {} \union {Version(c, y0, align_info(pos))}
    BY Zenon
  <1>28. Draft(j, k, c, y0, m0, t4)
    <2>1. Draft(j, j, c, y0, m0, {}) /\ Level(j)
      BY <1>23, <1>24, <1>25, Zenon
    <2> QED
      BY <1>26, <1>27, <2>1, VersionDrawn, Zenon DEF Version
  <1>29. /\ k \in States /\ k.ctx = 0 /\ k.context_idx = 0
         /\ o.deepest <= 2 => k.deepest <= 2
         /\ k.page_front = 1 - o.page_front /\ k.vram = o.page_front
    <2>1. Keeps(j, k)
      BY <1>28, Zenon DEF Draft, Draws
    <2> QED
      BY <1>21, <2>1, Zenon DEF Keeps
  <1>30. k.contexts[0] = Context(ScreenOf(wide))
    <2>1. Cur(k) = Ctx(c, y0, m0)
      BY <1>28, Zenon DEF Draft, Draws
    <2>2. Cur(j) = Ctx(c, y0, m0)
      BY <1>23, <1>24, <1>25, ContextIs, CtxFields, Zenon DEF Draft, Draws
    <2> QED
      BY <1>22, <1>23, <1>29, <2>1, <2>2, Zenon DEF Cur
  <1>31. \A q \in {0, 1} : k.page[q].things \subseteq o.page[q].things \union (t2 \union t3 \union t4)
    <2>1. \A q \in {0, 1} : e.page[q].things \subseteq p.page[q].things \union t2
      BY <1>9, DraftPages, Zenon
    <2>2. \A q \in {0, 1} : h.page[q].things \subseteq f.page[q].things \union t3
      BY <1>18, DraftPages, Zenon
    <2>3. \A q \in {0, 1} : k.page[q].things \subseteq j.page[q].things \union t4
      BY <1>28, DraftPages, Zenon
    <2>4. \A q \in {0, 1} : f.page[q].things = e.page[q].things
      BY <1>13, Zenon DEF Resized
    <2> QED
      BY <1>10, <1>21, <2>1, <2>2, <2>3, <2>4, Zenon
  <1>32. t2 \union t3 \union t4 = MenuItems(win, y, aspect, open) \union {Version(c, 0, align_info(pos))}
    <2>1. y + 10 + 3 = y + 13
      BY <1>4
    <2> QED
      BY <1>3, <1>5, <1>8, <1>17, <1>24, <1>25, <1>27, <2>1, Zenon DEF MenuItems, Open
  <1>33. k = draw_version(MenuBottom(gfx_set_240p(Button(MenuTop(d, aspect)), wide)), pos)
    BY <1>5, <1>8, <1>12, <1>16, <1>20, <1>26, Zenon DEF MenuBottom
  <1>34. Applied(o, k, wide, MenuItems(win, y, aspect, open) \union {Version(c, 0, align_info(pos))})
    BY <1>29, <1>30, <1>31, <1>32, Zenon DEF Applied
  <1> QED
    BY <1>1, <1>3, <1>22, <1>33, <1>34, Zenon

----------------------------------------------------------------------------
(* Where things are on the screen. *)

\* The memory of a page.
Memory == Region(0, 0, 128, 64)

\* Inside the memory, and inside the window it belongs to.
Proper(t) == Inside(t.at, Memory) /\ Inside(t.at, t.in)

\* A picture that is on the screen s, with nothing on top of anything.
Tidy(ts, s) ==
    /\ \A t \in ts : Inside(t.at, s) /\ Proper(t)
    /\ \A t, u \in ts : t # u => Disjoint(t.at, u.at)

At(t, x, y, w, h) == t.at.x = x /\ t.at.y = y /\ t.at.w = w /\ t.at.h = h

\* The two screens: width, height, and the lines of the marks at the sides.
Sizes(wd, ht, y1, y2) ==
    \/ wd = 40 /\ ht = 30 /\ y1 = 9 /\ y2 = 20
    \/ wd = 48 /\ ht = 27 /\ y1 = 8 /\ y2 = 18

\* The two positions of the test pattern: its column, those of the text and the image.
Sides(a, b, wd, bx, tx, px) ==
    \/ a = "BEGIN" /\ b = "END" /\ bx = 0 /\ tx = wd - 26 /\ px = wd - 6
    \/ a = "END" /\ b = "BEGIN" /\ bx = wd - BAR_W /\ tx = 2 /\ px = 2

\* The six marks, the three bars, and the image with the three texts.
AreMarks(r, wd, ht, y1, y2, t1, t2, t3, t4, t5, t6) ==
    /\ Marks(r) = {t1, t2, t3, t4, t5, t6}
    /\ At(t1, wd \div 2, 0, 2, 1) /\ At(t2, wd \div 2, ht - 1, 2, 1)
    /\ At(t3, 0, y1, 1, 1) /\ At(t4, wd - 1, y1, 1, 1)
    /\ At(t5, 0, y2, 1, 1) /\ At(t6, wd - 1, y2, 1, 1)
    /\ t1.in = r /\ t2.in = r /\ t3.in = r /\ t4.in = r /\ t5.in = r /\ t6.in = r

AreBars(r, a, ht, bx, m, b1, b2, b3) ==
    /\ BarsAt(r, a) = {b1, b2, b3}
    /\ At(b1, bx, 0, BAR_W, BAR_H) /\ At(b2, bx, m, BAR_W, BAR_H)
    /\ At(b3, bx, ht - BAR_H, BAR_W, BAR_H)
    /\ b1.in = r /\ b2.in = r /\ b3.in = r

AreInfo(r, b, ht, tx, px, n, i1, i2, i3, i4) ==
    /\ Info(r, 0, b) = {i1, i2, i3, i4}
    /\ At(i1, px, 2, 4, 4) /\ At(i2, tx, ht - 7, 22, 2) /\ At(i3, tx, n - 2, 15, STATUS_H)
    /\ At(i4, tx, ht - 3, 23, 1)
    /\ i1.in = r /\ Inside(i2.at, i2.in) /\ Inside(i3.at, i3.in) /\ Inside(i4.at, i4.in)

Halved(n, h) == h \in Int /\ 2 * h <= n /\ n < 2 * h + 2

LEMMA Halves == ASSUME NEW n \in Int PROVE Halved(n, n \div 2)
  BY DEF Halved

LEMMA ScreenSizes ==
    ASSUME NEW wide \in BOOLEAN
    PROVE  \E wd, ht, y1, y2 : Sizes(wd, ht, y1, y2) /\ ScreenOf(wide) = Region(0, 0, wd, ht)
  <1>1. CASE wide = TRUE
    <2>1. Sizes(48, 27, 8, 18) /\ ScreenOf(wide) = Region(0, 0, 48, 27)
      BY <1>1 DEF Sizes, ScreenOf
    <2> QED
      BY <2>1
  <1>2. CASE wide = FALSE
    <2>1. Sizes(40, 30, 9, 20) /\ ScreenOf(wide) = Region(0, 0, 40, 30)
      BY <1>2 DEF Sizes, ScreenOf
    <2> QED
      BY <2>1
  <1> QED
    BY <1>1, <1>2, Zenon

\* The marks, the bars, the image and the text leave each other room.
LEMMA SampledRoom ==
    ASSUME NEW wd, NEW ht, NEW y1, NEW y2, Sizes(wd, ht, y1, y2),
           NEW r, r = Region(0, 0, wd, ht),
           NEW a, NEW b, NEW bx, NEW tx, NEW px, Sides(a, b, wd, bx, tx, px),
           NEW m, Halved(ht - BAR_H, m), NEW n, Halved(ht - STATUS_H, n),
           NEW t1, NEW t2, NEW t3, NEW t4, NEW t5, NEW t6,
           AreMarks(r, wd, ht, y1, y2, t1, t2, t3, t4, t5, t6),
           NEW b1, NEW b2, NEW b3, AreBars(r, a, ht, bx, m, b1, b2, b3),
           NEW i1, NEW i2, NEW i3, NEW i4, AreInfo(r, b, ht, tx, px, n, i1, i2, i3, i4)
    PROVE  Tidy(Marks(r) \union BarsAt(r, a) \union Info(r, 0, b), r)
  <1>1. \A t \in {t1, t2, t3, t4, t5, t6, b1, b2, b3, i1, i2, i3, i4} :
            Inside(t.at, r) /\ Inside(t.at, Memory)
    BY GfxAssumption, SMTT(60)
    DEF At, Halved, Sizes, Sides, Inside, Memory, Region, AreMarks, AreBars, AreInfo
  <1>2. \A t, u \in {t1, t2, t3, t4, t5, t6, b1, b2, b3, i1, i2, i3, i4} :
            t # u => Disjoint(t.at, u.at)
    BY GfxAssumption, SMTT(60) DEF At, Halved, Sizes, Sides, Disjoint, AreMarks, AreBars, AreInfo
  <1>3. PICK ts : ts = {t1, t2, t3, t4, t5, t6, b1, b2, b3, i1, i2, i3, i4}
    BY Zenon
  <1>4. \A t \in ts : t.in = r \/ Inside(t.at, t.in)
    BY <1>3 DEF AreMarks, AreBars, AreInfo
  <1>5. Marks(r) \union BarsAt(r, a) \union Info(r, 0, b) = ts
    <2>1. Marks(r) = {t1, t2, t3, t4, t5, t6} /\ BarsAt(r, a) = {b1, b2, b3} /\ Info(r, 0, b) = {i1, i2, i3, i4}
      BY DEF AreMarks, AreBars, AreInfo
    <2> QED
      BY <1>3, <2>1
  <1>6. Tidy(ts, r)
    BY <1>1, <1>2, <1>3, <1>4, ZenonT(30) DEF Tidy, Proper
  <1> QED
    BY <1>5, <1>6, Zenon

LEMMA MarksAre ==
    ASSUME NEW wd, NEW ht, NEW y1, NEW y2, Sizes(wd, ht, y1, y2),
           NEW r, r = Region(0, 0, wd, ht)
    PROVE  \E t1, t2, t3, t4, t5, t6 : AreMarks(r, wd, ht, y1, y2, t1, t2, t3, t4, t5, t6)
  <1>1. r.x = 0 /\ r.y = 0 /\ r.w = wd /\ r.h = ht /\ (ht \div 3) - 1 = y1 /\ 2 * (ht \div 3) = y2
    BY DEF Region, Sizes
  <1>2. PICK t1, t2, t3, t4, t5, t6 :
            /\ t1 = Thing("mark", r, wd \div 2, 0, 2, 1) /\ t2 = Thing("mark", r, wd \div 2, ht - 1, 2, 1)
            /\ t3 = Thing("mark", r, 0, y1, 1, 1) /\ t4 = Thing("mark", r, wd - 1, y1, 1, 1)
            /\ t5 = Thing("mark", r, 0, y2, 1, 1) /\ t6 = Thing("mark", r, wd - 1, y2, 1, 1)
    BY Zenon
  <1>3. Marks(r) = {t1, t2, t3, t4, t5, t6}
    BY <1>1, <1>2, Zenon DEF Marks
  <1>4. t1.in = r /\ t2.in = r /\ t3.in = r /\ t4.in = r /\ t5.in = r /\ t6.in = r
    BY <1>2 DEF Thing
  <1>5. /\ At(t1, wd \div 2, 0, 2, 1) /\ At(t2, wd \div 2, ht - 1, 2, 1)
        /\ At(t3, 0, y1, 1, 1) /\ At(t4, wd - 1, y1, 1, 1)
        /\ At(t5, 0, y2, 1, 1) /\ At(t6, wd - 1, y2, 1, 1)
    BY <1>1, <1>2 DEF At, Sizes, Thing, Region
  <1>6. AreMarks(r, wd, ht, y1, y2, t1, t2, t3, t4, t5, t6)
    BY <1>3, <1>4, <1>5, Zenon DEF AreMarks
  <1> QED
    BY <1>6, Zenon

LEMMA BarsAre ==
    ASSUME NEW wd, NEW ht, NEW y1, NEW y2, Sizes(wd, ht, y1, y2),
           NEW a, NEW b, NEW bx, NEW tx, NEW px, Sides(a, b, wd, bx, tx, px),
           NEW m, m = (ht - BAR_H) \div 2,
           NEW r, r = Region(0, 0, wd, ht)
    PROVE  \E b1, b2, b3 : AreBars(r, a, ht, bx, m, b1, b2, b3)
  <1>1. PICK b1, b2, b3 :
            /\ b1 = Thing("bar", r, Align(a, 0, BAR_W, r.w), Align("BEGIN", 0, BAR_H, r.h), BAR_W, BAR_H)
            /\ b2 = Thing("bar", r, Align(a, 0, BAR_W, r.w), Align("MID", 0, BAR_H, r.h), BAR_W, BAR_H)
            /\ b3 = Thing("bar", r, Align(a, 0, BAR_W, r.w), Align("END", 0, BAR_H, r.h), BAR_W, BAR_H)
    BY Zenon
  <1>2. BarsAt(r, a) = {b1, b2, b3}
    <2> DEFINE B(v) == Thing("bar", r, Align(a, 0, BAR_W, r.w), Align(v, 0, BAR_H, r.h), BAR_W, BAR_H)
    <2>1. b1 = B("BEGIN") /\ b2 = B("MID") /\ b3 = B("END")
      BY <1>1, Zenon
    <2>2. BarsAt(r, a) = {B(v) : v \in {"BEGIN", "MID", "END"}}
      BY Zenon DEF BarsAt, Aligns
    <2> HIDE DEF B
    <2> QED
      BY <2>1, <2>2
  <1>3. b1.in = r /\ b2.in = r /\ b3.in = r
    BY <1>1 DEF Thing
  <1>4. r.x = 0 /\ r.y = 0 /\ r.w = wd /\ r.h = ht
    BY DEF Region
  <1>5. Align(a, 0, BAR_W, wd) = bx
    BY GfxAssumption DEF Sides, Sizes, Align
  <1>6. /\ At(b1, bx, 0, BAR_W, BAR_H) /\ At(b2, bx, m, BAR_W, BAR_H)
        /\ At(b3, bx, ht - BAR_H, BAR_W, BAR_H)
    <2>1. /\ Align("BEGIN", 0, BAR_H, ht) = 0 /\ Align("MID", 0, BAR_H, ht) = m
          /\ Align("END", 0, BAR_H, ht) = ht - BAR_H /\ m \in Int /\ bx \in Int /\ ht - BAR_H \in Int
      BY GfxAssumption DEF Align, Sizes, Sides
    <2> QED
      BY <1>1, <1>4, <1>5, <2>1 DEF At, Thing, Region
  <1>7. AreBars(r, a, ht, bx, m, b1, b2, b3)
    BY <1>2, <1>3, <1>6, Zenon DEF AreBars
  <1> QED
    BY <1>7, Zenon

LEMMA InfoIs ==
    ASSUME NEW wd, NEW ht, NEW y1, NEW y2, Sizes(wd, ht, y1, y2),
           NEW a, NEW b, NEW bx, NEW tx, NEW px, Sides(a, b, wd, bx, tx, px),
           NEW n, n = (ht - STATUS_H) \div 2,
           NEW r, r = Region(0, 0, wd, ht)
    PROVE  \E i1, i2, i3, i4 : AreInfo(r, b, ht, tx, px, n, i1, i2, i3, i4)
  <1>1. PICK v2, v3, v4 : /\ v2 = Window(r, b, "END", 2, 5, 24, 2)
                          /\ v3 = Window(r, b, "MID", 2, -2, 24, STATUS_H)
                          /\ v4 = Window(r, b, "END", 2, 2, 24, 1)
    BY Zenon
  <1>2. PICK i1, i2, i3, i4 :
            /\ i1 = Thing("image", r, Align(b, 2, 4, r.w), Align("BEGIN", 2, 4, r.h), 4, 4)
            /\ i2 = Thing("text", v2, 0, 0, 22, 2) /\ i3 = Thing("text", v3, 0, 0, 15, STATUS_H)
            /\ i4 = Thing("text", v4, 0, 0, 23, 1)
    BY Zenon
  <1>3. Info(r, 0, b) = {i1, i2, i3, i4}
    BY <1>1, <1>2, Zenon DEF Info, Version
  <1>4. r.x = 0 /\ r.y = 0 /\ r.w = wd /\ r.h = ht
    BY DEF Region
  <1>5. Align(b, 2, 24, wd) = tx /\ Align(b, 2, 4, wd) = px /\ tx \in Int /\ px \in Int
    BY GfxAssumption DEF Sides, Sizes, Align
  <1>6. /\ Align("BEGIN", 2, 4, ht) = 2 /\ Align("END", 5, 2, ht) = ht - 7
        /\ Align("MID", -2, STATUS_H, ht) = n - 2 /\ Align("END", 2, 1, ht) = ht - 3
        /\ n \in Int /\ ht \in Int /\ STATUS_H \in Int
    BY GfxAssumption DEF Align, Sizes
  <1>7. /\ v2 = Region(tx, ht - 7, 24, 2) /\ v3 = Region(tx, n - 2, 24, STATUS_H)
        /\ v4 = Region(tx, ht - 3, 24, 1)
    BY <1>1, <1>4, <1>5, <1>6, Zenon DEF Window
  <1>8. /\ At(i1, px, 2, 4, 4) /\ At(i2, tx, ht - 7, 22, 2) /\ At(i3, tx, n - 2, 15, STATUS_H)
        /\ At(i4, tx, ht - 3, 23, 1)
    BY <1>2, <1>4, <1>5, <1>6, <1>7 DEF At, Thing, Region
  <1>9. i1.in = r /\ Inside(i2.at, i2.in) /\ Inside(i3.at, i3.in) /\ Inside(i4.at, i4.in)
    BY <1>2, <1>5, <1>6, <1>7 DEF Thing, Inside, Region
  <1>10. AreInfo(r, b, ht, tx, px, n, i1, i2, i3, i4)
    BY <1>3, <1>8, <1>9, Zenon DEF AreInfo
  <1> QED
    BY <1>10, Zenon

LEMMA SampledTidy ==
    ASSUME NEW wide \in BOOLEAN, test_position \in {0, 1}
    PROVE  Tidy(Sampled(ScreenOf(wide), 0), ScreenOf(wide))
  <1>1. PICK wd, ht, y1, y2 : Sizes(wd, ht, y1, y2) /\ ScreenOf(wide) = Region(0, 0, wd, ht)
    BY ScreenSizes, Zenon
  <1>2. PICK r : r = Region(0, 0, wd, ht)
    BY Zenon
  <1>3. PICK a, b, bx, tx, px : Sides(a, b, wd, bx, tx, px) /\ a = align_test /\ b = info
    <2>1. CASE test_position = 0
      BY <2>1 DEF Sides, align_test, info, align_info
    <2>2. CASE test_position = 1
      BY <2>2 DEF Sides, align_test, info, align_info
    <2> QED
      BY <2>1, <2>2, Zenon
  <1>4. PICK m, n : m = (ht - BAR_H) \div 2 /\ n = (ht - STATUS_H) \div 2
    BY Zenon
  <1>5. Halved(ht - BAR_H, m) /\ Halved(ht - STATUS_H, n)
    <2>1. ht - BAR_H \in Int /\ ht - STATUS_H \in Int
      BY <1>1, GfxAssumption DEF Sizes
    <2> QED
      BY <1>4, <2>1, Halves, Zenon
  <1>6. PICK t1, t2, t3, t4, t5, t6 : AreMarks(r, wd, ht, y1, y2, t1, t2, t3, t4, t5, t6)
    BY <1>1, <1>2, MarksAre, Zenon
  <1>7. PICK b1, b2, b3 : AreBars(r, a, ht, bx, m, b1, b2, b3)
    BY <1>1, <1>2, <1>3, <1>4, BarsAre, Zenon
  <1>8. PICK i1, i2, i3, i4 : AreInfo(r, b, ht, tx, px, n, i1, i2, i3, i4)
    BY <1>1, <1>2, <1>3, <1>4, InfoIs, Zenon
  <1>9. Tidy(Marks(r) \union BarsAt(r, a) \union Info(r, 0, b), r)
    BY <1>1, <1>2, <1>3, <1>5, <1>6, <1>7, <1>8, SampledRoom, Zenon
  <1> QED
    BY <1>1, <1>2, <1>3, <1>9, Zenon DEF Sampled

LEMMA TidyPart ==
    ASSUME NEW ts, NEW us, NEW s, Tidy(us, s), ts \subseteq us
    PROVE  Tidy(ts, s)
  BY Zenon DEF Tidy

\* The windows in the middle, and the version below them.
MissingPicture(r, a) ==
    Missing(Window(r, "MID", "MID", 0, 0, 34, 6), 0) \union {Version(r, 0, a)}

LEMMA MissingTidy ==
    ASSUME NEW wide \in BOOLEAN, NEW pos \in {0, 1}
    PROVE  Tidy(MissingPicture(ScreenOf(wide), align_info(pos)), ScreenOf(wide))
  <1>1. Tidy(MissingPicture(Region(0, 0, 48, 27), "END"), Region(0, 0, 48, 27))
    BY DEF Tidy, Proper, Memory, MissingPicture, Missing, Frame, Inner, Version, Window, Align,
           Thing, Region, Inside, Disjoint
  <1>2. Tidy(MissingPicture(Region(0, 0, 48, 27), "BEGIN"), Region(0, 0, 48, 27))
    BY DEF Tidy, Proper, Memory, MissingPicture, Missing, Frame, Inner, Version, Window, Align,
           Thing, Region, Inside, Disjoint
  <1>3. Tidy(MissingPicture(Region(0, 0, 40, 30), "END"), Region(0, 0, 40, 30))
    BY DEF Tidy, Proper, Memory, MissingPicture, Missing, Frame, Inner, Version, Window, Align,
           Thing, Region, Inside, Disjoint
  <1>4. Tidy(MissingPicture(Region(0, 0, 40, 30), "BEGIN"), Region(0, 0, 40, 30))
    BY DEF Tidy, Proper, Memory, MissingPicture, Missing, Frame, Inner, Version, Window, Align,
           Thing, Region, Inside, Disjoint
  <1>5. align_info(pos) = "END" \/ align_info(pos) = "BEGIN"
    BY Zenon DEF align_info
  <1>6. ScreenOf(wide) = Region(0, 0, 48, 27) \/ ScreenOf(wide) = Region(0, 0, 40, 30)
    BY ZenonT(60) DEF ScreenOf
  <1> QED
    BY <1>1, <1>2, <1>3, <1>4, <1>5, <1>6, Zenon

\* All that may be in the menu: the last item is on line 11, or on line 13.
MenuPicture(r, a) ==
    LET in == Inner(MenuWindow(r))
    IN  Frame(MenuWindow(r), 28, 18) \union
        {Thing("text", in, Align("MID", 0, 6, in.w), 0, 6, 1), Item(in, 2), Item(in, 4), Item(in, 6),
         ApplyText(in, 0), Item(in, 11), Item(in, 13), Version(r, 0, a)}

\* Where the menu's window and the version's are on the two screens.
MenuPlace(wd, ht, wx, wy) ==
    \/ wd = 48 /\ ht = 27 /\ wx = 10 /\ wy = 4
    \/ wd = 40 /\ ht = 30 /\ wx = 6 /\ wy = 6
VersionPlace(r, a, wd, ht, vx) ==
    /\ vx = 2 \/ vx = wd - 26
    /\ Window(r, a, "END", 2, 2, 24, 1) = Region(vx, ht - 3, 24, 1)

\* The menu's window leaves the version room below it.
LEMMA MenuRoom ==
    ASSUME NEW r, NEW a, NEW wd, NEW ht, NEW wx, NEW wy, NEW vx,
           MenuPlace(wd, ht, wx, wy), VersionPlace(r, a, wd, ht, vx),
           r = Region(0, 0, wd, ht), MenuWindow(r) = Region(wx, wy, 28, 18)
    PROVE  Tidy(MenuPicture(r, a), r)
  <1>1. PICK win, in, vw : win = Region(wx, wy, 28, 18) /\ in = Inner(win) /\ vw = Region(vx, ht - 3, 24, 1)
    BY Zenon
  <1>2. in = Region(wx + 1, wy + 1, 26, 16)
    BY <1>1 DEF Inner, Region, MenuPlace
  <1>3. Align("MID", 0, 6, in.w) = 10 /\ Align("MID", 0, 19, in.w) = 3
    BY <1>2 DEF Region, Align
  <1>4. PICK f1, f2, f3, f4, t1, t2, t3, t4, t5, t6, t7, v :
            /\ f1 = Thing("frame", win, 0, 0, 28, 1) /\ f2 = Thing("frame", win, 0, 17, 28, 1)
            /\ f3 = Thing("frame", win, 0, 1, 1, 16) /\ f4 = Thing("frame", win, 27, 1, 1, 16)
            /\ t1 = Thing("text", in, 10, 0, 6, 1) /\ t2 = Item(in, 2) /\ t3 = Item(in, 4)
            /\ t4 = Item(in, 6) /\ t5 = ApplyText(in, 0) /\ t6 = Item(in, 11) /\ t7 = Item(in, 13)
            /\ v = Thing("text", vw, 0, 0, 23, 1)
    BY Zenon
  <1>5. MenuPicture(r, a) = {f1, f2, f3, f4, t1, t2, t3, t4, t5, t6, t7, v}
    <2>1. Frame(win, 28, 18) = {f1, f2, f3, f4}
      BY <1>4 DEF Frame
    <2> QED
      BY <1>1, <1>3, <1>4, <2>1 DEF MenuPicture, Version, VersionPlace
  <1>6. /\ At(f1, wx, wy, 28, 1) /\ At(f2, wx, wy + 17, 28, 1)
        /\ At(f3, wx, wy + 1, 1, 16) /\ At(f4, wx + 27, wy + 1, 1, 16)
        /\ f1.in = win /\ f2.in = win /\ f3.in = win /\ f4.in = win
    BY <1>1, <1>4 DEF MenuPlace, At, Thing, Region
  <1>7. /\ At(t1, wx + 11, wy + 1, 6, 1) /\ At(t2, wx + 1, wy + 3, 26, 1) /\ At(t3, wx + 1, wy + 5, 26, 1)
        /\ At(t4, wx + 1, wy + 7, 26, 1) /\ At(t5, wx + 4, wy + 10, 19, 1)
        /\ At(t6, wx + 1, wy + 12, 26, 1) /\ At(t7, wx + 1, wy + 14, 26, 1)
        /\ t1.in = in /\ t2.in = in /\ t3.in = in /\ t4.in = in /\ t5.in = in /\ t6.in = in /\ t7.in = in
    BY <1>2, <1>3, <1>4 DEF MenuPlace, At, Item, ApplyText, Thing, Region
  <1>8. At(v, vx, ht - 3, 23, 1) /\ v.in = vw
    BY <1>1, <1>4 DEF MenuPlace, VersionPlace, At, Thing, Region
  <1>9. \A t \in {f1, f2, f3, f4, t1, t2, t3, t4, t5, t6, t7, v} : Inside(t.at, r) /\ Proper(t)
    BY <1>1, <1>2, <1>6, <1>7, <1>8, SMTT(30) DEF MenuPlace, VersionPlace, At, Inside, Proper, Memory, Region
  <1>10. \A t, u \in {f1, f2, f3, f4, t1, t2, t3, t4, t5, t6, t7, v} : t # u => Disjoint(t.at, u.at)
    BY <1>6, <1>7, <1>8, SMTT(30) DEF MenuPlace, VersionPlace, At, Disjoint
  <1>11. PICK ts : ts = {f1, f2, f3, f4, t1, t2, t3, t4, t5, t6, t7, v}
    BY Zenon
  <1>12. Tidy(ts, r)
    BY <1>9, <1>10, <1>11, Zenon DEF Tidy
  <1> QED
    BY <1>5, <1>11, <1>12, Zenon

LEMMA MenuTidy ==
    ASSUME NEW wide \in BOOLEAN, NEW pos \in {0, 1}
    PROVE  Tidy(MenuPicture(ScreenOf(wide), align_info(pos)), ScreenOf(wide))
  <1>1. PICK r, a, wd, ht, wx, wy :
            /\ r = ScreenOf(wide) /\ a = align_info(pos) /\ r = Region(0, 0, wd, ht)
            /\ MenuPlace(wd, ht, wx, wy)
    BY SMT DEF ScreenOf, MenuPlace
  <1>2. MenuWindow(r) = Region(wx, wy, 28, 18)
    BY <1>1 DEF MenuPlace, MenuWindow, Window, Align, Region
  <1>3. a = "END" \/ a = "BEGIN"
    BY <1>1, Zenon DEF align_info
  <1>4. PICK vx : vx = Align(a, 2, 24, r.w)
    BY Zenon
  <1>5. vx = 2 \/ vx = wd - 26
    BY <1>1, <1>3, <1>4 DEF MenuPlace, Align, Region
  <1>6. Window(r, a, "END", 2, 2, 24, 1) = Region(vx, ht - 3, 24, 1)
    <2>1. Align("END", 2, 1, r.h) = ht - 3
      BY <1>1 DEF MenuPlace, Align, Region
    <2> QED
      BY <1>4, <2>1, Zenon DEF Window
  <1>7. VersionPlace(r, a, wd, ht, vx)
    BY <1>5, <1>6, Zenon DEF VersionPlace
  <1>8. Tidy(MenuPicture(r, a), r)
    BY <1>1, <1>2, <1>7, MenuRoom, Zenon
  <1> QED
    BY <1>1, <1>8, Zenon

LEMMA MenuPart ==
    ASSUME NEW r, NEW a, NEW aspect \in BOOLEAN, NEW offered \in BOOLEAN
    PROVE  MenuItems(MenuWindow(r), 0, aspect, offered) \union {Version(r, 0, a)} \subseteq MenuPicture(r, a)
  <1>1. 0 + 2 = 2 /\ 0 + 4 = 4 /\ 0 + 6 = 6 /\ 0 + 11 = 11 /\ 0 + 13 = 13
    OBVIOUS
  <1>2. PICK win, in : win = MenuWindow(r) /\ in = Inner(win)
    BY Zenon
  <1>3. PICK t1, t2, t3, t4, t5, t6, t7, v :
            /\ t1 = Thing("text", in, Align("MID", 0, 6, in.w), 0, 6, 1)
            /\ t2 = Item(in, 2) /\ t3 = Item(in, 4) /\ t4 = Item(in, 6) /\ t5 = ApplyText(in, 0)
            /\ t6 = Item(in, 11) /\ t7 = Item(in, 13) /\ v = Version(r, 0, a)
    BY Zenon
  <1>4. PICK f : f = Frame(win, 28, 18)
    BY Zenon
  <1>5. MenuPicture(r, a) = f \union {t1, t2, t3, t4, t5, t6, t7, v}
    BY <1>2, <1>3, <1>4 DEF MenuPicture
  <1>6. Top(win, 0, aspect) \subseteq f \union {t1, t2, t3, t4}
    <2>1. Top(win, 0, aspect) = f \union {t1, t2, t3} \union (IF aspect THEN {t4} ELSE {})
      <3>1. Item(in, 0 + 2) = t2 /\ Item(in, 0 + 4) = t3 /\ Item(in, 0 + 6) = t4
        BY <1>1, <1>3
      <3>2. Thing("text", in, Align("MID", 0, 6, in.w), 0, 6, 1) = t1 /\ Frame(win, 28, 18) = f
        BY <1>3, <1>4
      <3> QED
        BY <1>2, <3>1, <3>2, Zenon DEF Top
    <2> QED
      BY <2>1, Zenon
  <1>7. MenuItems(win, 0, aspect, offered) \subseteq Top(win, 0, aspect) \union {t5, t6, t7}
    BY <1>1, <1>2, <1>3, Zenon DEF MenuItems
  <1>8. Version(r, 0, a) = v
    BY <1>3
  <1> QED
    BY <1>2, <1>5, <1>6, <1>7, <1>8, Zenon

----------------------------------------------------------------------------
(* Iterations of the main loop. *)

\* Between two iterations: the stack is back at a context with the whole screen s, as is
\* context 0, and the page that is drawn on is not on display.  n iterations after a mode
\* was set the pages are clear and tidy, first the one that was drawn on.
Sound(d, s, n) ==
    /\ d \in States /\ Level(d) /\ Cur(d) = Context(s) /\ d.contexts[0] = Context(s)
    /\ d.deepest <= 2 /\ d.vram = 1 - d.page_front
    /\ n >= 1 => Page(d).cleared = s /\ Page(d).fresh = TRUE /\ Tidy(Picture(d), s)
    /\ n = 2 => d.page[d.page_front].cleared = s /\ d.page[d.page_front].fresh = TRUE
    /\ \A p \in {0, 1} : \A t \in d.page[p].things : Proper(t)

\* An iteration starts with the page that was on display, cleared.
Starts(d, c, s) ==
    /\ c \in States /\ c.ctx = 1 /\ c.context_idx = 1 /\ Level(c)
    /\ Cur(c) = Context(s) /\ c.contexts[0] = Context(s) /\ c.deepest <= 2
    /\ c.page_front = d.vram /\ c.vram = d.page_front /\ c.vram # c.page_front
    /\ Page(c).cleared = s /\ Page(c).fresh = TRUE /\ Picture(c) = {}
    /\ c.page[d.vram] = d.page[d.vram]
    /\ \A p \in {0, 1} : \A t \in c.page[p].things : Proper(t)
    /\ Draft(c, c, s, 0, FALSE, {})

LEMMA IterationStarts ==
    ASSUME NEW d, NEW s, NEW n, Sound(d, s, n)
    PROVE  Starts(d, gfx_clear(gfx_pageflip(d)), s)
  <1>1. PICK f, c : f = gfx_pageflip(d) /\ c = gfx_clear(f)
    BY Zenon
  <1>2. d \in States /\ Cur(d) = Context(s) /\ d.contexts[0] = Context(s) /\ d.deepest <= 2
    BY Zenon DEF Sound
  <1>3. Flipped(d, f)
    BY <1>1, <1>2, FlipIs, Zenon
  <1>4. f \in States
    BY <1>3, Zenon DEF Flipped
  <1>5. Cleared(f, c)
    BY <1>1, <1>4, ClearIs, Zenon
  <1>6. d.vram = 1 - d.page_front /\ d.page_front \in {0, 1} /\ d.vram \in {0, 1} /\ d.vram # d.page_front
    <2>1. d.vram = 1 - d.page_front
      BY Zenon DEF Sound
    <2>2. d.page_front \in {0, 1}
      BY <1>2, StateTypes, Zenon
    <2> QED
      BY <2>1, <2>2
  <1>7. /\ c \in States /\ c.ctx = 1 /\ c.context_idx = 1 /\ Cur(c) = Context(s)
        /\ c.contexts[0] = Context(s) /\ c.deepest <= 2
    BY <1>2, <1>3, <1>5, Zenon DEF Flipped, Cleared
  <1>8. Level(c)
    BY <1>7, Zenon DEF Level
  <1>9. c.page_front = d.vram /\ c.vram = d.page_front /\ f.vram = d.page_front
    BY <1>3, <1>5, <1>6, Zenon DEF Flipped, Cleared
  <1>10. Page(c).cleared = s /\ Page(c).fresh = TRUE /\ Picture(c) = {}
    <2>1. Page(c) = [cleared |-> Cur(f).r, things |-> {}, fresh |-> TRUE]
      BY <1>5, Zenon DEF Cleared
    <2>2. Cur(f).r = s
      BY <1>2, <1>3 DEF Flipped, Context
    <2> QED
      BY <2>1, <2>2 DEF Picture
  <1>11. c.page[d.vram] = d.page[d.vram]
    <2>1. f.page[d.vram] = d.page[d.vram]
      BY <1>3, <1>6, Zenon DEF Flipped
    <2>2. c.page[d.vram] = f.page[d.vram]
      BY <1>5, <1>6, <1>9, Zenon DEF Cleared
    <2> QED
      BY <2>1, <2>2, Zenon
  <1>12. \A p \in {0, 1} : \A t \in c.page[p].things : Proper(t)
    <2>1. \A p \in {0, 1} : p = d.vram \/ p = c.vram
      BY <1>6, <1>9
    <2>2. \A t \in d.page[d.vram].things : Proper(t)
      BY <1>6, Zenon DEF Sound
    <2>3. c.page[c.vram].things = {}
      BY <1>10, Zenon DEF Picture, Page
    <2> QED
      BY <1>11, <2>1, <2>2, <2>3, Zenon
  <1>13. Draft(c, c, s, 0, FALSE, {})
    <2>1. Draft(c, c, Cur(c).r, Cur(c).y, Cur(c).menu, {})
      BY <1>7, DraftBegins, Zenon
    <2>2. Cur(c).r = s /\ Cur(c).y = 0 /\ Cur(c).menu = FALSE
      BY <1>7 DEF Context
    <2> QED
      BY <2>1, <2>2, Zenon
  <1>14. c.vram # c.page_front
    BY <1>6, <1>9, Zenon
  <1>15. Starts(d, c, s)
    BY <1>7, <1>8, <1>9, <1>10, <1>11, <1>12, <1>13, <1>14, Zenon DEF Starts
  <1> QED
    BY <1>1, <1>15, Zenon

\* One that draws a tidy picture ends well.
LEMMA IterationEnds ==
    ASSUME NEW d, NEW s, NEW n \in 0..2, Sound(d, s, n), NEW c, Starts(d, c, s),
           NEW h, NEW ts, Draft(c, h, s, 0, FALSE, ts), Tidy(ts, s)
    PROVE  Sound(h, s, IF n = 2 THEN 2 ELSE n + 1)
  <1>1. Keeps(c, h) /\ Cur(h) = Ctx(s, 0, FALSE) /\ Picture(h) = Picture(c) \union ts
    BY Zenon DEF Draft, Draws
  <1>2. h \in States /\ Level(h) /\ Cur(h) = Context(s) /\ h.deepest <= 2
    BY <1>1, ContextIs, Zenon DEF Keeps, Starts, Level
  <1>3. h.contexts[0] = Context(s)
    <2>1. 0 \in 0..NUM_CTX /\ 0 < c.ctx
      BY GfxAssumption DEF Starts
    <2> QED
      BY <1>1, <2>1, Zenon DEF Keeps, Starts
  <1>4. h.page_front = d.vram /\ h.vram = d.page_front /\ h.vram # h.page_front
    BY <1>1, Zenon DEF Keeps, Starts
  <1>5. h.vram = 1 - h.page_front
    BY <1>2, <1>4, StateTypes
  <1>6. Page(h).cleared = s /\ Page(h).fresh = TRUE
    BY <1>1, Zenon DEF Keeps, Starts
  <1>7. Picture(h) = ts
    <2>1. Picture(c) = {}
      BY Zenon DEF Starts
    <2> QED
      BY <1>1, <2>1, Zenon
  <1>8. h.page_front \in {0, 1} /\ h.vram \in {0, 1}
    BY <1>2, StateTypes, Zenon
  <1>9. h.page[h.page_front] = d.page[d.vram]
    BY <1>1, <1>4, <1>8, Zenon DEF Keeps, Starts
  <1>10. n # 0 => d.page[d.vram].cleared = s /\ d.page[d.vram].fresh = TRUE
    <2>1. n # 0 => n >= 1
      OBVIOUS
    <2> QED
      BY <2>1, Zenon DEF Sound, Page
  <1>11. (IF n = 2 THEN 2 ELSE n + 1) = 2 => n # 0
    OBVIOUS
  <1>12. \A p \in {0, 1} : \A t \in h.page[p].things : Proper(t)
    <2>1. \A t \in ts : Proper(t)
      BY Zenon DEF Tidy
    <2>2. \A p \in {0, 1} : h.page[p].things \subseteq c.page[p].things \union ts
      BY DraftPages, Zenon
    <2> QED
      BY <2>1, <2>2, Zenon DEF Starts
  <1> QED
    BY <1>2, <1>3, <1>5, <1>6, <1>7, <1>9, <1>10, <1>11, <1>12, Zenon DEF Sound

\* So does the one that sets a mode.
LEMMA ApplyEnds ==
    ASSUME NEW d, NEW s, NEW c, Starts(d, c, s),
           NEW wide, NEW h, NEW ts, Applied(c, h, wide, ts), \A t \in ts : Proper(t)
    PROVE  Sound(h, ScreenOf(wide), 0)
  <1>1. /\ h \in States /\ h.ctx = 0 /\ h.context_idx = 0 /\ h.contexts[0] = Context(ScreenOf(wide))
        /\ h.deepest <= 2
    BY Zenon DEF Applied, Starts
  <1>2. Level(h) /\ Cur(h) = Context(ScreenOf(wide))
    BY <1>1, Zenon DEF Level, Cur
  <1>3. h.vram = 1 - h.page_front
    <2>1. c.page_front \in {0, 1} /\ h.page_front = 1 - c.page_front /\ h.vram = c.page_front
      BY StateTypes, Zenon DEF Applied, Starts
    <2> QED
      BY <2>1
  <1>4. \A p \in {0, 1} : \A t \in h.page[p].things : Proper(t)
    BY Zenon DEF Applied, Starts
  <1>5. ~(0 >= 1) /\ 0 # 2
    OBVIOUS
  <1> QED
    BY <1>1, <1>2, <1>3, <1>4, <1>5, Zenon DEF Sound

\* The inductive invariant.
GfxInv ==
    /\ Sound(g, screen, since) /\ since \in 0..2 /\ test_position \in {0, 1}
    /\ \E wide \in BOOLEAN : screen = ScreenOf(wide)

LEMMA GfxInitInv == GfxInit => GfxInv
  <1> SUFFICES ASSUME GfxInit PROVE GfxInv
    BY Zenon
  <1>1. PICK d : d = [contexts |-> [i \in 0..NUM_CTX |-> Unused],
                      context_idx |-> 0, ctx |-> 0, deepest |-> 0, page_front |-> 0, vram |-> 0,
                      page |-> [p \in {0, 1} |-> [cleared |-> Unused.r, things |-> {}, fresh |-> FALSE]]]
    BY Zenon
  <1>2. PICK wide \in BOOLEAN : wide = FALSE
    BY Zenon
  <1>3. g = gfx_set_240p(d, wide)
    BY <1>1, <1>2, Zenon DEF GfxInit
  <1>4. Unused \in Contexts /\ Unused.r \in Regions
    BY DEF Unused, Context, Region, Contexts, Regions
  <1>5. 0 \in 0..NUM_CTX /\ 0 \in Nat /\ 0 <= 2
    BY GfxAssumption
  <1>6. d \in States
    BY <1>1, <1>4, <1>5, Zenon DEF States, Pages
  <1>7. /\ d.contexts = [i \in 0..NUM_CTX |-> Unused] /\ d.ctx = 0 /\ d.deepest = 0
        /\ d.page = [p \in {0, 1} |-> [cleared |-> Unused.r, things |-> {}, fresh |-> FALSE]]
    BY <1>1, Zenon
  <1>8. PICK u : Unused = Context(u)
    BY Zenon DEF Unused
  <1>9. d.contexts[0] = Context(u)
    BY <1>5, <1>7, <1>8, Zenon
  <1>10. Resized(d, g, wide)
    BY <1>3, <1>6, <1>9, SetIs, Zenon
  <1>11. PICK s : s = ScreenOf(wide)
    BY Zenon
  <1>12. g \in States /\ Cur(g) = Context(s) /\ g.contexts[0] = Context(s) /\ g.deepest <= 2
    BY <1>5, <1>7, <1>10, <1>11, Zenon DEF Resized
  <1>13. Level(g)
    BY <1>10, Zenon DEF Resized, Level
  <1>14. g.vram = 1 - g.page_front
    <2>1. d.page_front \in {0, 1} /\ g.page_front = 1 - d.page_front /\ g.vram = d.page_front
      BY <1>6, <1>10, StateTypes, Zenon DEF Resized
    <2> QED
      BY <2>1
  <1>15. \A p \in {0, 1} : \A t \in g.page[p].things : Proper(t)
    <2>1. \A p \in {0, 1} : d.page[p].things = {}
      <3>1. PICK b : b = [cleared |-> Unused.r, things |-> {}, fresh |-> FALSE]
        BY Zenon
      <3>2. b.things = {}
        BY <3>1, Zenon
      <3>3. d.page = [p \in {0, 1} |-> b]
        BY <1>7, <3>1, Zenon
      <3> QED
        BY <3>2, <3>3, Zenon
    <2>2. \A p \in {0, 1} : g.page[p].things = d.page[p].things
      BY <1>10, Zenon DEF Resized
    <2> QED
      BY <2>1, <2>2, Zenon
  <1>16. ~(0 >= 1) /\ 0 # 2 /\ 0 \in 0..2
    OBVIOUS
  <1>17. screen = s /\ since = 0 /\ test_position = 0
    BY <1>2, <1>11, Zenon DEF GfxInit
  <1>18. Sound(g, screen, since)
    BY <1>12, <1>13, <1>14, <1>15, <1>16, <1>17, Zenon DEF Sound
  <1> QED
    BY <1>11, <1>16, <1>17, <1>18, Zenon DEF GfxInv

\* An iteration that sets no mode, drawing ts.
LEMMA LaterInv ==
    ASSUME GfxInv, Later, test_position' \in {0, 1},
           NEW ts, Draft(gfx_clear(gfx_pageflip(g)), g', screen, 0, FALSE, ts), Tidy(ts, screen)
    PROVE  GfxInv'
  <1>1. PICK c : c = gfx_clear(gfx_pageflip(g))
    BY Zenon
  <1>2. Sound(g, screen, since) /\ since \in 0..2 /\ \E wide \in BOOLEAN : screen = ScreenOf(wide)
    BY Zenon DEF GfxInv
  <1>3. Starts(g, c, screen)
    BY <1>1, <1>2, IterationStarts, Zenon
  <1>4. PICK h, n : h = g' /\ n = IF since = 2 THEN 2 ELSE since + 1
    BY Zenon
  <1>5. Draft(c, h, screen, 0, FALSE, ts)
    BY <1>1, <1>4, Zenon
  <1>6. Sound(h, screen, n)
    BY <1>2, <1>3, <1>4, <1>5, IterationEnds, Zenon
  <1>7. n \in 0..2
    BY <1>2, <1>4
  <1>8. since' = n /\ screen' = screen
    BY <1>4, Zenon DEF Later
  <1> QED
    BY <1>2, <1>4, <1>6, <1>7, <1>8, Zenon DEF GfxInv

LEMMA GfxNextInv == GfxInv /\ [GfxNext]_gfxVars => GfxInv'
  <1> SUFFICES ASSUME GfxInv, [GfxNext]_gfxVars PROVE GfxInv'
    BY Zenon
  <1>1. PICK wd \in BOOLEAN : screen = ScreenOf(wd)
    BY Zenon DEF GfxInv
  <1>2. Sound(g, screen, since) /\ test_position \in {0, 1}
    BY Zenon DEF GfxInv
  <1>3. PICK d, c : d = gfx_pageflip(g) /\ c = gfx_clear(d)
    BY Zenon
  <1>4. Starts(g, c, screen)
    BY <1>2, <1>3, IterationStarts, Zenon
  <1>5. /\ Draft(gfx_clear(d), gfx_clear(d), screen, 0, FALSE, {}) /\ Level(gfx_clear(d))
        /\ Ready(gfx_clear(d), screen)
    BY <1>3, <1>4, Zenon DEF Starts, Ready
  <1>6. CASE Sampling
    <2>1. Draft(gfx_clear(d), draw_version(do_sampling(d), test_position), screen, 0, FALSE,
                Sampled(screen, 0))
      BY <1>2, <1>5, SamplingDrawn, Zenon
    <2>2. g' = draw_version(do_sampling(d), test_position) /\ test_position' = test_position /\ Later
      BY <1>3, <1>6, Zenon DEF Sampling, Iteration
    <2>3. Tidy(Sampled(screen, 0), screen)
      BY <1>1, <1>2, SampledTidy, Zenon
    <2> QED
      BY <1>2, <1>3, <2>1, <2>2, <2>3, LaterInv, Zenon
  <1>7. CASE NoSensor
    <2>1. Draft(gfx_clear(d), draw_version(draw_no_sensor(d), test_position), screen, 0, FALSE,
                MissingPicture(screen, info))
      BY <1>2, <1>5, NoSensorDrawn, Zenon DEF MissingPicture
    <2>2. g' = draw_version(draw_no_sensor(d), test_position) /\ test_position' = test_position /\ Later
      BY <1>3, <1>7, Zenon DEF NoSensor, Iteration
    <2>3. Tidy(MissingPicture(screen, info), screen)
      BY <1>1, <1>2, MissingTidy, Zenon DEF info
    <2> QED
      BY <1>2, <1>3, <2>1, <2>2, <2>3, LaterInv, Zenon
  <1>8. ASSUME NEW aspect \in BOOLEAN, NEW offered \in BOOLEAN, NEW move \in BOOLEAN,
               Menu(aspect, offered, move)
        PROVE  GfxInv'
    <2>1. PICK pos : pos = test_position'
      BY Zenon
    <2>2. pos \in {0, 1}
      <3>1. 1 - test_position \in {0, 1}
        BY <1>2
      <3> QED
        BY <1>2, <1>8, <2>1, <3>1, Zenon DEF Menu
    <2>3. PICK e : e = IF offered THEN Button(MenuTop(d, aspect)) ELSE MenuTop(d, aspect)
      BY Zenon
    <2>4. PICK ts : ts = MenuItems(MenuWindow(screen), 0, aspect, offered) \union
                         {Version(screen, 0, align_info(pos))}
      BY Zenon
    <2>5. Draft(gfx_clear(d), draw_version(MenuBottom(e), pos), screen, 0, FALSE, ts)
      BY <1>5, <2>2, <2>3, <2>4, MenuDrawn, Zenon
    <2>6. g' = draw_version(MenuBottom(e), pos) /\ Later
      BY <1>3, <1>8, <2>1, <2>3, Zenon DEF Menu, Iteration
    <2>7. Tidy(MenuPicture(screen, align_info(pos)), screen)
      BY <1>1, <2>2, MenuTidy, Zenon
    <2>8. Tidy(ts, screen)
      BY <2>4, <2>7, MenuPart, TidyPart, Zenon
    <2> QED
      BY <1>3, <2>1, <2>2, <2>5, <2>6, <2>8, LaterInv, Zenon
  <1>9. ASSUME NEW aspect \in BOOLEAN, NEW wide \in BOOLEAN, Apply(aspect, wide)
        PROVE  GfxInv'
    <2>1. PICK pos \in {0, 1} : pos = test_position'
      BY <1>2, <1>9, Zenon DEF Apply
    <2>2. PICK h : h = draw_version(MenuBottom(gfx_set_240p(Button(MenuTop(d, aspect)), wide)), pos)
      BY Zenon
    <2>3. g' = h /\ screen' = ScreenOf(wide) /\ since' = 0
      BY <1>3, <1>9, <2>1, <2>2, Zenon DEF Apply, Iteration
    <2> PICK open \in BOOLEAN : Open(open)
      BY Zenon DEF Open
    <2>4. PICK items, v : /\ items = MenuItems(MenuWindow(screen), 0, aspect, open)
                          /\ v = Version(ScreenOf(wide), 0, align_info(pos))
      BY Zenon
    <2>5. Applied(c, h, wide, items \union {v})
      <3>1. Applied(gfx_clear(d),
                    draw_version(MenuBottom(gfx_set_240p(Button(MenuTop(d, aspect)), wide)), pos), wide,
                    MenuItems(MenuWindow(screen), 0, aspect, open) \union
                    {Version(ScreenOf(wide), 0, align_info(pos))})
        <4>1. Applying(d, screen, 0, FALSE, screen, open, aspect, wide, pos)
          BY <1>5, Zenon DEF Applying
        <4> QED
          BY <4>1, ApplyIs, Zenon
      <3> QED
        BY <1>3, <2>2, <2>4, <3>1, Zenon
    <2>6. \A t \in items \union {v} : Proper(t)
      <3>1. PICK a : a = align_info(pos)
        BY Zenon
      <3>2. Tidy(MenuPicture(screen, a), screen) /\ Tidy(MenuPicture(ScreenOf(wide), a), ScreenOf(wide))
        BY <1>1, <3>1, MenuTidy, Zenon
      <3>3. items \subseteq MenuPicture(screen, a)
        <4>1. MenuItems(MenuWindow(screen), 0, aspect, open) \union {Version(screen, 0, a)} \subseteq
                  MenuPicture(screen, a)
          BY MenuPart, Zenon
        <4> QED
          BY <2>4, <4>1, Zenon
      <3>4. v \in MenuPicture(ScreenOf(wide), a)
        <4>1. MenuItems(MenuWindow(ScreenOf(wide)), 0, aspect, open) \union {Version(ScreenOf(wide), 0, a)} \subseteq
                  MenuPicture(ScreenOf(wide), a)
          BY MenuPart, Zenon
        <4> QED
          BY <2>4, <3>1, <4>1, Zenon
      <3> QED
        BY <3>2, <3>3, <3>4, Zenon DEF Tidy
    <2>7. Sound(h, ScreenOf(wide), 0)
      BY <1>4, <2>5, <2>6, ApplyEnds, Zenon
    <2>8. 0 \in 0..2
      OBVIOUS
    <2> QED
      BY <2>1, <2>3, <2>7, <2>8, Zenon DEF GfxInv
  <1>10. CASE UNCHANGED gfxVars
    BY <1>10, Zenon DEF gfxVars, GfxInv
  <1> QED
    BY <1>6, <1>7, <1>8, <1>9, <1>10, Zenon DEF GfxNext

THEOREM GfxInvariance == GfxSpec => []GfxInv
  BY GfxInitInv, GfxNextInv, PTL DEF GfxSpec

\* No screen nests windows deeper than contexts[] is long: two at most are open, and a
\* page flip starts over (gfx.c:150-162), whatever the length above two.
THEOREM NeverTooDeep == GfxSpec => []StackInBounds
  <1>1. GfxInv => StackInBounds
    BY GfxAssumption, StateTypes DEF GfxInv, Sound, StackInBounds
  <1> QED
    BY <1>1, GfxInvariance, PTL

\* Every iteration starts with the whole screen, on the first line and without a menu, also
\* after the Apply button set a new screen with the menu's window open (gfx.c:124-135).
THEOREM AlwaysFresh == GfxSpec => []StartsFresh
  <1>1. GfxInv => StartsFresh
    <2> SUFFICES ASSUME GfxInv PROVE StartsFresh
      BY Zenon
    <2>1. g \in States /\ Cur(g) = Context(screen)
      BY Zenon DEF GfxInv, Sound
    <2>2. Cur(gfx_pageflip(g)) = Cur(g)
      BY <2>1, FlipIs, Zenon DEF Flipped
    <2> QED
      BY <2>1, <2>2, Zenon DEF StartsFresh
  <1> QED
    BY <1>1, GfxInvariance, PTL

\* The page on display was cleared, all of the screen, and drawn in one iteration, from the
\* second after a mode was set (gfx.c:137-148).
THEOREM NeverStale == GfxSpec => []NothingStale
  <1>1. GfxInv => NothingStale
    <2> SUFFICES ASSUME GfxInv, since = 2 PROVE NothingStale
      BY Zenon DEF NothingStale
    <2>1. g.page[g.page_front].cleared = screen /\ g.page[g.page_front].fresh = TRUE
      BY Zenon DEF GfxInv, Sound
    <2>2. screen \in Regions
      BY ScreenType, Zenon DEF GfxInv
    <2>3. Inside(screen, screen)
      BY <2>2 DEF Regions, Inside
    <2> QED
      BY <2>1, <2>3, Zenon DEF NothingStale
  <1> QED
    BY <1>1, GfxInvariance, PTL

\* All that is drawn is on the screen and in its own window, on both screens, at both
\* positions of the pattern and while the screen changes (gfx.c:170-219, 440-464), for every
\* size of the bars and of the status that GfxAssumption allows.
THEOREM AlwaysOnScreen == GfxSpec => []OnScreen
  <1>1. GfxInv => OnScreen
    <2> SUFFICES ASSUME GfxInv, NEW p \in {0, 1}, NEW o \in g.page[p].things
                 PROVE  /\ since > 0 /\ p = g.vram => Inside(o.at, screen)
                        /\ Inside(o.at, Memory) /\ Inside(o.at, o.in)
      BY DEF OnScreen, Memory
    <2>1. Proper(o)
      BY Zenon DEF GfxInv, Sound
    <2>2. since > 0 => since >= 1
      BY DEF GfxInv
    <2>3. since > 0 => Tidy(Picture(g), screen)
      BY <2>2, Zenon DEF GfxInv, Sound
    <2> QED
      BY <2>1, <2>3, Zenon DEF Tidy, Proper, Picture, Page
  <1> QED
    BY <1>1, GfxInvariance, PTL

\* Nothing is drawn on anything else, so nothing covers the bars the sensor looks at
\* (main.c:428-457, 478-499), for every size that GfxAssumption allows.
THEOREM NeverOverlaps == GfxSpec => []NoOverlap
  <1>1. GfxInv => NoOverlap
    <2> SUFFICES ASSUME GfxInv, since > 0 PROVE NoOverlap
      BY Zenon DEF NoOverlap
    <2>1. since >= 1
      BY DEF GfxInv
    <2>2. Tidy(Picture(g), screen)
      BY <2>1, Zenon DEF GfxInv, Sound
    <2> QED
      BY <2>2, Zenon DEF Tidy, Picture, Page, NoOverlap
  <1> QED
    BY <1>1, GfxInvariance, PTL

=============================================================================
