-------------------------------- MODULE Gfx ---------------------------------
(***************************************************************************)
(* The drawing layer, firmware/src/gfx.c, and what the main loop draws     *)
(* with it (firmware/src/main.c): the stack of drawing contexts, the two   *)
(* pages, windows, frames, text and the rectangles of the test pattern.    *)
(*                                                                         *)
(* The functions of gfx.c are operators on the drawing state g; one action *)
(* is what one iteration of the main loop draws.  A page holds the region  *)
(* that was last cleared and the things drawn since, as rectangles of      *)
(* tiles with the region each was meant for; outside may be anything.  It  *)
(* is fresh if it was cleared since it was last on display.                *)
(* Text is as long as it can get.  Pens and characters are left out.       *)
(*                                                                         *)
(* PopIndex, FlipDeeper, ClearNothing, AlignBelow and LinesDouble are      *)
(* mutants of the definition that follows each; nothing uses them.         *)
(***************************************************************************)
EXTENDS Integers, FiniteSets

CONSTANTS
    NUM_CTX,            \* length of contexts[]
    STATUS_H,           \* lines of the status window
    BAR_W, BAR_H        \* size of a bar of the test pattern

\* Two windows are open at once at most; the bars and the status leave room for each
\* other on both screens.
ASSUME GfxAssumption ==
    /\ NUM_CTX \in Nat /\ NUM_CTX > 2
    /\ STATUS_H \in 1..11 /\ BAR_W \in 1..14 /\ BAR_H \in 1..8

VARIABLES
    g,                  \* contexts, context_idx, ctx, page_front, vram and the pages;
                        \* deepest: history, the highest context used
    test_position,
    screen,             \* the visible tiles: what gfx_set_240p last set
    since               \* history: iterations since a mode was set, up to 2

gfxVars == <<g, test_position, screen, since>>

Region(x, y, w, h) == [x |-> x, y |-> y, w |-> w, h |-> h]

\* The context a region gives: nothing written yet, no menu.
Context(r) == [r |-> r, y |-> 0, menu |-> FALSE]

Unused == Context(Region(0, 0, 0, 0))

ScreenOf(wide) == IF wide THEN Region(0, 0, 48, 27) ELSE Region(0, 0, 40, 30)

Inside(r, s) == r.x >= s.x /\ r.y >= s.y /\ r.x + r.w <= s.x + s.w /\ r.y + r.h <= s.y + s.h
Disjoint(r, s) ==
    r.x + r.w <= s.x \/ s.x + s.w <= r.x \/ r.y + r.h <= s.y \/ s.y + s.h <= r.y

\* The current context, and g with it changed to c.
Cur(d) == d.contexts[d.ctx]
With(d, c) == [d EXCEPT !.contexts[d.ctx] = c]

----------------------------------------------------------------------------
\* A thing drawn at (x, y) of the region r.
Thing(what, r, x, y, w, h) == [what |-> what, at |-> Region(r.x + x, r.y + y, w, h), in |-> r]

\* One thing more on the page that is drawn on.
Add(d, t) == [d EXCEPT !.page[d.vram].things = @ \union {t}]
Draw(d, what, x, y, w, h) == Add(d, Thing(what, Cur(d).r, x, y, w, h))

gfx_push(d) ==
    IF d.context_idx < NUM_CTX
      THEN LET i == d.context_idx + 1
           IN  [d EXCEPT !.context_idx = i, !.ctx = i, !.contexts[i] = Cur(d),
                         !.deepest = IF i > @ THEN i ELSE @]
      ELSE [d EXCEPT !.context_idx = @ + 1]

\* The contexts above the current one are left as they are; nothing reads them.
PopIndex(d) == [d EXCEPT !.context_idx = IF @ > 0 THEN @ - 1 ELSE 0]
gfx_pop(d) ==
    LET i == IF d.context_idx > 0 THEN d.context_idx - 1 ELSE 0
    IN  [d EXCEPT !.context_idx = i, !.ctx = IF i < NUM_CTX THEN i ELSE @,
                  !.contexts = [j \in DOMAIN @ |-> IF j > i THEN Unused ELSE @[j]]]

FlipDeeper(d) ==
    gfx_push([d EXCEPT !.page_front = 1 - @, !.vram = d.page_front,
                       !.page[d.page_front].fresh = FALSE])
gfx_pageflip(d) ==
    gfx_push([d EXCEPT !.page_front = 1 - @, !.vram = d.page_front, !.context_idx = 0,
                       !.page[d.page_front].fresh = FALSE])

\* gfx_set_240p: region 0 is the new screen.
gfx_set_240p(d, wide) ==
    gfx_pageflip([d EXCEPT !.contexts[0] = [@ EXCEPT !.r = ScreenOf(wide)]])

\* gfx_clear wipes the current region of the page that is drawn on.
ClearNothing(d) == d
gfx_clear(d) == [d EXCEPT !.page[d.vram] = [cleared |-> Cur(d).r, things |-> {}, fresh |-> TRUE]]

\* One axis of gfx_align_box: size tiles of room tiles, n from the edge or centre.
AlignBelow(align, n, size, room) ==
    CASE align = "MID" -> (room - size) \div 2 + n
      [] align = "END" -> room - size + n
      [] align = "BEGIN" -> n
Align(align, n, size, room) ==
    CASE align = "MID" -> (room - size) \div 2 + n
      [] align = "END" -> room - size - n
      [] align = "BEGIN" -> n

gfx_align_box(d, h, v, xadj, yadj, w, hgt) ==
    Region(Align(h, xadj, w, Cur(d).r.w), Align(v, yadj, hgt, Cur(d).r.h), w, hgt)

\* gfx_frame: the four edges.
gfx_frame(d, w, h) ==
    Draw(Draw(Draw(Draw(d, "frame", 0, 0, w, 1), "frame", 0, h - 1, w, 1),
              "frame", 0, 1, 1, h - 2), "frame", w - 1, 1, 1, h - 2)

gfx_begin_window(d, h, v, x, y, w, hgt, frame) ==
    LET p == gfx_push(d)
        r == gfx_align_box(p, h, v, x, y, w, hgt)
        q == With(p, [Cur(p) EXCEPT !.r = r])
    IN  IF frame > 0
          THEN With(gfx_frame(q, w, hgt),
                    [Cur(q) EXCEPT !.r = Region(r.x + frame, r.y + frame, r.w - 2 * frame,
                                                r.h - 2 * frame)])
          ELSE q

gfx_newline(d, n) == With(d, [Cur(d) EXCEPT !.y = @ + n])

\* gfx_text_aligned: one line, of len characters.
gfx_text(d, align, len) ==
    gfx_newline(Draw(d, "text", Align(align, 0, len, Cur(d).r.w), Cur(d).y, len, 1), 1)

\* The edge marks of gfx_display_border.
gfx_display_border(d) ==
    LET r == Cur(d).r
        y3 == r.h \div 3
        mark(e, x, y, w) == Draw(e, "mark", x, y, w, 1)
        sides(e, y) == mark(mark(e, 0, y, 1), r.w - 1, y, 1)
    IN  sides(sides(mark(mark(d, r.w \div 2, 0, 2), r.w \div 2, r.h - 1, 2), y3 - 1), 2 * y3)

----------------------------------------------------------------------------
(* What main.c draws. *)

align_test == IF test_position = 0 THEN "BEGIN" ELSE "END"
align_info(pos) == IF pos = 0 THEN "END" ELSE "BEGIN"
info == align_info(test_position)

\* n lines of text.
LinesDouble(d, n, len) == gfx_newline(Draw(d, "text", 0, Cur(d).y, len, 2 * n), n)
Lines(d, n, len) == gfx_newline(Draw(d, "text", 0, Cur(d).y, len, n), n)

Box(d, what, h, v, xadj, yadj, w, hgt) ==
    LET r == gfx_align_box(d, h, v, xadj, yadj, w, hgt) IN Draw(d, what, r.x, r.y, w, hgt)

Bars(d) ==
    Box(Box(Box(d, "bar", align_test, "BEGIN", 0, 0, BAR_W, BAR_H),
            "bar", align_test, "MID", 0, 0, BAR_W, BAR_H),
        "bar", align_test, "END", 0, 0, BAR_W, BAR_H)

\* The mode line is at most "Mode: 1920x1080 @ 60hz" long, a status line STATUS_W - 1.
draw_status(d) ==
    gfx_pop(Lines(gfx_begin_window(d, info, "MID", 2, -2, 24, STATUS_H, 0), STATUS_H, 15))

do_sampling(d) ==
    LET image == Box(Bars(gfx_display_border(gfx_clear(d))), "image", info, "BEGIN", 2, 2,
                     4, 4)
        modeline == Lines(gfx_begin_window(image, info, "END", 2, 5, 24, 2, 0), 2, 22)
    IN  draw_status(gfx_pop(modeline))

draw_no_sensor(d) ==
    LET title == gfx_text(gfx_begin_window(gfx_clear(d), "MID", "MID", 0, 0, 34, 6, 1), "MID", 19)
    IN  gfx_pop(Lines(gfx_newline(title, 1), 2, 32))

draw_version(d, pos) ==
    gfx_pop(gfx_text(gfx_begin_window(d, align_info(pos), "END", 2, 2, 24, 1, 0), "BEGIN", 23))

\* A menu item is an empty line and a line of text, and none if there is no menu.
Select(d) ==
    IF ~Cur(d).menu THEN d ELSE gfx_text(gfx_newline(d, 1), "BEGIN", Cur(d).r.w)
Button(d) ==
    IF ~Cur(d).menu THEN d ELSE gfx_text(gfx_newline(d, 1), "MID", 19)

\* draw_menu up to the Apply button; aspect: the resolution is wide.
MenuTop(d, aspect) ==
    LET w == gfx_begin_window(gfx_clear(d), "MID", "MID", 0, 0, 28, 18, 1)
        title == gfx_text(With(w, [Cur(w) EXCEPT !.menu = TRUE]), "MID", 6)
        selects == Select(Select(title))
    IN  gfx_newline(IF aspect THEN Select(selects) ELSE gfx_newline(selects, 2), 1)

MenuBottom(d) == gfx_pop(Select(gfx_newline(d, 2)))

----------------------------------------------------------------------------
\* Garbage of power-up on both pages; gfx_set_240p(60, false).
GfxInit ==
    /\ g = gfx_set_240p([contexts |-> [i \in 0..NUM_CTX |-> Unused],
                         context_idx |-> 0, ctx |-> 0, deepest |-> 0, page_front |-> 0, vram |-> 0,
                         page |-> [p \in {0, 1} |-> [cleared |-> Unused.r, things |-> {}, fresh |-> FALSE]]], FALSE)
    /\ test_position = 0
    /\ screen = ScreenOf(FALSE)
    /\ since = 0

\* An iteration of the main loop that ends with the drawing state d.
Iteration(d) == g' = draw_version(d, test_position')

Later == since' = (IF since = 2 THEN 2 ELSE since + 1) /\ UNCHANGED screen

Sampling == UNCHANGED test_position /\ Iteration(do_sampling(gfx_pageflip(g))) /\ Later

NoSensor == UNCHANGED test_position /\ Iteration(draw_no_sensor(gfx_pageflip(g))) /\ Later

\* The last item of the menu moves the test pattern.
Menu(aspect, offered, move) ==
    LET top == MenuTop(gfx_pageflip(g), aspect)
    IN  /\ test_position' = IF move THEN 1 - test_position ELSE test_position
        /\ Iteration(MenuBottom(IF offered THEN Button(top) ELSE top))
        /\ Later

\* The Apply button sets the new screen in the middle of the menu.
Apply(aspect, wide) ==
    /\ wide => aspect
    /\ UNCHANGED test_position
    /\ Iteration(MenuBottom(gfx_set_240p(Button(MenuTop(gfx_pageflip(g), aspect)), wide)))
    /\ screen' = ScreenOf(wide) /\ since' = 0

GfxNext ==
    \/ Sampling \/ NoSensor
    \/ \E aspect, offered, move \in BOOLEAN : Menu(aspect, offered, move)
    \/ \E aspect, wide \in BOOLEAN : Apply(aspect, wide)

GfxSpec == GfxInit /\ [][GfxNext]_gfxVars

----------------------------------------------------------------------------
\* gfx_push stays inside contexts[], though its check lets context_idx reach
\* NUM_CTX (gfx.c:150-162): no screen nests that deep, and every frame starts
\* over, a flip in the middle of the menu included.
StackInBounds == g.deepest < NUM_CTX

\* Every iteration starts with the whole screen, on its first line and without a
\* menu, as gfx_clear and the alignment need it, also after the one that changed
\* the screen with a window open (gfx.c:124-135, main.c:243).
StartsFresh == Cur(gfx_pageflip(g)) = Context(screen)

\* What is drawn is on the screen, so also on its own page, and text is inside
\* its window, for every screen, both positions and in the iteration that
\* changes the screen (gfx.c:170-219, 440-464).
OnScreen ==
    \A p \in {0, 1} : \A o \in g.page[p].things :
        /\ since > 0 /\ p = g.vram => Inside(o.at, screen)
        /\ Inside(o.at, Region(0, 0, 128, 64))
        /\ Inside(o.at, o.in)

\* Nothing is drawn over anything else: above all, nothing covers the bars the
\* sensor looks at (main.c:428-457, 478-499).
NoOverlap ==
    since > 0 => \A o, q \in g.page[g.vram].things : o # q => Disjoint(o.at, q.at)

\* The page on display is the drawing of one iteration: nothing of power-up, of
\* an earlier frame or of another screen size shows (gfx.c:137-148), from the
\* second frame after a mode was set.
NothingStale ==
    since = 2 => LET front == g.page[g.page_front]
                 IN  /\ Inside(screen, front.cleared)
                     /\ front.fresh
=============================================================================
