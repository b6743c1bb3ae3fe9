---------------------------- MODULE MCVideoMode -----------------------------
(* VideoMode for TLC: all the modes of the menu (main.c:128-165). *)
EXTENDS VideoMode

Narrow(w, h) == [width |-> w, height |-> h, wide |-> FALSE]
Wide(w, h) == [width |-> w, height |-> h, wide |-> TRUE]

MCResolutions ==
    <<Narrow(640, 480), Narrow(800, 600), Wide(1280, 720), Narrow(1024, 768),
      Narrow(1366, 768), Narrow(1280, 960), Wide(1708, 960), Wide(1920, 1080),
      Narrow(1600, 1200), Narrow(1792, 1344), Narrow(1920, 1440), Narrow(2048, 1536)>>

MCRates == <<24, 30>> \o [i \in 1..16 |-> 49 + i] \o <<72>>
=============================================================================
