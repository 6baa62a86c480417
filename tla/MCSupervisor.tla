---------------------------- MODULE MCSupervisor ----------------------------
EXTENDS Supervisor

MCCap == [c \in Channels |-> 1]
MCSenderSeq == <<"s1", "s2", "s3">>

None == [k \in {"links", "drops", "notes", "gaps", "batches", "more", "asks",
               "signals", "bp", "vcp", "api", "pp"} |-> 0]

MCScenarios ==
    {[None EXCEPT !.links = 1, !.notes = 1, !.asks = 3, !.signals = 1],
     [None EXCEPT !.links = 1, !.drops = 1, !.gaps = 1, !.signals = 1],
     [None EXCEPT !.links = 1, !.notes = 2, !.bp = 1],
     [None EXCEPT !.links = 2, !.drops = 1, !.asks = 1],
     [None EXCEPT !.links = 2, !.drops = 1, !.vcp = 1],
     [None EXCEPT !.links = 1, !.gaps = 1, !.signals = 1, !.vcp = 1],
     [None EXCEPT !.links = 1, !.gaps = 1, !.batches = 1],
     [None EXCEPT !.links = 1, !.api = 1],
     [None EXCEPT !.links = 1, !.notes = 1, !.more = 1, !.pp = 1]}
=============================================================================
