------------------------------ MODULE DaTong ------------------------------
(***************************************************************************)
(* DaTong's headers: the check of their ancestry and the times of blocks,  *)
(* side by side.                                                           *)
(***************************************************************************)
CONSTANTS
    Block, Origin, ParentHash(_), Batches, Importer, Checker,      \* of the headers
    Miner, Second, Period, delayTimeModifier, adjustIntervalBlocks, MinBlockTime,
    maxBlockTime, Spans, Latency, MaxStops, MaxIdle,               \* of the times
    Nothing

VARIABLES known, states, future, array, len, chainmu, pc, batch, index, err, check, failed

Headers == INSTANCE HeaderCheck WITH Header <- Block, Genesis <- Origin, None <- Nothing

ASSUME HeadersAssumption == Headers!HeaderCheckAssumption

VARIABLES now, place, supply, span, running, since, header, due, steady, late, stops

Times == INSTANCE BlockTime WITH up <- running, list <- place, None <- Nothing

ASSUME TimesAssumption == Times!BlockTimeAssumption

\* LinkedIsAccepted of HeaderCheck: a header whose parent is there is not refused
\* for its ancestry by an import, nor by a check that no import overlaps, also
\* after imports that failed (glb_parents).
LinkedIsAccepted == Headers!LinkedIsAccepted

\* NotOvertaken of BlockTime: no miner further down the list seals before one
\* that runs, unless the longest delay has passed or the parent had to wait for
\* a purchase (Prepare, calcDelayTime, Finalize).
NotOvertaken == Times!NotOvertaken
=============================================================================
