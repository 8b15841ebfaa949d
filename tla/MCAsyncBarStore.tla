--------------------------- MODULE MCAsyncBarStore ---------------------------
(* Model checking of AsyncBarStore: two callers and a channel of two reach   *)
(* a full channel, a flush behind another caller's bars, a flush or a        *)
(* shutdown that is discarded when the worker fails, and a close on a full   *)
(* channel; three sessions on one file a record behind a fragment, twice,    *)
(* and a session that follows one that lost its buffer.  The callers are     *)
(* interchangeable, but liveness is checked, so no symmetry is declared.     *)
EXTENDS AsyncBarStore

=============================================================================
