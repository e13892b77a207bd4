----------------------- MODULE MCTransitionProcessors -----------------------
(* A job that reads one of a few short sequences of items.                   *)
EXTENDS TransitionProcessors

CONSTANTS sa, sb

MCStreams == {sa, sb}

I(k, r, l, last) == [kind |-> k, run |-> r, lumi |-> l, last |-> last]

F      == I("File", 0, 0, FALSE)
S      == I("Stop", 0, 0, FALSE)
R(r)   == I("Run", r, 0, FALSE)
L(r, l) == I("Lumi", r, l, FALSE)
E(r, l) == I("Event", r, l, FALSE)
Last(i) == [i EXCEPT !.last = TRUE]

(* A luminosity block that goes on in the next file, then another run;     *)
(* entries to be merged, the last of them marked, in one file; a run that  *)
(* goes on in two more files before it has a luminosity block; and more    *)
(* runs, or luminosity blocks, in a row than may be open at a time.        *)
MCInputs == {
  <<F, R(1), L(1, 1), E(1, 1), F, R(1), L(1, 1), E(1, 1), R(2), Last(R(2)), L(2, 1), S>>,
  <<F, R(1), Last(R(1)), L(1, 1), Last(L(1, 1)), E(1, 1), L(1, 2), E(1, 2), Last(L(1, 3)), S>>,
  <<F, Last(R(1)), F, R(1), F, R(1), Last(L(1, 1)), E(1, 1), S>>,
  <<F, Last(R(1)), Last(R(2)), Last(R(3)), S>>}
=============================================================================
