----------------------------- MODULE MCAiConnect -----------------------------
(* A small instance of AiConnect. *)
EXTENDS AiConnect, TLC

CONSTANTS r1, r2, i1, i2, i3
RequestSet == {r1, r2}
IdSet == {i1, i2, i3}
Symmetric == Permutations(RequestSet) \cup Permutations(IdSet)

\* Two actors at a time in an undisturbed installation, one in a disturbed one, and two
\* disturbances at most: the boot probe at work, a change no hook follows, a legacy
\* key, rows left over, a blank credential, one of another encryption key, a session.
UnderWay == {a \in Actors : req[a].pc # "idle"}
Leftover == {i \in Id : Live(i) /\ ~InAi(i) /\ \A a \in Actors : req[a].id # i}
One(b) == IF b THEN 1 ELSE 0
Disturbances ==
  One(probe.pc # "done") + One(behind) + One(legacy)
    + Cardinality(Leftover)
    + Cardinality({i \in Id : cred[i].val = "blank"}) + Cardinality({i \in Id : Undecryptable(i)})
    + Cardinality({s \in Sessions : sess[s].st # "none" /\ req[s].pc = "idle"})
Bounded ==
  /\ Cardinality(UnderWay) <= (IF Disturbances = 0 THEN 2 ELSE 1)
  /\ Disturbances <= 2
=============================================================================
