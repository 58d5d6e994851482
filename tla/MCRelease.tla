------------------------------ MODULE MCRelease ------------------------------
(* What has to be released, one tool at a time: the funcs of a closer and    *)
(* its child, the segment and the semaphore of System V, or the objects of   *)
(* POSIX. The others are at rest.                                            *)
EXTENDS Closer, SystemV, Posix

\* Two goroutines, a closer and a child, two funcs, and Append one way.
CONSTANTS p1, p2, parent, child, f1, f2
MCProcs == {p1, p2}
MCClosers == {parent, child}
MCRoots == {parent}
MCFuncs == {f1, f2}
MCMaxCalls == (p1 :> 3) @@ (p2 :> 2)
MCAppends == {<<parent, child>>}
ASSUME MCAppendsAssumption == AppendsOneWay

\* A writer and a reader, writes of three sizes, two keys and one fault (System V),
\* one writer after another (POSIX).
CONSTANTS r1, k1, k2
MCReaders == {r1}
MCKeys == {k1, k2}
MCSizes == {1, 2, 3}

VARIABLE tool

MCInit == CloserInit /\ SystemVInit /\ PosixInit /\ tool \in {"closer", "systemv", "posix"}

MCNext ==
  /\ UNCHANGED tool
  /\ \/ tool = "closer" /\ CloserNext /\ UNCHANGED <<systemVVars, posixVars>>
     \/ tool = "systemv" /\ SystemVNext /\ UNCHANGED <<closerVars, posixVars>>
     \/ tool = "posix" /\ PosixNext /\ UNCHANGED <<closerVars, systemVVars>>

MCSpec == MCInit /\ [][MCNext]_<<closerVars, systemVVars, posixVars, tool>> /\ SystemVFairness
=============================================================================
