---------------------------- MODULE MCFileRequests ----------------------------
(***************************************************************************)
(* FileRequests for TLC.  Requests are interchangeable for safety.         *)
(***************************************************************************)
EXTENDS FileRequests, TLC

Symmetry == Permutations(Requests)

MCCwd == << "home" >>
MCNodes ==
  { << "home", "local_scripts" >>,
    << "home", "local_scripts", "a.js" >>,
    << "home", "local_scripts", "a.js", "b" >>,
    << "home", "secret" >> }

\* A file in two ways, a file below it, the folder, a file outside, and another
\* device's file.
MCVirtualPaths ==
  { << "", "dev", "local_scripts", "a.js" >>,
    << "dev", "screenshots", "..", "local_scripts", ".", "a.js" >>,
    << "dev", "local_scripts", "a.js", "b" >>,
    << "dev", "local_scripts", "" >>,
    << "dev", "local_scripts", "..", "secret" >>,
    << "other", "local_scripts", "a.js" >> }

-------------------------------------------------------------------------------
(* Resolve against a definition without a walk: a segment stays when it is *)
(* a name, and no later ".." takes it back.                                *)

IsName(s) == s \notin Dots

Stays(p, i) ==
  /\ IsName(p[i])
  /\ \A j \in i + 1 .. Len(p) :
       Cardinality({k \in i + 1 .. j : p[k] = ".."})
         <= Cardinality({k \in i + 1 .. j : IsName(p[k])})

ResolveByPosition(p) ==
  LET stay == SelectSeq([i \in 1 .. Len(p) |-> i], LAMBDA i : Stays(p, i))
  IN  [n \in 1 .. Len(stay) |-> p[stay[n]]]

ASSUME ResolveAgrees ==
  \A p \in SeqOf({"a", "local_scripts", "..", "."}, 6) :
    Resolve(<< >>, p) = ResolveByPosition(p)
===============================================================================
