-------------------------------- MODULE Paths ---------------------------------
(***************************************************************************)
(* The two checks a file's path goes through: parseVirtualPath at the      *)
(* gateway and resolveAndValidate on the device.  A path is the sequence   *)
(* of its segments; an empty sequence stands for the error.                *)
(***************************************************************************)
EXTENDS Integers, Sequences, SequencesExt

ALLOWED_DIRS == {"local_scripts", "screenshots"}

\* /{device}/local_scripts/... without the device; dots are left as they are.
ParseVirtualPath(device, virtualPath) ==
  LET parts == SelectSeq(virtualPath, LAMBDA s : s # "")
  IN  IF Len(parts) >= 2 /\ parts[1] = device /\ parts[2] \in ALLOWED_DIRS
      THEN Tail(parts) ELSE << >>

\* What a segment of a path can be besides the name of a file or a folder.
Dots == {"", ".", ".."}

\* path.resolve: from cwd, segment by segment; ".." of the root is the root.
Enter(at, s) ==
  CASE s \in {"", "."} -> at
    [] s = ".." -> IF at = << >> THEN at ELSE Front(at)
    [] s \notin Dots -> Append(at, s)

Resolve(cwd, segments) ==
  LET at[n \in 0..Len(segments)] ==
        IF n = 0 THEN cwd ELSE Enter(at[n - 1], segments[n])
  IN  at[Len(segments)]

Allowed(cwd, resolved) ==
  \E d \in ALLOWED_DIRS : IsPrefix(Append(cwd, d), resolved)

\* Looking at the path before it is resolved.
BadResolveAndValidate(cwd, segments) ==
  IF segments # << >> /\ Head(segments) \in ALLOWED_DIRS
  THEN Resolve(cwd, segments) ELSE << >>

ResolveAndValidate(cwd, segments) ==
  LET resolved == Resolve(cwd, segments)
  IN  IF Allowed(cwd, resolved) THEN resolved ELSE << >>
===============================================================================
