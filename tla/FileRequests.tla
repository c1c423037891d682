----------------------------- MODULE FileRequests -----------------------------
(***************************************************************************)
(* The file requests of a gateway to a device, end to end: the HTTP        *)
(* interface (cct-explorer.controller.ts, examples/express/main.ts), the   *)
(* gateway's emitWithAck, and the handlers read_dir, read_file, rm and     *)
(* write_file of the device (WsHandler), which interleave at their awaits  *)
(* of the file system.  The gateway writes with set_file, for which the    *)
(* device has no handler; write_file comes from gateways that know it.     *)
(*                                                                         *)
(* The file system is POSIX's: a name is that of a folder or of a file, a  *)
(* file is apart from its name and lives on without it while it is open,   *)
(* and reading and writing take time.  A file is known by the request that *)
(* created it, a whole content by the request that stored it.  A request   *)
(* or an answer may be lost: it is then never handled, or never arrives.   *)
(***************************************************************************)
EXTENDS Naturals, FiniteSets, Paths

CONSTANTS
  Requests,
  Device,        \* its name
  Cwd,           \* the device's working directory
  Nodes,         \* resolved paths: what may not exist yet, and files outside
  VirtualPaths,  \* that callers ask for
  Nothing

\* Files that exist and are no business of the gateway's.
Outside == {n \in Nodes : ~Allowed(Cwd, n)}

\* The folders a path goes through, but for those that always exist.
Above(n) == {m \in Nodes : IsStrictPrefix(m, n)}

Ops == {"read_dir", "read_file", "rm", "set_file", "write_file"}

\* What a name, a content or an answer can be that is no request.
Words ==
  {"absent", "folder", "private", "partial", "mixed", "torn", "null", "entries", "no entries",
   "ok", "failed", "none", "timeout", "404", "deleted", "saved", "400", "unreachable"} \cup Ops

\* What the gateway sends to the device, and what the device takes it for.
Parsed == [v \in VirtualPaths |-> ParseVirtualPath(Device, v)]
Target == [v \in VirtualPaths |-> ResolveAndValidate(Cwd, Parsed[v])]

ASSUME FileRequestsAssumption ==
  /\ Requests \cap Words = {} /\ Nothing \notin Requests \cup Words
  /\ << >> \notin Nodes
  /\ \A n \in Nodes \ Outside : Above(n) \cap Outside = {}
  /\ \A v \in VirtualPaths : Target[v] \in Nodes \cup {<< >>}

\* Files, and whole contents: one stands for all files outside.
Files == Requests \cup {"private"}
Whole == Requests \cup {"private"}

\* "partial": truncated, or written in part.  "mixed": written by two at once.
Contents == Whole \cup {"partial", "mixed"}

Stages ==
  { "idle", "sent",
    "statted",   \* write_file: stat in ensureDir found no folder
    "ensured",   \* write_file: the folder is there
    "opened",    \* write_file: the file is open and truncated
    "reading",   \* read_file: the file is open
    "answered" } \* the handler called its callback

VARIABLES
  node,      \* what each path names: nothing, a folder or a file
  data,      \* the content of each file
  handle,    \* the file a request has open
  seen,      \* the contents of the file a read has open, since it opened it
  op, path,  \* of each request
  stage,
  reply,     \* what the device's callback was given
  response,  \* what the caller was told
  before     \* the requests acknowledged before this one was sent

fs == << node, data, handle, seen >>
vars == << node, data, handle, seen, op, path, stage, reply, response, before >>

Replies == {"ok", "failed", "null", "entries", "no entries", "torn"} \cup Whole
Refusals == {"400", "unreachable"}
Responses == {"none", "timeout", "404", "deleted", "saved"} \cup Refusals
               \cup (Replies \ {"null", "ok", "failed"})

TypeOK ==
  /\ node \in [Nodes -> {"absent", "folder"} \cup Files]
  /\ data \in [Files -> Contents]
  /\ handle \in [Requests -> Files \cup {Nothing}]
  /\ seen \in [Requests -> SUBSET Contents]
  /\ op \in [Requests -> Ops \cup {Nothing}]
  /\ path \in [Requests -> VirtualPaths \cup {Nothing}]
  /\ stage \in [Requests -> Stages]
  /\ reply \in [Requests -> Replies \cup {Nothing}]
  /\ response \in [Requests -> Responses]
  /\ before \in [Requests -> SUBSET Requests]

Init ==
  /\ node = [n \in Nodes |-> IF n \in Outside THEN "private" ELSE "absent"]
  /\ data = [i \in Files |-> IF i = "private" THEN "private" ELSE "partial"]
  /\ handle = [r \in Requests |-> Nothing]
  /\ seen = [r \in Requests |-> {}]
  /\ op = [r \in Requests |-> Nothing]
  /\ path = [r \in Requests |-> Nothing]
  /\ stage = [r \in Requests |-> "idle"]
  /\ reply = [r \in Requests |-> Nothing]
  /\ response = [r \in Requests |-> "none"]
  /\ before = [r \in Requests |-> {}]

-------------------------------------------------------------------------------
(* The gateway.  Definitions called Bad... are what their neighbours would *)
(* be with a plausible mistake; no specification uses them.                *)

\* The device answered, and the answer came in time.
Acknowledged(r) == response[r] \notin {"none", "timeout"} \cup Refusals

\* An HTTP handler: parseVirtualPath, the device's socket, emitWithAck.
Ask(r, what, p) ==
  /\ stage[r] = "idle" /\ response[r] = "none"
  /\ op' = [op EXCEPT ![r] = what]
  /\ path' = [path EXCEPT ![r] = p]
  /\ before' = [before EXCEPT ![r] = {q \in Requests : Acknowledged(q)}]
  /\ \/ /\ Parsed[p] = << >>
        /\ response' = [response EXCEPT ![r] = "400"]
        /\ UNCHANGED stage
     \/ /\ Parsed[p] # << >>
        /\ response' = [response EXCEPT ![r] = "unreachable"]
        /\ UNCHANGED stage
     \/ /\ Parsed[p] # << >>
        /\ stage' = [stage EXCEPT ![r] = "sent"]
        /\ UNCHANGED response
  /\ UNCHANGED << fs, reply >>

\* Without the test `content == null`.
BadTold(r) ==
  CASE op[r] = "rm" -> "deleted"
    [] op[r] \in {"set_file", "write_file"} -> "saved"
    [] OTHER -> reply[r]

\* What HTTP answers: the device's answer to rm and to writes is not looked at.
Told(r) ==
  CASE op[r] = "rm" -> "deleted"
    [] op[r] \in {"set_file", "write_file"} -> "saved"
    [] op[r] = "read_file" /\ reply[r] = "null" -> "404"
    [] OTHER -> reply[r]

AckArrives(r) ==
  /\ reply[r] # Nothing /\ response[r] = "none"
  /\ response' = [response EXCEPT ![r] = Told(r)]
  /\ UNCHANGED << fs, op, path, stage, reply, before >>

\* emitWithAck's timer.  The device goes on with the request.
AckTimeout(r) ==
  /\ stage[r] # "idle" /\ response[r] = "none"
  /\ response' = [response EXCEPT ![r] = "timeout"]
  /\ UNCHANGED << fs, op, path, stage, reply, before >>

-------------------------------------------------------------------------------
(* The device.                                                             *)

Handled(r, what) == stage[r] = "sent" /\ op[r] = what

Answer(r, answer) ==
  /\ stage' = [stage EXCEPT ![r] = "answered"]
  /\ reply' = [reply EXCEPT ![r] = answer]

Goto(r, to) == stage' = [stage EXCEPT ![r] = to] /\ UNCHANGED reply

Named(r) == Target[path[r]]

IsFile(n) == n \in Nodes /\ node[n] \in Files
IsFolder(n) == n \in Nodes /\ node[n] = "folder"

\* The folder of a path is there; there is a file in its place or further up.
HasFolder(n) == \A m \in Above(n) : IsFolder(m)
Blocked(n) == \E m \in Above(n) : IsFile(m)

Writers(i) == {q \in Requests : stage[q] = "opened" /\ handle[q] = i}

\* File i gets content c, and those who are reading it may see it.
Put(i, c) ==
  /\ data' = [data EXCEPT ![i] = c]
  /\ seen' = [q \in Requests |->
                IF stage[q] = "reading" /\ handle[q] = i THEN seen[q] \cup {c} ELSE seen[q]]

\* readDir: an error is answered like an empty folder.
ReadDir(r) ==
  /\ Handled(r, "read_dir")
  /\ Answer(r, IF IsFolder(Named(r)) THEN "entries" ELSE "no entries")
  /\ UNCHANGED << fs, op, path, response, before >>

\* readFile opens the file ...
OpenRead(r) ==
  /\ Handled(r, "read_file")
  /\ \/ /\ IsFile(Named(r))
        /\ LET i == node[Named(r)] IN
             /\ handle' = [handle EXCEPT ![r] = i]
             /\ seen' = [seen EXCEPT ![r] =
                           {data[i]} \cup (IF Writers(i) = {} THEN {} ELSE {"partial"})]
        /\ Goto(r, "reading")
     \/ /\ ~IsFile(Named(r))
        /\ Answer(r, "null")
        /\ UNCHANGED << handle, seen >>
  /\ UNCHANGED << node, data, op, path, response, before >>

\* ... and reads it piece by piece: all of it at once if it did not change.
ReadDone(r) ==
  /\ stage[r] = "reading"
  /\ \E c \in (seen[r] \cap Whole) \cup
               (IF \E w \in Whole : seen[r] = {w} THEN {} ELSE {"torn"}) :
       Answer(r, c)
  /\ handle' = [handle EXCEPT ![r] = Nothing]
  /\ seen' = [seen EXCEPT ![r] = {}]
  /\ UNCHANGED << node, data, op, path, response, before >>

\* The callback without waiting for rm, which then fails.
BadRm(r) ==
  /\ Handled(r, "rm")
  /\ Answer(r, "ok")
  /\ UNCHANGED << fs, op, path, response, before >>

\* rm with force, not recursive: it is no error that nothing has the name.
Rm(r) ==
  /\ Handled(r, "rm")
  /\ \/ /\ IsFile(Named(r))
        /\ node' = [node EXCEPT ![Named(r)] = "absent"]
        /\ Answer(r, "ok")
     \/ /\ ~IsFile(Named(r))
        /\ Answer(r, IF Named(r) \notin Nodes \/ IsFolder(Named(r)) \/ Blocked(Named(r))
                     THEN "failed" ELSE "ok")
        /\ UNCHANGED node
  /\ UNCHANGED << data, handle, seen, op, path, response, before >>

\* write_file up to the end of stat in ensureDir, which refuses a file.
WriteFile(r) ==
  /\ Handled(r, "write_file")
  /\ IF Named(r) \notin Nodes \/ Blocked(Named(r)) THEN Answer(r, "failed")
     ELSE Goto(r, IF HasFolder(Named(r)) THEN "ensured" ELSE "statted")
  /\ UNCHANGED << fs, op, path, response, before >>

\* The next folder mkdir makes for n.
Missing(n) == {m \in Above(n) : node[m] = "absent" /\ HasFolder(m)}

\* mkdir that is not recursive, which fails when the folder exists.
BadMakeDir(r) ==
  /\ stage[r] = "statted"
  /\ IF Missing(Named(r)) = {} THEN Answer(r, "failed") /\ UNCHANGED node
     ELSE /\ node' = [m \in Nodes |-> IF m \in Missing(Named(r)) THEN "folder" ELSE node[m]]
          /\ Goto(r, "ensured")
  /\ UNCHANGED << data, handle, seen, op, path, response, before >>

\* mkdir, recursive, makes folder after folder: it is no error that another
\* request has made one, but that one has made a file of its name.
MakeDir(r) ==
  /\ stage[r] = "statted"
  /\ \/ /\ Blocked(Named(r))
        /\ Answer(r, "failed")
        /\ UNCHANGED node
     \/ /\ ~Blocked(Named(r))
        /\ node' = [m \in Nodes |-> IF m \in Missing(Named(r)) THEN "folder" ELSE node[m]]
        /\ Goto(r, IF HasFolder(Named(r)) THEN "ensured" ELSE "statted")
  /\ UNCHANGED << data, handle, seen, op, path, response, before >>

\* The callback without waiting for writeFile.
BadOpenFile(r) ==
  LET n == Named(r)
      i == IF node[n] = "absent" THEN r ELSE node[n]
  IN  /\ stage[r] = "ensured"
      /\ ~IsFolder(n)
      /\ node' = [node EXCEPT ![n] = i]
      /\ handle' = [handle EXCEPT ![r] = i]
      /\ Put(i, "partial")
      /\ stage' = [stage EXCEPT ![r] = "opened"]
      /\ reply' = [reply EXCEPT ![r] = "ok"]
      /\ UNCHANGED << op, path, response, before >>

\* writeFile opens, and by the flag "w" creates or truncates, the file ...
OpenFile(r) ==
  /\ stage[r] = "ensured"
  /\ \/ /\ IsFolder(Named(r))
        /\ Answer(r, "failed")
        /\ UNCHANGED fs
     \/ /\ ~IsFolder(Named(r))
        /\ LET n == Named(r)
               i == IF node[n] = "absent" THEN r ELSE node[n]
           IN  /\ node' = [node EXCEPT ![n] = i]
               /\ handle' = [handle EXCEPT ![r] = i]
               /\ Put(i, "partial")
        /\ Goto(r, "opened")
  /\ UNCHANGED << op, path, response, before >>

\* ... and writes it: alone, or over and under what others write to it.
Store(r) ==
  /\ stage[r] = "opened"
  /\ LET i == handle[r]
         alone == data[i] = "partial" /\ Writers(i) = {r}
     IN  \E c \in {r} \cup (IF alone THEN {} ELSE {"mixed"}) : Put(i, c)
  /\ handle' = [handle EXCEPT ![r] = Nothing]
  /\ Answer(r, "ok")
  /\ UNCHANGED << node, op, path, response, before >>

DeviceStep(r) ==
  ReadDir(r) \/ OpenRead(r) \/ ReadDone(r) \/ Rm(r) \/ WriteFile(r) \/ MakeDir(r)
    \/ OpenFile(r) \/ Store(r)

-------------------------------------------------------------------------------

Next ==
  \E r \in Requests :
    \/ \E what \in Ops, p \in VirtualPaths : Ask(r, what, p)
    \/ AckArrives(r)
    \/ AckTimeout(r)
    \/ DeviceStep(r)

Spec == Init /\ [][Next]_vars

\* No request is lost, and the device's file system answers.
ReliableSpec == Spec /\ \A r \in Requests : WF_vars(DeviceStep(r))

-------------------------------------------------------------------------------
(* Properties.                                                             *)

Writes(f) == {q \in Requests : op[q] = "write_file" /\ Named(q) = f}
Removals(f) == {q \in Requests : op[q] = "rm" /\ Named(q) = f}
Reads(f) == {q \in Requests : op[q] = "read_file" /\ Named(q) = f}

\* Neither was acknowledged before the other was sent.
Overlap(q, r) == q # r /\ q \notin before[r] /\ r \notin before[q]

\* An acknowledged removal, or write that the device carried out, hides what
\* was there before: a later read never gets what a write stored that was
\* acknowledged before it was sent.  And after such a write a read is told 404
\* only if a removal could have come later.  (The awaits before each callback
\* in WsHandler, and readFile's own between its pieces.)
NoStaleReads ==
  \A f \in Nodes : \A r \in Reads(f) :
    /\ \A w \in (Writes(f) \cup Removals(f)) \cap before[r] :
         reply[w] = "ok" \/ op[w] = "rm" => response[r] \notin before[w]
    /\ \A w \in Writes(f) \cap before[r] :
         reply[w] = "ok" /\ response[r] = "404" => ~(Removals(f) \subseteq before[w])

\* A caller is given what no request wrote, cut off or put together of
\* several, only if a write overlaps the read or another write of the file.
TornReadsNeedAWriter ==
  \A f \in Nodes : \A r \in Reads(f) :
    response[r] = "torn" =>
      \E v \in Writes(f) : \E q \in Writes(f) \cup {r} : Overlap(v, q)

\* A write of an allowed path fails only if a write that is not older needs a
\* folder where this one puts a file, or puts a file where this one needs a
\* folder.  Writes that make the same folders at the same time do not make one
\* another fail, though ensureDir looks, and creates after an await.
WritesFailInConflictOnly ==
  \A f \in Nodes : \A w \in Writes(f) :
    reply[w] = "failed" =>
      \E g \in Nodes : \E v \in Writes(g) :
        w \notin before[v] /\ (g \in Above(f) \/ f \in Above(g))

\* However a path is written, files outside local_scripts and screenshots keep
\* their names and content, and no caller is given it.  (The device resolves a
\* path before it validates it; the gateway looks at the first segments only.)
OnlyAllowedDirectories ==
  /\ \A f \in Outside : node[f] = "private"
  /\ data["private"] = "private"
  /\ \A r \in Requests : response[r] # "private"

\* readme.md: a device handles the event set_file.
SetFileIsHandled ==
  \A r \in Requests : Handled(r, "set_file") ~> reply[r] # Nothing
===============================================================================
